----------------------------- MODULE ClaudeLog -----------------------------
(***************************************************************************)
(* ClaudeLogProcessor of crates/executors/src/executors/claude.rs, for     *)
(* Claude Code (HistoryStrategy::Default) and for Amp (AmpResume).         *)
(*                                                                         *)
(* The agent streams one message at a time (`open`), in up to two blocks.  *)
(* It sends the message whole at the end, or each block as a message of    *)
(* its own before the next block; other messages are not streamed.         *)
(***************************************************************************)
EXTENDS Patches

Block == 0..1

(* tools: tool_map, 0 for a call that is not in it; kind: how its result   *)
(* is shown.  live, cur: the open message is in streaming_messages, and is *)
(* streaming_message_id.  blocks: StreamingContentState per block, h = 0   *)
(* until it has an entry.  The rest is the agent: the pieces it sent, the  *)
(* blocks it has sent whole, the calls and their outcome.                  *)
ClaudeStart(amp) ==
    [n |-> 0, amp |-> amp, named |-> FALSE,
     tools |-> [c \in Call |-> 0], kind |-> [c \in Call |-> "none"],
     live |-> FALSE, cur |-> FALSE,
     blocks |-> [b \in Block |-> [buf |-> <<>>, h |-> 0]],
     open |-> FALSE, text |-> [b \in Block |-> <<>>], whole |-> {},
     said |-> 0, expect |-> {},
     used |-> {}, outcome |-> [c \in Call |-> NoCall]]

(* extract_action_type.  mcp and Unknown are the tools without a name of   *)
(* their own, with and without the prefix "mcp__".                         *)
extract_action_type ==
    [Read |-> "FileRead", Edit |-> "FileEdit", MultiEdit |-> "FileEdit", Write |-> "FileEdit",
     Bash |-> "CommandRun", Grep |-> "Search", Glob |-> "Search", WebFetch |-> "WebFetch",
     WebSearch |-> "WebFetch", Task |-> "TaskCreate", ExitPlanMode |-> "PlanPresentation",
     NotebookEdit |-> "Tool", TodoWrite |-> "TodoManagement", TodoRead |-> "TodoManagement",
     LS |-> "Other", Oracle |-> "Other", Mermaid |-> "Other", CodebaseSearchAgent |-> "Other",
     UndoEdit |-> "Other", mcp |-> "Tool", Unknown |-> "Other"]

ClaudeToolData == DOMAIN extract_action_type

(* The entry of a call; its content is a description of the arguments. *)
ToolEntry(c, k) == Tool(c, extract_action_type[k], "created")

(* Text and thinking alike become an entry with that text. *)
content_item_to_normalized_entry(t) == Text(t)

(* How the entry shows the result of a call of tool k: as a command, as a  *)
(* generic tool, or not at all.                                            *)
ResultAction(k) ==
    CASE k = "Bash" -> "CommandRun"
      [] k \in {"Unknown", "mcp", "Oracle", "Mermaid", "CodebaseSearchAgent", "NotebookEdit"} -> "Tool"
      [] OTHER -> "none"

(* The lines the agent may send next. *)
ClaudeLines(s) ==
    LET fresh == Call \ s.used
        waiting == {c \in s.used : s.outcome[c] = NoCall}
    IN  {[t |-> "system", notes |-> k] : k \in 0..2}
        \cup {[t |-> "note"], [t |-> "raw"]}
        \cup {[t |-> "user"] : x \in {y \in {1} : ~s.open}}
        \cup {[t |-> "start", id |-> i] : i \in {j \in BOOLEAN : ~s.open /\ ~s.amp}}
        \cup {[t |-> "delta", b |-> b] :
                b \in {c \in Block : s.open /\ c \notin s.whole /\ (c = 1 => s.text[0] # <<>>)}}
        \cup {[t |-> "stop"] : x \in {y \in {1} : s.open /\ {b \in Block : s.text[b] # <<>>} \subseteq s.whole}}
        \cup {[t |-> "whole", bs |-> bs] :
                bs \in {cs \in {<<0>>, <<1>>, <<0, 1>>} :
                          /\ s.open
                          /\ \A i \in DOMAIN cs : cs[i] \notin s.whole /\ s.text[cs[i]] # <<>>
                          /\ cs = <<1>> => 0 \in s.whole
                          /\ cs = <<0>> => s.text[1] = <<>>}}
        \cup {[t |-> "message"] : x \in {y \in {1} : ~s.open}}
        \cup {[t |-> "call", c |-> c, k |-> k] : c \in fresh, k \in ClaudeToolData}
        \cup {[t |-> "result", c |-> c, ok |-> ok] : c \in waiting, ok \in {"success", "failed"}}

(* extract_model_name: the first message that names a model. *)
extract_model_name(s) ==
    IF s.named THEN Done(s, <<>>)
    ELSE Done([s EXCEPT !.named = TRUE, !.n = @ + 1], <<AddNormalized(s.n + 1, Note)>>)

(* System: a warning about the key, the message itself, both or neither. *)
ClaudeSystem(s, k) ==
    Done([s EXCEPT !.n = @ + k], [i \in 1..k |-> AddNormalized(s.n + i, Note)])

(* An error result of Amp, a refused or expired approval, an unknown       *)
(* message: one note.                                                      *)
ClaudeNote(s) == ClaudeSystem(s, 1)

(* A line that is not JSON. *)
ClaudeRaw(s) == ClaudeSystem(s, 1)

ClaudeMessageStart(s, id) ==
    LET r == extract_model_name(s)
    IN  Done([r.st EXCEPT !.live = id, !.cur = id,
                          !.blocks = [b \in Block |-> [buf |-> <<>>, h |-> 0]],
                          !.open = TRUE, !.text = [b \in Block |-> <<>>], !.whole = {}],
             r.ops)

(* apply_content_delta. *)
BlockText(s, b) == Append(s.blocks[b].buf, s.said + 1)

(* apply_content_block_delta: add the entry of the block or replace it. *)
ClaudeDelta(s, b) ==
    LET piece == s.said + 1
        buf == BlockText(s, b)
        h == IF s.blocks[b].h = 0 THEN s.n + 1 ELSE s.blocks[b].h
        t == [s EXCEPT !.said = piece, !.text[b] = Append(@, piece)]
    IN  IF ~(s.cur /\ s.live) THEN Done(t, <<>>)
        ELSE Done([t EXCEPT !.blocks[b] = [buf |-> buf, h |-> h],
                            !.n = IF s.blocks[b].h = 0 THEN h ELSE @],
                  IF s.blocks[b].h = 0 THEN <<AddNormalized(h, content_item_to_normalized_entry(buf))>>
                                       ELSE <<ReplaceEntry(h, content_item_to_normalized_entry(buf))>>)

ClaudeMessageStop(s) ==
    Done([s EXCEPT !.open = FALSE, !.cur = FALSE, !.live = @ /\ ~s.cur], <<>>)

(* Mutant: the final text ignores what was streamed. *)
AssistantTextAgain(s, i, t) ==
    Done([s EXCEPT !.n = @ + 1], <<AddNormalized(s.n + 1, content_item_to_normalized_entry(t))>>)

(* One text of an Assistant message, at position i of its content: it goes *)
(* to the entry of the streamed block i, or to a new one.                  *)
AssistantText(s, i, t) ==
    LET h == IF s.live /\ i \in Block THEN s.blocks[i].h ELSE 0
    IN  IF h # 0 THEN Done(s, <<ReplaceEntry(h, content_item_to_normalized_entry(t))>>)
        ELSE Done([s EXCEPT !.n = @ + 1], <<AddNormalized(s.n + 1, content_item_to_normalized_entry(t))>>)

(* An Assistant message with the texts ts; it takes the state of the       *)
(* streamed message, if it has its id, out of streaming_messages.          *)
AssistantMessage(s, ts, mine) ==
    LET a == extract_model_name(s)
        b == AssistantText([a.st EXCEPT !.live = @ /\ mine], 0, ts[1])
        c == IF Len(ts) = 1 THEN Done(b.st, <<>>) ELSE AssistantText(b.st, 1, ts[2])
    IN  Done([c.st EXCEPT !.live = s.live /\ ~mine], a.ops \o b.ops \o c.ops)

ClaudeWhole(s, bs) ==
    AssistantMessage([s EXCEPT !.whole = @ \cup Range(bs),
                               !.expect = @ \cup UNION {Range(s.text[b]) : b \in Range(bs)}],
                     [i \in DOMAIN bs |-> s.text[bs[i]]], TRUE)

ClaudeMessage(s) ==
    AssistantMessage([s EXCEPT !.said = @ + 1, !.expect = @ \cup {s.said + 1}],
                     <<<<s.said + 1>>>>, FALSE)

ClaudeToolUse(s, c, k) ==
    LET a == extract_model_name(s)
    IN  Done([a.st EXCEPT !.n = @ + 1, !.tools[c] = a.st.n + 1, !.kind[c] = ResultAction(k),
                          !.used = @ \cup {c}],
             a.ops \o <<AddNormalized(a.st.n + 1, ToolEntry(c, k))>>)

ClaudeToolResult(s, c, ok) ==
    Done([s EXCEPT !.outcome[c] = ok],
         IF s.tools[c] # 0 /\ s.kind[c] # "none"
         THEN <<ReplaceEntry(s.tools[c], Tool(c, s.kind[c], ok))>> ELSE <<>>)

(* User text.  Amp resumes a thread by replaying it: what is shown so far  *)
(* is removed, the provider reset and the tools forgotten.                 *)
ClaudeUser(s) ==
    IF ~s.amp THEN Done(s, <<>>)
    ELSE Done([s EXCEPT !.n = @ + 1, !.tools = [c \in Call |-> 0], !.expect = {}],
              <<Wipe, AddNormalized(s.n + 1, Note)>>)

ClaudeHandle(s, l) ==
    CASE l.t = "system" -> ClaudeSystem(s, l.notes)
      [] l.t = "note" -> ClaudeNote(s)
      [] l.t = "raw" -> ClaudeRaw(s)
      [] l.t = "user" -> ClaudeUser(s)
      [] l.t = "start" -> ClaudeMessageStart(s, l.id)
      [] l.t = "delta" -> ClaudeDelta(s, l.b)
      [] l.t = "stop" -> ClaudeMessageStop(s)
      [] l.t = "whole" -> ClaudeWhole(s, l.bs)
      [] l.t = "message" -> ClaudeMessage(s)
      [] l.t = "call" -> ClaudeToolUse(s, l.c, l.k)
      [] l.t = "result" -> ClaudeToolResult(s, l.c, l.ok)

(* normalize_entries collects the patches; process_logs pushes them. *)
ClaudeProcess(s, l) ==
    LET r == ClaudeHandle(s, l) IN Done(r.st, Batch(s.n, r.st.n, r.ops))
=============================================================================
