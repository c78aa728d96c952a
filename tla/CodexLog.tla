------------------------------ MODULE CodexLog ------------------------------
(***************************************************************************)
(* The loop of crates/executors/src/executors/codex/normalize_logs.rs over *)
(* the events of the Codex app server.                                     *)
(*                                                                         *)
(* The agent finishes a text (AgentMessage) before it starts another or    *)
(* calls a tool, or gets the result of a search.  A call may be asked for  *)
(* (again) before it begins.                                               *)
(***************************************************************************)
EXTENDS Patches

(* asst, think: the handles of LogState::assistant and ::thinking, 0 for   *)
(* None; buf: the content of the one that is open.  held: commands,        *)
(* mcp_tools and web_searches; patches: the entries of a patch, one per    *)
(* changed file, <<>> for a call not in the map.  The rest is the agent:   *)
(* the text it is sending, its calls and their outcome.                    *)
CodexStart ==
    [n |-> 0, asst |-> 0, think |-> 0, buf |-> <<>>,
     held |-> [c \in Call |-> 0], patches |-> [c \in Call |-> <<>>],
     open |-> "none", text |-> <<>>, said |-> 0, expect |-> {},
     phase |-> [c \in Call |-> "new"], kind |-> [c \in Call |-> "cmd"],
     outcome |-> [c \in Call |-> NoCall]]

(* The entries of the four kinds of calls. *)
CommandState(c, s) == Tool(c, "CommandRun", s)
McpToolState(c, s) == Tool(c, "Tool", s)
WebSearchState(c, s) == Tool(c, "WebFetch", s)
CodexPatchEntry(c, s) == Tool(c, "FileEdit", s)
CodexKind == {"cmd", "mcp", "search", "patch"}
CodexEntry(k, c, s) ==
    CASE k = "cmd" -> CommandState(c, s)
      [] k = "mcp" -> McpToolState(c, s)
      [] k = "search" -> WebSearchState(c, s)

CodexLines(s) ==
    {[t |-> "delta", k |-> k] : k \in {x \in {"asst", "think"} : s.open \in {"none", x}}}
    \cup {[t |-> "text", k |-> k] : k \in {x \in {"asst", "think"} : s.open \in {"none", x}}}
    \cup {[t |-> "note"], [t |-> "outside"], [t |-> "plan"]}
    \cup {[t |-> k] : k \in {j \in {"break", "image"} : s.open = "none"}}
    \cup {[t |-> "ask", c |-> c, f |-> f] :
            c \in {d \in Call : s.open = "none" /\ s.phase[d] = "new"}, f \in 0..2}
    \cup {[t |-> "ask", c |-> c, f |-> f] :
            c \in {d \in Call : s.open = "none" /\ s.phase[d] = "asked" /\ s.kind[d] = "patch"},
            f \in 1..2}
    \cup {[t |-> "ask", c |-> c, f |-> 0] :
            c \in {d \in Call : s.open = "none" /\ s.phase[d] = "asked" /\ s.kind[d] = "cmd"}}
    \cup {[t |-> "begin", c |-> c, k |-> k, f |-> f] :
            c \in {d \in Call : s.open = "none" /\ s.phase[d] = "new"}, k \in CodexKind, f \in 1..2}
    \cup {[t |-> "begin", c |-> c, k |-> s.kind[c], f |-> f] :
            c \in {d \in Call : s.open = "none" /\ s.phase[d] = "asked"}, f \in 1..2}
    \cup {[t |-> "output", c |-> c] : c \in {d \in Call : s.phase[d] = "begun"}}
    \cup {[t |-> "end", c |-> c, ok |-> ok] :
            c \in {d \in Call : s.phase[d] = "begun" /\ (s.kind[d] = "search" => s.open = "none")},
            ok \in {"success", "failed"}}

(* state.assistant = None; state.thinking = None. *)
NoText(s) == [s EXCEPT !.asst = 0, !.think = 0, !.buf = <<>>]

(* streaming_text_update and upsert_normalized_entry, for the text the     *)
(* event belongs to: `t` is what the entry shows.                          *)
streaming_text_update(s, k, t) ==
    LET cur == IF k = "asst" THEN s.asst ELSE s.think
        h == IF cur = 0 THEN s.n + 1 ELSE cur
        held == [s EXCEPT !.n = IF cur = 0 THEN h ELSE @, !.buf = t,
                          !.asst = IF k = "asst" THEN h ELSE 0,
                          !.think = IF k = "think" THEN h ELSE 0]
    IN  Done(held, IF cur = 0 THEN AddNew(h, Text(t)) ELSE <<ReplaceEntry(h, Text(t))>>)

(* AgentMessageDelta, AgentReasoningDelta: append a piece. *)
CodexDelta(s, k) ==
    LET piece == s.said + 1
        mine == IF k = "asst" THEN s.asst # 0 ELSE s.think # 0
        r == streaming_text_update(s, k, IF mine THEN Append(s.buf, piece) ELSE <<piece>>)
    IN  Done([r.st EXCEPT !.said = piece, !.expect = @ \cup {piece},
                          !.open = k, !.text = Append(@, piece)], r.ops)

(* AgentMessage, AgentReasoning: the whole text, then it is closed. *)
CodexText(s, k) ==
    LET streamed == s.open = k
        t == IF streamed THEN s.text ELSE <<s.said + 1>>
        r == streaming_text_update(s, k, t)
    IN  Done([NoText(r.st) EXCEPT !.said = IF streamed THEN @ ELSE @ + 1,
                                  !.expect = @ \cup Range(t), !.open = "none",
                                  !.text = <<>>],
             r.ops)

(* An error of the app server, a refused approval, the model in a          *)
(* response: lines that are not events.                                    *)
CodexOutside(s) == Done([s EXCEPT !.n = @ + 1], AddNew(s.n + 1, Note))

(* BackgroundEvent, StreamError: an entry that is not touched again and    *)
(* leaves the open text open.                                              *)
CodexNote(s) == Done([s EXCEPT !.n = @ + 1], AddNew(s.n + 1, Note))

(* PlanUpdate, Error. *)
PlanUpdate(s) == CodexNote(s)

(* ViewImageToolCall: an entry that closes the open text. *)
ViewImageToolCall(s) == CodexNote(NoText(s))

(* ExecApprovalRequest: the entry is of a default CommandState, so it      *)
(* carries no tool_call_id.                                                *)
ExecApprovalRequest(s0, c) ==
    LET s == [NoText(s0) EXCEPT !.phase[c] = "asked", !.kind[c] = "cmd"]
    IN  IF s.held[c] # 0 THEN Done(s, <<ReplaceEntry(s.held[c], CommandState(NoCall, "created"))>>)
        ELSE Done([s EXCEPT !.n = @ + 1, !.held[c] = s.n + 1],
                  AddNew(s.n + 1, CommandState(NoCall, "created")))

(* f new entries of a patch, one after the other: at most two. *)
PatchEntries(s, c, f) ==
    LET entry(i) == AddNew(s.n + i, CodexPatchEntry(c, "created"))
    IN  (IF f >= 1 THEN entry(1) ELSE <<>>) \o (IF f >= 2 THEN entry(2) ELSE <<>>)

(* ApplyPatchApprovalRequest: the entries of an earlier request go. *)
ApplyPatchApprovalRequest(s0, c, f) ==
    LET s == [NoText(s0) EXCEPT !.phase[c] = "asked", !.kind[c] = "patch"]
        old == s.patches[c]
    IN  Done([s EXCEPT !.n = @ + f, !.patches[c] = [i \in 1..f |-> s.n + i]],
             [i \in DOMAIN old |-> RemoveEntry(old[i])] \o PatchEntries(s, c, f))

(* ExecCommandBegin, McpToolCallBegin, WebSearchBegin: always a new entry, *)
(* whatever entry an earlier request for approval has.                     *)
CodexBegin(s0, c, k) ==
    LET s == [NoText(s0) EXCEPT !.phase[c] = "begun", !.kind[c] = k]
    IN  Done([s EXCEPT !.n = @ + 1, !.held[c] = s.n + 1],
             AddNew(s.n + 1, CodexEntry(k, c, "created")))

McpToolCallBegin(s, c) == CodexBegin(s, c, "mcp")
WebSearchBegin(s, c) == CodexBegin(s, c, "search")

(* PatchApplyBegin: the entries of the request are reused, entries for     *)
(* further files added.                                                    *)
PatchApplyBegin(s0, c, f) ==
    LET s == [NoText(s0) EXCEPT !.phase[c] = "begun", !.kind[c] = "patch"]
        old == s.patches[c]
        more == IF f > Len(old) THEN f - Len(old) ELSE 0
    IN  Done([s EXCEPT !.n = @ + more,
                       !.patches[c] = old \o [i \in 1..more |-> s.n + i]],
             [i \in DOMAIN old |-> ReplaceEntry(old[i], CodexPatchEntry(c, "created"))]
                 \o PatchEntries(s, c, more))

(* ExecCommandOutputDelta. *)
CodexOutput(s, c) ==
    Done(s, IF s.held[c] # 0 /\ s.kind[c] = "cmd"
            THEN <<ReplaceEntry(s.held[c], CommandState(c, "created"))>> ELSE <<>>)

(* ExecCommandEnd: the state is removed and the entry shows the outcome. *)
ExecCommandEnd(s, c, ok) ==
    Done([s EXCEPT !.held[c] = 0, !.phase[c] = "ended", !.outcome[c] = ok],
         IF s.held[c] # 0 THEN <<ReplaceEntry(s.held[c], CodexEntry(s.kind[c], c, ok))>> ELSE <<>>)

McpToolCallEnd(s, c, ok) == ExecCommandEnd(s, c, ok)

(* The end of a search is always a success and closes the open text. *)
WebSearchEnd(s, c) == ExecCommandEnd(NoText(s), c, "success")

PatchApplyEnd(s, c, ok) ==
    Done([s EXCEPT !.patches[c] = <<>>, !.phase[c] = "ended", !.outcome[c] = ok],
         [i \in DOMAIN s.patches[c] |-> ReplaceEntry(s.patches[c][i], CodexPatchEntry(c, ok))])

CodexProcess(s, l) ==
    CASE l.t = "delta" -> CodexDelta(s, l.k)
      [] l.t = "text" -> CodexText(s, l.k)
      [] l.t = "note" -> CodexNote(s)
      [] l.t = "outside" -> CodexOutside(s)
      [] l.t = "plan" -> PlanUpdate(s)
      [] l.t = "image" -> ViewImageToolCall(s)
      [] l.t = "break" -> Done(NoText(s), <<>>)
      [] l.t = "ask" -> IF l.f = 0 THEN ExecApprovalRequest(s, l.c)
                                   ELSE ApplyPatchApprovalRequest(s, l.c, l.f)
      [] l.t = "begin" -> (CASE l.k = "patch" -> PatchApplyBegin(s, l.c, l.f)
                            [] l.k = "cmd" -> CodexBegin(s, l.c, "cmd")
                            [] l.k = "mcp" -> McpToolCallBegin(s, l.c)
                            [] l.k = "search" -> WebSearchBegin(s, l.c))
      [] l.t = "output" -> CodexOutput(s, l.c)
      [] l.t = "end" -> (CASE s.kind[l.c] = "patch" -> PatchApplyEnd(s, l.c, l.ok)
                          [] s.kind[l.c] = "cmd" -> ExecCommandEnd(s, l.c, l.ok)
                          [] s.kind[l.c] = "mcp" -> McpToolCallEnd(s, l.c, l.ok)
                          [] s.kind[l.c] = "search" -> WebSearchEnd(s, l.c))
=============================================================================
