----------------------------- MODULE OtherLogs -----------------------------
(***************************************************************************)
(* The normalisers of Cursor (cursor.rs), of the agents that speak the     *)
(* Agent Client Protocol, Gemini and Qwen (acp/normalize_logs.rs), of      *)
(* OpenCode (opencode.rs) and of Copilot (copilot.rs).                     *)
(***************************************************************************)
EXTENDS Patches

-----------------------------------------------------------------------------
(* Cursor and ACP: asst and think are the entry a text is collected in, 0  *)
(* for none, abuf and tbuf what it holds; tools is call_index_map, or      *)
(* tool_states with the status that was merged into them.                  *)
ChatStart ==
    [n |-> 0, named |-> FALSE, asst |-> 0, abuf |-> <<>>, think |-> 0, tbuf |-> <<>>,
     tools |-> [c \in Call |-> 0], status |-> [c \in Call |-> "created"],
     kind |-> [c \in Call |-> "Other"],
     said |-> 0, expect |-> {}, outcome |-> [c \in Call |-> NoCall]]

(* Append a piece to a collected text, which may have no entry yet. *)
Collect(s, cur, buf) ==
    LET t == Append(buf, s.said + 1)
    IN  [h |-> IF cur = 0 THEN s.n + 1 ELSE cur, t |-> t,
         st |-> [s EXCEPT !.n = IF cur = 0 THEN @ + 1 ELSE @,
                          !.said = @ + 1, !.expect = @ \cup {s.said + 1}],
         ops |-> IF cur = 0 THEN AddNew(s.n + 1, Text(t)) ELSE <<ReplaceEntry(cur, Text(t))>>]

CollectAssistant(s) ==
    LET r == Collect(s, s.asst, s.abuf)
    IN  Done([r.st EXCEPT !.asst = r.h, !.abuf = r.t], r.ops)

CollectThinking(s) ==
    LET r == Collect(s, s.think, s.tbuf)
    IN  Done([r.st EXCEPT !.think = r.h, !.tbuf = r.t], r.ops)

DropAssistant(s) == [s EXCEPT !.asst = 0, !.abuf = <<>>]
DropThinking(s) == [s EXCEPT !.think = 0, !.tbuf = <<>>]
ChatNote(s) == Done([s EXCEPT !.n = @ + 1], AddNew(s.n + 1, Note))

(* to_action_and_content, for the tools on files and for the others. *)
CursorFileAction ==
    [Read |-> "FileRead", Write |-> "FileEdit", Edit |-> "FileEdit", Delete |-> "FileEdit"]
CursorOtherAction ==
    [Shell |-> "CommandRun", Grep |-> "Search", SemSearch |-> "Search", Glob |-> "Search",
     LS |-> "Other", Todo |-> "TodoManagement", Mcp |-> "Tool", Unknown |-> "Other"]
CursorAction == CursorFileAction @@ CursorOtherAction

CursorLines(s) ==
    {[t |-> k] : k \in {"assistant", "thinking", "system", "raw", "unknown", "other"}}
    \cup {[t |-> "started", c |-> c, k |-> k] :
            c \in {d \in Call : s.tools[d] = 0}, k \in DOMAIN CursorAction}
    \cup {[t |-> "completed", c |-> c] :
            c \in {d \in Call : s.tools[d] # 0 /\ s.outcome[d] = NoCall}}

(* A line of another kind closes the collected texts; a line that is not   *)
(* JSON is shown and closes nothing.                                       *)
CursorFlush(s, t) ==
    LET a == IF t # "assistant" /\ s.asst # 0 THEN DropAssistant(s) ELSE s
    IN  IF t # "thinking" /\ a.think # 0 THEN DropThinking(a) ELSE a

CursorStarted(s, c, k) ==
    Done([s EXCEPT !.n = @ + 1, !.tools[c] = s.n + 1, !.kind[c] = CursorAction[k]],
         AddNew(s.n + 1, Tool(c, CursorAction[k], "created")))

(* Mutant: the result is shown as that of some tool. *)
CursorCompletedGeneric(s, c) ==
    Done([s EXCEPT !.outcome[c] = "success"],
         <<ReplaceEntry(s.tools[c], Tool(c, "Tool", "success"))>>)

(* The action is derived again, with the result of a command or an MCP     *)
(* tool.  Whatever the tool returned, its entry shows a success.           *)
CursorCompleted(s, c) ==
    Done([s EXCEPT !.outcome[c] = "success"],
         <<ReplaceEntry(s.tools[c], Tool(c, s.kind[c], "success"))>>)

CursorProcess(s, l) ==
    IF l.t = "raw" THEN ChatNote(s)
    ELSE LET f == CursorFlush(s, l.t)
         IN  CASE l.t = "assistant" -> CollectAssistant(f)
               [] l.t = "thinking" -> CollectThinking(f)
               [] l.t = "system" -> IF f.named THEN Done(f, <<>>)
                                    ELSE ChatNote([f EXCEPT !.named = TRUE])
               [] l.t = "started" -> CursorStarted(f, l.c, l.k)
               [] l.t = "completed" -> CursorCompleted(f, l.c)
               [] l.t = "unknown" -> ChatNote(f)
               [] l.t = "other" -> Done(f, <<>>)

-----------------------------------------------------------------------------
(* ToolCallStatus: "created" stands for Pending, the default, and for      *)
(* InProgress, which are shown alike.                                      *)
(* map_to_action_type, by ToolKind; Many is Read for read_many_files, and  *)
(* Other the default kind.  A call keeps its kind once it has one.         *)
map_to_action_type ==
    [Read |-> "FileRead", Many |-> "Tool", Edit |-> "FileEdit", Delete |-> "FileEdit",
     Execute |-> "CommandRun", Search |-> "Search", Fetch |-> "WebFetch", Think |-> "Tool",
     SwitchMode |-> "Other", Move |-> "Tool", Other |-> "Tool"]

AcpLines(s) ==
    {[t |-> k] : k \in {"message", "thought", "image", "done", "plan", "note"}}
    \cup (UNION {{[t |-> "tool", c |-> c, k |-> k, to |-> to] :
                    k \in IF s.kind[c] = "Other" THEN DOMAIN map_to_action_type
                          ELSE {s.kind[c], "Other"},
                    to \in {"created", "success", "failed"}} :
                  c \in {d \in Call : s.outcome[d] = NoCall}})
    \cup {[t |-> "tool", c |-> c, k |-> "Other", to |-> "created"] :
            c \in {d \in Call : s.outcome[d] # NoCall}}

(* Mutant: an update overwrites all fields. *)
AcpOverwrite(old, new, default) == new

(* PartialToolCallData::extend keeps what an update does not give: the     *)
(* default counts as not given.                                            *)
AcpExtend(old, new, default) == IF new # default THEN new ELSE old

handle_tool_call(s0, c, k, to) ==
    LET s == DropThinking(DropAssistant(s0))
        st == AcpExtend(s.status[c], to, "created")
        kind == AcpExtend(s.kind[c], k, "Other")
        entry == Tool(c, map_to_action_type[kind], st)
        new == s.tools[c] = 0
        h == IF new THEN s.n + 1 ELSE s.tools[c]
    IN  Done([s EXCEPT !.n = IF new THEN h ELSE @, !.tools[c] = h, !.status[c] = st, !.kind[c] = kind,
                       !.outcome[c] = IF to = "created" THEN @ ELSE to],
             IF new THEN AddNew(h, entry) ELSE <<ReplaceEntry(h, entry)>>)

AcpProcess(s, l) ==
    CASE l.t = "message" -> CollectAssistant(DropThinking(s))
      [] l.t = "thought" -> CollectThinking(DropAssistant(s))
      [] l.t = "image" -> Done(DropThinking(s), <<>>)
      [] l.t = "done" -> Done(DropThinking(DropAssistant(s)), <<>>)
      [] l.t = "plan" -> ChatNote(DropThinking(DropAssistant(s)))
      [] l.t = "note" -> ChatNote(s)
      [] l.t = "tool" -> handle_tool_call(s, l.c, l.k, l.to)

-----------------------------------------------------------------------------
(* OpenCode shares the parts of its messages.  Two messages, two parts     *)
(* each and at most MaxSegment breaks: <<m, g>> is the key "session:m#g".  *)
(* texts: message_part_texts, order: message_parts_order, seg:             *)
(* message_segment, brk: message_pending_break, shown: index_by_message.   *)
(* sent is the text of each part as the agent has it.  It gives the role   *)
(* of a message before its first tool part, and does not go back to a text *)
(* part after a tool part of that message.                                 *)
Msg == 1..2
Part == 1..2
MaxSegment == 2
Segment == Msg \X (0..MaxSegment)
OpencodeStart ==
    [n |-> 0, role |-> [m \in Msg |-> "unknown"],
     seg |-> [m \in Msg |-> 0], brk |-> [m \in Msg |-> FALSE],
     order |-> [k \in Segment |-> <<>>], texts |-> [k \in Msg \X (0..MaxSegment) \X Part |-> <<>>],
     shown |-> [k \in Segment |-> 0], tools |-> [c \in Call |-> 0], kind |-> [c \in Call |-> "none"],
     sent |-> [k \in Msg \X Part |-> <<>>], shut |-> [m \in Msg |-> {}],
     said |-> 0, expect |-> {}, outcome |-> [c \in Call |-> NoCall]]

(* derive_action_type, or "Tool" where it gives none. *)
derive_action_type(tool, diff) ==
    CASE tool = "read" -> "FileRead"
      [] tool = "write" -> "FileEdit"
      [] tool = "edit" -> IF diff THEN "FileEdit" ELSE "Tool"
      [] tool = "bash" -> "CommandRun"
      [] tool \in {"grep", "glob"} -> "Search"
      [] tool = "webfetch" -> "WebFetch"
      [] tool \in {"todowrite", "todoread"} -> "TodoManagement"
      [] OTHER -> "Tool"

OpencodeTools == {"read", "write", "edit", "bash", "grep", "webfetch", "todowrite", "list"}

OpencodeLines(s) ==
    {[t |-> "role", m |-> m, r |-> r] :
        m \in {k \in Msg : s.role[k] = "unknown"}, r \in {"user", "assistant"}}
    \cup {[t |-> "text", m |-> k[1], p |-> k[2]] :
            k \in {j \in Msg \X Part : /\ j[2] \notin s.shut[j[1]]
                                       /\ s.brk[j[1]] => s.seg[j[1]] < MaxSegment}}
    \cup UNION {{[t |-> "tool", m |-> m, c |-> c, k |-> k, fin |-> fin] :
                   m \in {j \in Msg : s.role[j] # "unknown"},
                   k \in IF s.tools[c] = 0 THEN OpencodeTools ELSE {s.kind[c]},
                   fin \in BOOLEAN} :
                 c \in {d \in Call : s.outcome[d] = NoCall}}

(* The parts of segment k concatenated in the order they first came in. *)
Aggregated(s, k) == FlattenSeq([i \in DOMAIN s.order[k] |-> s.texts[<<k[1], k[2], s.order[k][i]>>]])

(* Show the text of segment k in the one entry of that segment. *)
UpsertMessage(s, k) ==
    LET t == Aggregated(s, k)
        h == IF s.shown[k] = 0 THEN s.n + 1 ELSE s.shown[k]
    IN  IF s.shown[k] # 0 THEN Done(s, <<ReplaceEntry(h, Text(t))>>)
        ELSE Done([s EXCEPT !.n = h, !.shown[k] = h], AddNew(h, Text(t)))

(* session/message/...: the role decides what becomes of text that came    *)
(* before it; only the current segment is looked at.                       *)
OpencodeRole(s0, m, r) ==
    LET s == [s0 EXCEPT !.role[m] = r]
        k == <<m, s.seg[m]>>
    IN  IF r # "user" /\ s.order[k] # <<>> THEN UpsertMessage(s, k) ELSE Done(s, <<>>)

(* session/part/... with a text. *)
OpencodeText(s0, m, p) ==
    LET g == IF s0.brk[m] THEN s0.seg[m] + 1 ELSE s0.seg[m]
        t == Append(s0.sent[<<m, p>>], s0.said + 1)
        k == <<m, g>>
        s == [s0 EXCEPT !.brk[m] = FALSE, !.seg[m] = g, !.said = @ + 1,
                        !.sent[<<m, p>>] = t, !.texts[<<m, g, p>>] = t,
                        !.order[k] = IF p \in Range(@) THEN @ ELSE Append(@, p)]
    IN  IF s.role[m] = "assistant" THEN UpsertMessage(s, k) ELSE Done(s, <<>>)

(* session/part/... with a tool: text of the message that follows starts a *)
(* new segment if the current one has text.  fin: the tool is completed or *)
(* failed, and an edit has its diff.  Its entry shows a success throughout.*)
OpencodeTool(s0, m, c, k0, fin) ==
    LET k == <<m, s0.seg[m]>>
        new == s0.tools[c] = 0
        h == IF new THEN s0.n + 1 ELSE s0.tools[c]
        s == [s0 EXCEPT !.brk[m] = @ \/ Aggregated(s0, k) # <<>>,
                        !.n = IF new THEN h ELSE @, !.tools[c] = h,
                        !.kind[c] = k0, !.outcome[c] = IF fin THEN "success" ELSE @,
                        !.shut[m] = @ \cup {p \in Part : s0.sent[<<m, p>>] # <<>>}]
        entry == Tool(c, derive_action_type(k0, fin), "success")
    IN  Done(s, IF new THEN AddNew(h, entry) ELSE <<ReplaceEntry(h, entry)>>)

(* What is to be shown: all text of the messages of the assistant. *)
OpencodeExpect(s) ==
    UNION {Range(s.sent[k]) : k \in {j \in Msg \X Part : s.role[j[1]] = "assistant"}}

OpencodeProcess(s, l) ==
    LET r == CASE l.t = "role" -> OpencodeRole(s, l.m, l.r)
               [] l.t = "text" -> OpencodeText(s, l.m, l.p)
               [] l.t = "tool" -> OpencodeTool(s, l.m, l.c, l.k, l.fin)
    IN  Done([r.st EXCEPT !.expect = OpencodeExpect(r.st)], r.ops)

-----------------------------------------------------------------------------
(* process_opencode_log_lines: an error line on stderr is an entry. *)
OpencodeErrorLine(p) == [p EXCEPT !.n = @ + 1, !.ops = AddNew(p.n + 1, Note)]

-----------------------------------------------------------------------------
(* Copilot: plain text, split into entries of at most SizeThreshold lines  *)
(* (8 KiB in the code).                                                    *)
SizeThreshold == 2

CopilotStart ==
    [n |-> 0, p |-> PlainTextLogProcessor, said |-> 0, expect |-> {},
     outcome |-> [c \in Call |-> NoCall]]

CopilotLines(s) == {[t |-> "line"], [t |-> "session"]}

CopilotProcess(s, l) ==
    IF l.t = "session" THEN Done(s, <<>>)
    ELSE LET p == process(s.p, s.said + 1, FALSE, SizeThreshold)
         IN  Done([s EXCEPT !.p = p, !.n = p.n, !.said = @ + 1, !.expect = @ \cup {s.said + 1}],
                  Batch(s.n, p.n, p.ops))
=============================================================================
