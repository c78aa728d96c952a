---------------------------- MODULE Conversation ----------------------------
(***************************************************************************)
(* The conversation of one execution as it is made from the agent's raw    *)
(* output: one task normalises stdout, another one stderr.  Both take the  *)
(* indexes of their entries from one EntryIndexProvider and push their     *)
(* patches to one MsgStore; taking an index and pushing the patch are two  *)
(* steps, between which the other task may run.                            *)
(***************************************************************************)
EXTENDS ClaudeLog, CodexLog, OtherLogs

CONSTANTS
    Agent,     \* the agents of which one is run
    MaxLine,   \* lines and chunks the agent writes
    MaxErr     \* chunks it writes to stderr among them

ASSUME AgentAssumption ==
    Agent \subseteq {"claude", "amp", "codex", "cursor", "acp", "opencode", "copilot"}

VARIABLES
    agent,   \* the agent that runs
    st,      \* state of its stdout normaliser
    err,     \* state of the stderr normaliser
    todo,    \* what each task still has to do for the line it handles
    next,    \* EntryIndexProvider
    idx,     \* the index each task took for its handles
    doc,     \* the conversation, see Patches
    sent,    \* lines and chunks written
    late,    \* an add was pushed before the add of a smaller index
    moved,   \* entries were moved under an index that is still in use
    stray    \* a replace changed an entry of another handle

vars == <<agent, st, err, todo, next, idx, doc, sent, late, moved, stray>>

Task == {"out", "err"}

Start(a) ==
    CASE a = "claude" -> ClaudeStart(FALSE)
      [] a = "amp" -> ClaudeStart(TRUE)
      [] a = "codex" -> CodexStart
      [] a \in {"cursor", "acp"} -> ChatStart
      [] a = "opencode" -> OpencodeStart
      [] a = "copilot" -> CopilotStart

Lines(a, s) ==
    CASE a \in {"claude", "amp"} -> ClaudeLines(s)
      [] a = "codex" -> CodexLines(s)
      [] a = "cursor" -> CursorLines(s)
      [] a = "acp" -> AcpLines(s)
      [] a = "opencode" -> OpencodeLines(s)
      [] a = "copilot" -> CopilotLines(s)

Process(a, s, l) ==
    CASE a \in {"claude", "amp"} -> ClaudeProcess(s, l)
      [] a = "codex" -> CodexProcess(s, l)
      [] a = "cursor" -> CursorProcess(s, l)
      [] a = "acp" -> AcpProcess(s, l)
      [] a = "opencode" -> OpencodeProcess(s, l)
      [] a = "copilot" -> CopilotProcess(s, l)

NoIndex == [h \in {} |-> 0]

Init ==
    /\ agent \in Agent
    /\ st = Start(agent)
    /\ err = PlainTextLogProcessor
    /\ todo = [t \in Task |-> <<>>]
    /\ next = 0
    /\ idx = [t \in Task |-> NoIndex]
    /\ doc = EmptyDoc
    /\ sent = [t \in Task |-> 0]
    /\ late = FALSE
    /\ moved = FALSE
    /\ stray = FALSE

-----------------------------------------------------------------------------
(* The stdout task gets the next line. *)
StdoutLine ==
    /\ todo["out"] = <<>>
    /\ sent["out"] + sent["err"] < MaxLine
    /\ \E l \in Lines(agent, st) :
         LET r == Process(agent, st, l)
         IN  st' = r.st /\ todo' = [todo EXCEPT !["out"] = r.ops]
    /\ sent' = [sent EXCEPT !["out"] = @ + 1]
    /\ UNCHANGED <<agent, err, next, idx, doc, late, moved, stray>>

(* The stderr task gets the next chunk.  OpenCode's error lines and        *)
(* Cursor's login error are entries of their own.                          *)
StderrChunk ==
    /\ todo["err"] = <<>>
    /\ sent["err"] < MaxErr /\ sent["out"] + sent["err"] < MaxLine
    /\ sent' = [sent EXCEPT !["err"] = @ + 1]
    /\ \/ /\ agent # "opencode"
          /\ \E gap \in BOOLEAN :
               LET p == process(err, sent["err"] + 1, gap, 0)
               IN  err' = p /\ todo' = [todo EXCEPT !["err"] = Batch(err.n, p.n, p.ops)]
       \/ /\ agent \in {"opencode", "cursor"}
          /\ err' = OpencodeErrorLine(err)
          /\ todo' = [todo EXCEPT !["err"] = OpencodeErrorLine(err).ops]
    /\ UNCHANGED <<agent, st, next, idx, doc, late, moved, stray>>

(* Mutant: the provider is not advanced. *)
TakeSameIndex(t, o) ==
    /\ o.op = "take"
    /\ idx' = [idx EXCEPT ![t] = [h \in DOMAIN @ \cup {o.who} |->
                                    IF h = o.who THEN next ELSE @[h]]]
    /\ UNCHANGED <<next, doc, late, moved, stray>>

(* EntryIndexProvider::next. *)
TakeIndex(t, o) ==
    /\ o.op = "take"
    /\ idx' = [idx EXCEPT ![t] = [h \in DOMAIN @ \cup {o.who} |->
                                    IF h = o.who THEN next ELSE @[h]]]
    /\ next' = next + 1
    /\ UNCHANGED <<doc, late, moved, stray>>

Entry(t, o) == [task |-> t, who |-> o.who, val |-> o.val]

PushAdd(t, o) ==
    LET i == idx[t][o.who]
    IN  /\ o.op = "add"
        /\ doc' = DocAdd(doc, i, Entry(t, o))
        /\ late' = (late \/ \E j \in DOMAIN doc : j > i)
        /\ UNCHANGED <<idx, next, moved, stray>>

PushReplace(t, o) ==
    LET i == idx[t][o.who]
    IN  /\ o.op = "replace"
        /\ doc' = DocReplace(doc, i, Entry(t, o))
        /\ stray' = (stray \/ i \notin DOMAIN doc \/ doc[i].task # t \/ doc[i].who # o.who)
        /\ UNCHANGED <<idx, next, late, moved>>

PushRemove(t, o) ==
    /\ o.op = "remove"
    /\ doc' = DocRemove(doc, idx[t][o.who])
    /\ moved' = TRUE
    /\ UNCHANGED <<idx, next, late, stray>>

(* Amp: the provider starts again, and later the entries of all indexes    *)
(* given out so far are removed.  The stderr task is not told.             *)
ResetIndex(t, o) ==
    /\ o.op = "reset"
    /\ next' = 0
    /\ moved' = (moved \/ DOMAIN idx["err"] # {})
    /\ UNCHANGED <<idx, doc, late, stray>>

PushWipe(t, o) ==
    /\ o.op = "wipe"
    /\ doc' = EmptyDoc
    /\ moved' = (moved \/ DOMAIN idx["err"] # {})
    /\ UNCHANGED <<idx, next, late, stray>>

(* A task does the next thing its line asks for. *)
Step(t) ==
    /\ todo[t] # <<>>
    /\ LET o == Head(todo[t])
       IN  TakeIndex(t, o) \/ PushAdd(t, o) \/ PushReplace(t, o) \/ PushRemove(t, o)
           \/ ResetIndex(t, o) \/ PushWipe(t, o)
    /\ todo' = [todo EXCEPT ![t] = Tail(@)]
    /\ UNCHANGED <<agent, st, err, sent>>

Next == StdoutLine \/ StderrChunk \/ \E t \in Task : Step(t)

Spec == Init /\ [][Next]_vars
FairSpec == Spec /\ \A t \in Task : WF_vars(Step(t))
-----------------------------------------------------------------------------
(* The entries of the agent's text that show piece p, with its place. *)
Places(p) ==
    UNION {{<<i, k>> : k \in {j \in DOMAIN doc[i].val.text : doc[i].val.text[j] = p}} :
             i \in {j \in DOMAIN doc : doc[j].task = "out"}}

(* No piece of what the agent said is shown twice, in whatever entries,    *)
(* also while a streamed text is replaced by the final one.                *)
NothingTwice ==
    ~moved => \A p \in 1..st.said : Cardinality(Places(p)) <= 1

(* Once a line is handled, everything the agent has said so far is shown,  *)
(* whatever the stderr task does at the same time.                         *)
TextIsShown ==
    todo["out"] = <<>> /\ ~moved => \A p \in st.expect : Places(p) # {}

(* A replace changes the entry it was made for: the indexes two tasks and  *)
(* several maps remember are never confused.                               *)
OwnEntry == ~moved => ~stray

(* A line never turns the entry of a call that names what the tool does    *)
(* into one of another action, nor into a generic one; and text that was   *)
(* shown is not taken back, except by Amp's replay.                        *)
EntriesOnlyGain ==
    [][~moved' /\ agent # "amp" =>
         \A i \in DOMAIN doc :
           \E j \in DOMAIN doc' :
             /\ doc'[j].task = doc[i].task /\ doc'[j].who = doc[i].who
             /\ doc[i].val.act \notin Generic => doc'[j].val.act = doc[i].val.act
             /\ Range(doc[i].val.text) \subseteq Range(doc'[j].val.text)]_vars

(* The outcome an entry shows for a call is the outcome of that call, and  *)
(* the outcome of every call that the agent shows results for is shown.    *)
(* Entries of OpenCode show a success from the start.                      *)
OutcomeIsShown ==
    ~moved =>
      /\ \A i \in DOMAIN doc :
           agent # "opencode" /\ doc[i].val.status \in {"success", "failed"}
             => doc[i].val.status = st.outcome[doc[i].val.call]
      /\ todo["out"] = <<>> =>
           \A c \in Call :
             \/ st.outcome[c] = NoCall
             \/ agent \in {"claude", "amp"} /\ (st.kind[c] = "none" \/ st.tools[c] = 0)
             \/ \E i \in DOMAIN doc : doc[i].val.call = c /\ doc[i].val.status = st.outcome[c]
=============================================================================
