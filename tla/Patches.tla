------------------------------ MODULE Patches ------------------------------
(***************************************************************************)
(* The vocabulary the log normalisers share: normalised entries, the       *)
(* patches they push (crates/executors/src/logs/utils/patch.rs), the       *)
(* shared EntryIndexProvider, and the PlainTextLogProcessor.               *)
(*                                                                         *)
(* A normaliser handles one line of output and pushes patches.  It is      *)
(* modelled as an operator from its state and a line to its next state and *)
(* the list of steps it still has to do on the shared MsgStore: "take" an  *)
(* index, then push an "add", a "replace" or a "remove" with it.  An entry *)
(* the code remembers by its index is remembered here by a number that is  *)
(* given out once, its handle; the index is what "take" found.             *)
(*                                                                         *)
(* A piece of text is a number, a text the sequence of its pieces.         *)
(***************************************************************************)
EXTENDS Naturals, Sequences, FiniteSets, SequencesExt

CONSTANT Call   \* tool calls

(* No tool call: the entry is not about one, or carries no tool_call_id. *)
NoCall == "none"

(* NormalizedEntry: a text, a message that is not looked at again, or the  *)
(* use of a tool, with its ActionType and ToolStatus.                      *)
Text(t) == [call |-> NoCall, text |-> t, act |-> "none", status |-> "text"]
Note == [call |-> NoCall, text |-> <<>>, act |-> "none", status |-> "note"]
Tool(c, a, s) == [call |-> c, text |-> <<>>, act |-> a, status |-> s]

(* Action types that say no more than that some tool was used. *)
Generic == {"Tool", "Other"}

(* Steps on the store. *)
Take(h) == [op |-> "take", who |-> h, val |-> Note]
AddNormalized(h, v) == [op |-> "add", who |-> h, val |-> v]
ReplaceEntry(h, v) == [op |-> "replace", who |-> h, val |-> v]
RemoveEntry(h) == [op |-> "remove", who |-> h, val |-> Note]
Reset == [op |-> "reset", who |-> 0, val |-> Note]
Wipe == [op |-> "wipe", who |-> 0, val |-> Note]

(* The usual way to show something new: take an index and push at once. *)
AddNew(h, v) == <<Take(h), AddNormalized(h, v)>>

(* Patches collected in a list and pushed when the handler returns: all    *)
(* indexes are taken first, after a reset of the provider if there is one. *)
(* The entries added got the handles n + 1 to m.                           *)
Batch(n, m, ps) ==
    (IF ps # <<>> /\ Head(ps).op = "wipe" THEN <<Reset>> ELSE <<>>)
        \o [i \in 1..(m - n) |-> Take(n + i)] \o ps

(* What a handler leaves behind. *)
Done(s, ops) == [st |-> s, ops |-> ops]

-----------------------------------------------------------------------------
(* The document a reader builds from the patches: entries by index.  As in *)
(* a JSON array, adding at an occupied index moves the later entries up    *)
(* and removing moves them down.  This reader keeps an entry that arrives  *)
(* before its predecessors; a strict one would refuse it (InOrder).        *)
EmptyDoc == [i \in {} |-> Note]

DocAdd(d, i, e) ==
    IF i \in DOMAIN d
    THEN [j \in {k \in DOMAIN d : k < i} \cup {i} \cup {k + 1 : k \in {k \in DOMAIN d : k >= i}} |->
            IF j < i THEN d[j] ELSE IF j = i THEN e ELSE d[j - 1]]
    ELSE [j \in DOMAIN d \cup {i} |-> IF j = i THEN e ELSE d[j]]

DocReplace(d, i, e) == IF i \in DOMAIN d THEN [d EXCEPT ![i] = e] ELSE d

DocRemove(d, i) ==
    [j \in {k \in DOMAIN d : k < i} \cup {k - 1 : k \in {k \in DOMAIN d : k > i}} |->
        IF j < i THEN d[j] ELSE d[j + 1]]

-----------------------------------------------------------------------------
(* PlainTextLogProcessor: `buf` are the buffered lines (one piece each),   *)
(* `cur` the handle of current_entry_index, 0 for None, `n` the last       *)
(* handle given out, `ops` what is pushed.                                 *)
PlainTextLogProcessor == [buf |-> <<>>, cur |-> 0, n |-> 0, ops |-> <<>>]

create_patch(p, t) ==
    IF p.cur = 0
    THEN [p EXCEPT !.n = @ + 1, !.cur = p.n + 1,
                   !.ops = @ \o <<AddNormalized(p.n + 1, Text(t))>>]
    ELSE [p EXCEPT !.ops = @ \o <<ReplaceEntry(p.cur, Text(t))>>]

(* Mutant: after a split the next lines go to the entry split off. *)
SplitKeepsEntry(p, limit) ==
    IF limit > 0 /\ Len(p.buf) >= limit
    THEN [create_patch(p, p.buf) EXCEPT !.buf = <<>>]
    ELSE p

(* The size threshold: as long as the buffer holds `limit` lines, they     *)
(* become an entry of their own.  One line is added at a time, so the loop *)
(* runs at most once.                                                      *)
SplitBySize(p, limit) ==
    IF limit > 0 /\ Len(p.buf) >= limit
    THEN [create_patch(p, p.buf) EXCEPT !.buf = <<>>, !.cur = 0]
    ELSE p

PartialUpdate(p) == IF p.buf = <<>> THEN p ELSE create_patch(p, p.buf)

(* `gap`: the line came more than time_gap after the one before.  The      *)
(* buffer is then pushed and process returns: without the line, and with   *)
(* current_entry_index as it was.                                          *)
process(p0, line, gap, limit) ==
    LET p == [p0 EXCEPT !.ops = <<>>]
    IN  IF p.buf # <<>> /\ gap
        THEN [create_patch(p, p.buf) EXCEPT !.buf = <<>>]
        ELSE PartialUpdate(SplitBySize([p EXCEPT !.buf = Append(@, line)], limit))
=============================================================================
