------------------------------- MODULE Drafts -------------------------------
(***************************************************************************)
(* The drafts of a task attempt: the follow-up draft that is edited,       *)
(* queued and sent by whoever takes its sending flag (DraftsService when   *)
(* it is queued, the exit monitor when a process ends), and the retry      *)
(* draft.  Requests and the monitor are actors that interleave between the *)
(* statements of their handlers; each statement is atomic.                 *)
(*                                                                         *)
(* A prompt is blank or a member of Text; variant and images travel with   *)
(* it.                                                                     *)
(***************************************************************************)
EXTENDS Naturals, FiniteSets

CONSTANTS Text,          \* prompts
          Tab,           \* browser tabs, each with one request at a time
          MaxVersion,    \* bound: writes to the follow-up draft
          MaxDraftCrash  \* bound: crashes of the server

VARIABLES
  draft,     \* the follow-up row
  retry,     \* the retry row
  actor,     \* tab or monitor -> its handler: where it is and what it read
  running,   \* a process of the attempt is running
  ticket,    \* ghost: how often the draft was queued
  sends,     \* ghost: the queueings for which a process was started
  sentTwice, \* ghost: some queueing was sent again
  leaked,    \* ghost: a sender stopped while it held the flag
  draftCrashes

drVars == <<draft, retry, actor, running, ticket, sends, sentTwice, leaked, draftCrashes>>

Blank == "blank"
NoDraft == [there |-> FALSE, prompt |-> Blank, queued |-> FALSE, sending |-> FALSE,
            version |-> 0]
EmptyDraft == [NoDraft EXCEPT !.there = TRUE]
ExitMonitor == "monitor"
Actor == Tab \cup {ExitMonitor}
NoHandler == [at |-> "idle", draft |-> NoDraft, prompt |-> Blank, version |-> 0]

DrInit ==
  /\ draft = NoDraft /\ retry = NoDraft
  /\ actor = [a \in Actor |-> NoHandler]
  /\ running = FALSE
  /\ ticket = 0 /\ sends = {} /\ sentTwice = FALSE /\ leaked = FALSE
  /\ draftCrashes = 0

Waits(a, at) == actor[a].at = at
Moves(a, at) == actor' = [actor EXCEPT ![a].at = at]
DraftEnds(a) == actor' = [actor EXCEPT ![a] = NoHandler]
Bump(d) == [d EXCEPT !.version = @ + 1]

-----------------------------------------------------------------------------
(* The statements of the drafts table.                                     *)

upsert(d, text) ==
  IF ~d.there THEN [EmptyDraft EXCEPT !.prompt = text]
  ELSE Bump([d EXCEPT !.prompt = text, !.queued = FALSE])

update_partial(d, text) == IF d.there THEN Bump([d EXCEPT !.prompt = text]) ELSE d

(* Mutant: the flag of the sender is left set. *)
ClearKeepsSending(d) ==
  IF d.there THEN Bump([d EXCEPT !.prompt = Blank, !.queued = FALSE]) ELSE d

clear_after_send(d) ==
  IF d.there THEN Bump([d EXCEPT !.prompt = Blank, !.queued = FALSE, !.sending = FALSE])
  ELSE d

(* Mutant: a draft that is being sent can be taken again. *)
MarkAgain(d) == d.there /\ d.queued /\ d.prompt # Blank

(* The condition under which the UPDATE finds the row.                     *)
try_mark_sending(d) == d.there /\ d.queued /\ ~d.sending /\ d.prompt # Blank

MarkSending == draft' = Bump([draft EXCEPT !.sending = TRUE])

set_queued(d, queued) == Bump([d EXCEPT !.queued = queued /\ d.prompt # Blank])

-----------------------------------------------------------------------------
(* PUT /draft?type=follow_up.                                              *)

(* ensure_follow_up_draft_row reads, and writes an empty row if there is   *)
(* none.                                                                   *)
ensure_follow_up_draft_row(a) ==
  /\ Waits(a, "idle") /\ draft.version < MaxVersion
  /\ \E text \in Text, v \in {draft.version, draft.version + 1} :
       actor' = [actor EXCEPT ![a] =
         [NoHandler EXCEPT !.at = IF draft.there THEN "check" ELSE "insert",
                      !.draft = draft, !.prompt = text, !.version = v]]
  /\ UNCHANGED <<draft, retry, running, ticket, sends, sentTwice, leaked, draftCrashes>>

InsertDraft(a) ==
  /\ Waits(a, "insert")
  /\ draft' = upsert(draft, Blank)
  /\ actor' = [actor EXCEPT ![a].at = "check", ![a].draft = upsert(draft, Blank)]
  /\ UNCHANGED <<retry, running, ticket, sends, sentTwice, leaked, draftCrashes>>

(* Refused when the row was queued, or its version is not the client's     *)
(* (a client may give none); then the UPDATE.                              *)
save_follow_up_draft(a) ==
  /\ Waits(a, "check")
  /\ LET d == actor[a].draft
     IN \/ d.queued /\ DraftEnds(a)
        \/ ~d.queued /\ d.version # actor[a].version /\ DraftEnds(a)
        \/ ~d.queued /\ Moves(a, "save")
  /\ UNCHANGED <<draft, retry, running, ticket, sends, sentTwice, leaked, draftCrashes>>

SaveDraft(a) ==
  /\ Waits(a, "save")
  /\ draft' = update_partial(draft, actor[a].prompt)
  /\ DraftEnds(a)
  /\ UNCHANGED <<retry, running, ticket, sends, sentTwice, leaked, draftCrashes>>

-----------------------------------------------------------------------------
(* POST /draft/queue: set_queued with the flag and the version the client  *)
(* expects; a draft that is queued and meets no running process is sent.   *)

set_follow_up_queue(a, queued) ==
  /\ Waits(a, "idle") /\ draft.there /\ draft.version < MaxVersion
  /\ draft' = set_queued(draft, queued)
  /\ ticket' = IF draft'.queued /\ ~draft.queued THEN ticket + 1 ELSE ticket
  /\ Moves(a, "queued")
  /\ UNCHANGED <<retry, running, sends, sentTwice, leaked, draftCrashes>>

(* No row, or not what the client expects.                                 *)
QueueRefused(a) ==
  /\ Waits(a, "idle") /\ UNCHANGED drVars

ReadQueued(a) ==
  /\ Waits(a, "queued")
  /\ IF draft.queued THEN actor' = [actor EXCEPT ![a].at = "free?", ![a].draft = draft]
     ELSE DraftEnds(a)
  /\ UNCHANGED <<draft, retry, running, ticket, sends, sentTwice, leaked, draftCrashes>>

has_running_processes_for_attempt(a) ==
  /\ Waits(a, "free?")
  /\ IF running THEN DraftEnds(a) ELSE Moves(a, "mark")
  /\ UNCHANGED <<draft, retry, running, ticket, sends, sentTwice, leaked, draftCrashes>>

-----------------------------------------------------------------------------
(* The exit monitor: nothing is running, the draft is read, then taken.    *)

AgentEnds ==
  /\ running /\ Waits(ExitMonitor, "idle")
  /\ running' = FALSE /\ Moves(ExitMonitor, "look")
  /\ UNCHANGED <<draft, retry, ticket, sends, sentTwice, leaked, draftCrashes>>

try_consume_queued_followup ==
  /\ Waits(ExitMonitor, "look")
  /\ IF running THEN DraftEnds(ExitMonitor) ELSE Moves(ExitMonitor, "load")
  /\ UNCHANGED <<draft, retry, running, ticket, sends, sentTwice, leaked, draftCrashes>>

LoadDraft ==
  /\ Waits(ExitMonitor, "load")
  /\ IF draft.there /\ draft.queued /\ draft.prompt # Blank
     THEN actor' = [actor EXCEPT ![ExitMonitor].at = "mark", ![ExitMonitor].draft = draft]
     ELSE DraftEnds(ExitMonitor)
  /\ UNCHANGED <<draft, retry, running, ticket, sends, sentTwice, leaked, draftCrashes>>

-----------------------------------------------------------------------------
(* Both senders: the flag, the process with the prompt read before, the    *)
(* row emptied.                                                            *)

Mark(a) ==
  /\ Waits(a, "mark")
  /\ IF try_mark_sending(draft)
     THEN /\ MarkSending
          /\ actor' = [actor EXCEPT ![a].at = "send", ![a].version = ticket]
     ELSE DraftEnds(a) /\ UNCHANGED draft
  /\ UNCHANGED <<retry, running, ticket, sends, sentTwice, leaked, draftCrashes>>

start_follow_up_from_draft(a) ==
  /\ Waits(a, "send")
  /\ running' = TRUE
  /\ sends' = sends \cup {actor[a].version}
  /\ sentTwice' = (sentTwice \/ actor[a].version \in sends)
  /\ Moves(a, "clear")
  /\ UNCHANGED <<draft, retry, ticket, leaked, draftCrashes>>

(* No worktree, no session, no earlier agent, an error of start_execution: *)
(* the error is dropped and the flag stays.                                *)
StartFails(a) ==
  /\ Waits(a, "send")
  /\ leaked' = TRUE /\ DraftEnds(a)
  /\ UNCHANGED <<draft, retry, running, ticket, sends, sentTwice, draftCrashes>>

ClearSent(a) ==
  /\ Waits(a, "clear")
  /\ draft' = clear_after_send(draft)
  /\ DraftEnds(a)
  /\ UNCHANGED <<retry, running, ticket, sends, sentTwice, leaked, draftCrashes>>

(* POST /follow-up starts a process and empties the draft.                 *)
follow_up_clears(a) ==
  /\ Waits(a, "idle") /\ ~running /\ draft.version < MaxVersion
  /\ running' = TRUE /\ Moves(a, "clear")
  /\ UNCHANGED <<draft, retry, ticket, sends, sentTwice, leaked, draftCrashes>>

-----------------------------------------------------------------------------
(* The retry draft: written as a whole the first time, then in part;       *)
(* deleted by the user or when the retry is sent.                          *)

save_retry_follow_up_draft(a) ==
  /\ Waits(a, "idle")
  /\ \E text \in Text : retry' = IF retry.there THEN [retry EXCEPT !.prompt = text]
                                 ELSE [EmptyDraft EXCEPT !.prompt = text]
  /\ UNCHANGED <<draft, actor, running, ticket, sends, sentTwice, leaked, draftCrashes>>

delete_retry_follow_up_draft(a) ==
  /\ Waits(a, "idle") /\ retry' = NoDraft
  /\ UNCHANGED <<draft, actor, running, ticket, sends, sentTwice, leaked, draftCrashes>>

(* A crash ends every handler; the orphaned process is marked failed at    *)
(* the start (ExecutionLifecycle), the row of the draft stays.             *)
DraftCrash ==
  /\ draftCrashes < MaxDraftCrash /\ draftCrashes' = draftCrashes + 1
  /\ leaked' = (leaked \/ \E a \in Actor : actor[a].at \in {"send", "clear"})
  /\ actor' = [a \in Actor |-> NoHandler] /\ running' = FALSE
  /\ UNCHANGED <<draft, retry, ticket, sends, sentTwice>>

DrNext ==
  \/ \E a \in Tab : \/ ensure_follow_up_draft_row(a) \/ InsertDraft(a)
                    \/ save_follow_up_draft(a) \/ SaveDraft(a)
                    \/ \E queued \in BOOLEAN : set_follow_up_queue(a, queued)
                    \/ QueueRefused(a) \/ ReadQueued(a)
                    \/ has_running_processes_for_attempt(a) \/ follow_up_clears(a)
                    \/ save_retry_follow_up_draft(a) \/ delete_retry_follow_up_draft(a)
  \/ AgentEnds \/ try_consume_queued_followup \/ LoadDraft
  \/ \E a \in Actor : \/ Mark(a) \/ start_follow_up_from_draft(a) \/ StartFails(a)
                      \/ ClearSent(a)
  \/ DraftCrash

DrSpec == DrInit /\ [][DrNext]_drVars

-----------------------------------------------------------------------------
(* A prompt that is queued once is sent once: the handler that queued it,  *)
(* the exit monitor of the process that just ended and another tab may all *)
(* have read the same queued row; only one of them starts a process for    *)
(* it (try_mark_sending).                                                  *)
QueuedSentOnce == ~sentTwice

(* The sending flag is set only while a sender is at work, or after one    *)
(* stopped between taking the flag and emptying the row (an early return   *)
(* of try_consume_queued_followup, a dropped error, a crash): nothing      *)
(* else can leave a draft that no one will ever send.                      *)
FlagIsHeld ==
  draft.sending => leaked \/ \E a \in Actor : actor[a].at \in {"send", "clear"}
=============================================================================
