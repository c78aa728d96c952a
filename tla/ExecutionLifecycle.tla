------------------------ MODULE ExecutionLifecycle ------------------------
(***************************************************************************)
(* The life of the execution processes of one task attempt: rows of the    *)
(* table execution_processes, child processes of the server, the exit      *)
(* monitor that is spawned for each child, the HTTP handlers that start    *)
(* and stop executions, and what a crash and a restart of the server leave *)
(* of them.                                                                *)
(*                                                                         *)
(* Every database statement is a step of its own, because the code awaits  *)
(* it and the tokio scheduler may run any other handler or monitor there.  *)
(* Database calls succeed.  A child is spawned and entered in the two maps *)
(* in one step, and taken out of both in one step: each map has a lock of  *)
(* its own, held for the insertion or the removal only.                    *)
(***************************************************************************)
EXTENDS Integers, Sequences, FiniteSets

CONSTANTS
    Req,        \* HTTP handlers that may be in flight at the same time
    MaxProc,    \* bound: rows that are ever created
    MaxReq,     \* bound: requests that clients ever send
    MaxCrash,   \* bound: crashes of the server
    MaxCut      \* bound: handlers dropped because the client disconnected

ASSUME LifecycleAssumption ==
    /\ MaxProc \in Nat \ {0}
    /\ MaxReq \in Nat /\ MaxCrash \in Nat /\ MaxCut \in Nat
    /\ Req \cap 0 .. MaxProc = {}

(* Process ids are given out in the order of created_at. *)
Proc == 1 .. MaxProc

(* start_execution is called by handlers and by the exit monitors, which are
   named after the process they watch. *)
Caller == Req \cup Proc

RowStatus   == {"Running", "Completed", "Failed", "Killed"}
RowState    == RowStatus \cup {"Absent"}
RunReason   == {"SetupScript", "CleanupScript", "CodingAgent", "DevServer"}
ActionType  == {"Script", "Agent"}
TaskStatus  == {"Todo", "InProgress", "InReview"}

(* ExecutorAction with its next_action chain, outermost action first. *)
Chain == Seq(ActionType)

AgentChains   == {<<"Agent">>, <<"Agent", "Script">>}
AttemptChains == AgentChains \cup {<<"Script">> \o c : c \in AgentChains}

VARIABLES
    \* the database
    row,        \* status of each row, "Absent" before it is created
    reason,     \* run_reason of each row
    chain,      \* executor_action of each row
    dropped,    \* the rows that a retry has soft-dropped
    rows,       \* how many rows were created
    task,       \* status of the task
    draft,      \* queued and sending of the follow-up draft
    \* the operating system
    os,         \* state of the child process of each row
    \* the memory of the server
    child,      \* keys of child_store
    store,      \* keys of msg_stores
    finished,   \* how often Finished was pushed to the MsgStore of a process
    mpc, mon,   \* exit monitor of each process: where it is, its locals
    call,       \* the start_execution that a handler or a monitor awaits
    rpc, req,   \* each handler: where it is, its locals
    server, scan, scanned,   \* phase of the server; locals of its start-up scan
    \* history and bounds
    struck,     \* processes that stop_execution killed while they were alive
    cut,        \* processes whose start was dropped with its handler
    budget      \* what is left of MaxProc, MaxReq, MaxCrash, MaxCut

dbVars   == <<row, reason, chain, dropped, rows, task, draft>>
memVars  == <<child, store, finished>>
monVars  == <<mpc, mon>>
reqVars  == <<rpc, req>>
bootVars == <<server, scan, scanned>>
vars == <<dbVars, os, memVars, monVars, call, reqVars, bootVars,
          struck, cut, budget>>

MonPc  == {"none", "poll", "check", "write", "load", "commit",
           "next", "final", "consume", "claim", "sent", "cleanup", "done"}
CallPc == {"idle", "row", "spawn", "fail", "ok", "err"}
ReqPc  == {"idle", "stop", "update", "kill", "release", "review",
           "await", "running", "claim", "sent"}
Exited == {"exit0", "exitN"}

OsState == Exited \cup {"none", "alive", "orphan"}
DraftState == [queued : BOOLEAN, sending : BOOLEAN]
Budget == [proc : Int, req : Int, crash : Int, cut : Int]

(* The outcome that the monitor observed and the row status that it loaded. *)
MonLocals == [exit : {"ok", "bad", "lost"}, seen : RowState]

(* The start_execution that a caller awaits, with the row it has created. *)
StartCall == [pc : CallPc, chain : Chain, reason : RunReason, proc : Proc]

(* The processes a handler has still to stop and the one it is stopping; what
   it does then, from which row on it drops, the action that it starts, and
   whether it empties the draft afterwards. *)
ReqLocals == [todo : SUBSET Proc, cur : Proc,
              then : {"end", "drop", "replace", "dev"}, target : Proc,
              chain : Chain, clear : BOOLEAN]

TypeOK ==
    /\ row \in [Proc -> RowState]
    /\ reason \in [Proc -> RunReason]
    /\ chain \in [Proc -> Chain]
    /\ dropped \subseteq Proc
    /\ rows \in 0 .. MaxProc
    /\ task \in TaskStatus
    /\ draft \in DraftState
    /\ os \in [Proc -> OsState]
    /\ child \subseteq Proc
    /\ store \subseteq Proc
    /\ finished \in [Proc -> Nat]
    /\ mpc \in [Proc -> MonPc]
    /\ mon \in [Proc -> MonLocals]
    /\ call \in [Caller -> StartCall]
    /\ rpc \in [Req -> ReqPc]
    /\ req \in [Req -> ReqLocals]
    /\ server \in {"up", "down", "boot"}
    /\ scan \subseteq Proc
    /\ scanned \in 0 .. MaxProc
    /\ struck \subseteq Proc
    /\ cut \subseteq Proc
    /\ budget \in Budget

(* Locals that are not set yet have an arbitrary value. *)
NoCall == [pc |-> "idle", chain |-> <<>>, reason |-> "CodingAgent", proc |-> 1]
NoReq  == [todo |-> {}, cur |-> 1, then |-> "end", target |-> 1,
           chain |-> <<>>, clear |-> FALSE]
NoMon  == [exit |-> "lost", seen |-> "Absent"]
NoDraft == [queued |-> FALSE, sending |-> FALSE]

Init ==
    /\ row = [p \in Proc |-> "Absent"]
    /\ reason = [p \in Proc |-> "CodingAgent"]
    /\ chain = [p \in Proc |-> <<>>]
    /\ dropped = {}
    /\ rows = 0
    /\ task = "Todo"
    /\ draft = NoDraft
    /\ os = [p \in Proc |-> "none"]
    /\ child = {} /\ store = {}
    /\ finished = [p \in Proc |-> 0]
    /\ mpc = [p \in Proc |-> "none"]
    /\ mon = [p \in Proc |-> NoMon]
    /\ call = [c \in Caller |-> NoCall]
    /\ rpc = [r \in Req |-> "idle"]
    /\ req = [r \in Req |-> NoReq]
    /\ server = "up" /\ scan = {} /\ scanned = 0
    /\ struck = {} /\ cut = {}
    /\ budget = [proc |-> MaxProc, req |-> MaxReq,
                 crash |-> MaxCrash, cut |-> MaxCut]

----------------------------------------------------------------------------
(* What the checks of the code read. *)

Running == {p \in Proc : row[p] = "Running"}

(* find_by_task_attempt_id(.., false) leaves out the dropped rows. *)
Visible == Running \ dropped

(* latest_executor_profile_for_attempt finds the row of an agent. *)
AgentRan == \E p \in Proc \ dropped : row[p] # "Absent" /\ reason[p] = "CodingAgent"

HasNext(p) == Len(chain[p]) > 1

should_finalize(p) == ~HasNext(p) /\ reason[p] # "DevServer"

(* Mutants: was_stopped forgets Killed; it excludes only Failed. *)
StoppedIfCompleted(p) == row[p] = "Completed"
StoppedUnlessFailed(p) == row[p] # "Failed"

was_stopped(p) == row[p] \in {"Killed", "Completed"}

(* The run reason of the action that follows p's: try_start_next_action. *)
NextReason(p) ==
    IF Head(Tail(chain[p])) = "Agent" THEN "CodingAgent"
    ELSE IF Head(chain[p]) = "Script" THEN "SetupScript"
    ELSE "CleanupScript"

(* clear_after_send and try_mark_sending on the follow-up draft. *)
ClearDraft == draft' = NoDraft
CanClaim   == draft.queued /\ ~draft.sending

----------------------------------------------------------------------------
(* start_execution, run by caller c.                                       *)

(* Its first statement: the task moves to InProgress, except for a dev
   server.  The caller's own step makes it. *)
BeginCall(c, ch, rs) ==
    /\ call' = [call EXCEPT ![c] =
                   [NoCall EXCEPT !.pc = "row", !.chain = ch, !.reason = rs]]
    /\ task' = IF rs = "DevServer" THEN task ELSE "InProgress"

(* ExecutionProcess::create, with the executor session. *)
CreateRow(c) ==
    /\ call[c].pc = "row"
    /\ rows < MaxProc
    /\ LET p == rows + 1 IN
         /\ rows' = p
         /\ row' = [row EXCEPT ![p] = "Running"]
         /\ reason' = [reason EXCEPT ![p] = call[c].reason]
         /\ chain' = [chain EXCEPT ![p] = call[c].chain]
         /\ call' = [call EXCEPT ![c].pc = "spawn", ![c].proc = p]
    /\ UNCHANGED <<dropped, task, draft, os, memVars, monVars, reqVars,
                   bootVars, struck, cut, budget>>

(* start_execution_inner: spawn the child, then its MsgStore, its entry of
   child_store and its exit monitor. *)
SpawnChild(c) ==
    /\ call[c].pc = "spawn"
    /\ LET p == call[c].proc IN
         /\ os' = [os EXCEPT ![p] = "alive"]
         /\ store' = store \cup {p}
         /\ child' = child \cup {p}
         /\ mpc' = [mpc EXCEPT ![p] = "poll"]
    /\ call' = [call EXCEPT ![c].pc = "ok"]
    /\ UNCHANGED <<dbVars, finished, mon, reqVars, bootVars, struck, cut, budget>>

(* The executable is missing or does not start: the row is Failed ... *)
SpawnFails(c) ==
    /\ call[c].pc = "spawn"
    /\ row' = [row EXCEPT ![call[c].proc] = "Failed"]
    /\ call' = [call EXCEPT ![c].pc = "fail"]
    /\ UNCHANGED <<reason, chain, dropped, rows, task, draft, os, memVars,
                   monVars, reqVars, bootVars, struck, cut, budget>>

(* ... and the task InReview, whatever the run reason. *)
ReviewAfterStartError(c) ==
    /\ call[c].pc = "fail"
    /\ task' = "InReview"
    /\ call' = [call EXCEPT ![c].pc = "err"]
    /\ UNCHANGED <<row, reason, chain, dropped, rows, draft, os, memVars,
                   monVars, reqVars, bootVars, struck, cut, budget>>

start_execution(c) ==
    CreateRow(c) \/ SpawnChild(c) \/ SpawnFails(c) \/ ReviewAfterStartError(c)

Returned(c) == call[c].pc \in {"ok", "err"}
Return(c)   == [call EXCEPT ![c] = NoCall]

----------------------------------------------------------------------------
(* The exit monitor of process p (spawn_exit_monitor) with the watcher that *)
(* polls the child for it (spawn_os_exit_watcher).                          *)

StepMon(p, pc) == mpc' = [mpc EXCEPT ![p] = pc]

(* Mutant: the exit is not recorded, as if the row had been stopped. *)
ObserveUnrecorded(p, exit) ==
    /\ StepMon(p, "load")
    /\ mon' = [mon EXCEPT ![p].exit = exit]

Observe(p, exit) ==
    /\ StepMon(p, "check")
    /\ mon' = [mon EXCEPT ![p].exit = exit]

(* The watcher asks the handle, which it may have cloned out of child_store
   just before stop_execution removed it, and finds that the child has exited;
   while the child lives it polls on. *)
WatchExit(p) ==
    /\ mpc[p] = "poll" /\ os[p] \in Exited
    /\ Observe(p, IF os[p] = "exit0" THEN "ok" ELSE "bad")
    /\ UNCHANGED <<dbVars, os, memVars, call, reqVars, bootVars, struck, cut, budget>>

(* The handle is gone from the map: stop_execution has removed it. *)
WatchMissing(p) ==
    /\ mpc[p] = "poll" /\ p \notin child
    /\ Observe(p, "lost")
    /\ UNCHANGED <<dbVars, os, memVars, call, reqVars, bootVars, struck, cut, budget>>

(* Mutant: the exit signal ends the monitor without killing the group. *)
ExitSignalNoKill(p) ==
    /\ mpc[p] = "poll"
    /\ Head(chain[p]) = "Agent"
    /\ Observe(p, "ok")
    /\ UNCHANGED <<dbVars, os, memVars, call, reqVars, bootVars, struck, cut, budget>>

(* The executor of a coding agent signals that it is done (or its end of the
   channel is dropped): kill the group, and record success. *)
ExitSignal(p) ==
    /\ mpc[p] = "poll"
    /\ Head(chain[p]) = "Agent"
    /\ Observe(p, "ok")
    /\ os' = IF p \in child /\ os[p] = "alive"
                THEN [os EXCEPT ![p] = "exitN"] ELSE os
    /\ UNCHANGED <<dbVars, memVars, call, reqVars, bootVars, struck, cut, budget>>

(* was_stopped is one query ... *)
CheckStopped(p) ==
    /\ mpc[p] = "check"
    /\ StepMon(p, IF was_stopped(p) THEN "load" ELSE "write")
    /\ UNCHANGED <<dbVars, os, memVars, mon, call, reqVars, bootVars, struck, cut, budget>>

(* ... and update_completion another one, which tests nothing. *)
WriteCompletion(p) ==
    /\ mpc[p] = "write"
    /\ StepMon(p, "load")
    /\ row' = [row EXCEPT ![p] = IF mon[p].exit = "ok" THEN "Completed" ELSE "Failed"]
    /\ UNCHANGED <<reason, chain, dropped, rows, task, draft, os, memVars, mon,
                   call, reqVars, bootVars, struck, cut, budget>>

(* Mutant: only the exit code counts, not the status of the row. *)
ExitedOk(p) == mon[p].exit = "ok"

Succeeded(p)   == mon'[p].seen = "Completed" /\ mon[p].exit = "ok"
CleanupDone(p) == reason[p] = "CleanupScript" /\ mon'[p].seen # "Running"

(* load_context: the row as it is now decides what follows. *)
LoadContext(p) ==
    /\ mpc[p] = "load"
    /\ mon' = [mon EXCEPT ![p].seen = row[p]]
    /\ StepMon(p, IF Succeeded(p) \/ CleanupDone(p) THEN "commit" ELSE "final")
    /\ UNCHANGED <<dbVars, os, memVars, call, reqVars, bootVars, struck, cut, budget>>

(* Commit the changes, then start the next action; after an agent that changed
   nothing finalize instead. *)
CommitAndContinue(p) ==
    /\ mpc[p] = "commit"
    /\ \E changed \in BOOLEAN :
         IF reason[p] = "CodingAgent" /\ ~changed
         THEN task' = "InReview" /\ StepMon(p, "final") /\ UNCHANGED call
         ELSE IF HasNext(p)
         THEN BeginCall(p, Tail(chain[p]), NextReason(p)) /\ StepMon(p, "next")
         ELSE StepMon(p, "final") /\ UNCHANGED <<task, call>>
    /\ UNCHANGED <<row, reason, chain, dropped, rows, draft, os, memVars, mon,
                   reqVars, bootVars, struck, cut, budget>>

NextStarted(p) ==
    /\ mpc[p] = "next" /\ Returned(p)
    /\ call' = Return(p)
    /\ StepMon(p, "final")
    /\ UNCHANGED <<dbVars, os, memVars, mon, reqVars, bootVars, struck, cut, budget>>

Finalize(p) ==
    /\ mpc[p] = "final"
    /\ IF should_finalize(p)
         THEN task' = "InReview" /\ StepMon(p, "consume")
         ELSE StepMon(p, "cleanup") /\ UNCHANGED task
    /\ UNCHANGED <<row, reason, chain, dropped, rows, draft, os, memVars, mon,
                   call, reqVars, bootVars, struck, cut, budget>>

(* try_consume_queued_followup: bail out if anything is running, a dev server
   included ... *)
CheckNothingRuns(p) ==
    /\ mpc[p] = "consume"
    /\ StepMon(p, IF Visible = {} THEN "claim" ELSE "cleanup")
    /\ UNCHANGED <<dbVars, os, memVars, mon, call, reqVars, bootVars, struck, cut, budget>>

(* ... else take the sending lock and start the follow-up.  Without a session,
   or without a container, it returns with the lock held. *)
ClaimFollowUp(p) ==
    /\ mpc[p] = "claim"
    /\ IF ~CanClaim
         THEN StepMon(p, "cleanup") /\ UNCHANGED <<draft, call, task>>
         ELSE /\ draft' = [draft EXCEPT !.sending = TRUE]
              /\ \/ StepMon(p, "cleanup") /\ UNCHANGED <<call, task>>
                 \/ /\ AgentRan
                    /\ StepMon(p, "sent")
                    /\ \E ch \in AgentChains : BeginCall(p, ch, "CodingAgent")
    /\ UNCHANGED <<row, reason, chain, dropped, rows, os, memVars, mon,
                   reqVars, bootVars, struck, cut, budget>>

FollowUpSent(p) ==
    /\ mpc[p] = "sent" /\ Returned(p)
    /\ IF call[p].pc = "ok" THEN ClearDraft ELSE UNCHANGED draft
    /\ call' = Return(p)
    /\ StepMon(p, "cleanup")
    /\ UNCHANGED <<row, reason, chain, dropped, rows, task, os, memVars, mon,
                   reqVars, bootVars, struck, cut, budget>>

(* Mutants: Finished is pushed to a store that stays in the map; the handle
   stays in child_store. *)
ReleaseKeepsStore(p) ==
    /\ UNCHANGED store
    /\ finished' = IF p \in store THEN [finished EXCEPT ![p] = @ + 1] ELSE finished
    /\ child' = child \ {p}

ReleaseKeepsHandle(p) ==
    /\ store' = store \ {p}
    /\ finished' = IF p \in store THEN [finished EXCEPT ![p] = @ + 1] ELSE finished
    /\ UNCHANGED child

(* Take the MsgStore out of its map and push Finished to it; take the handle
   out of child_store. *)
Release(p) ==
    /\ store' = store \ {p}
    /\ finished' = IF p \in store THEN [finished EXCEPT ![p] = @ + 1] ELSE finished
    /\ child' = child \ {p}

Cleanup(p) ==
    /\ mpc[p] = "cleanup"
    /\ Release(p)
    /\ StepMon(p, "done")
    /\ mon' = [mon EXCEPT ![p] = NoMon]
    /\ UNCHANGED <<dbVars, os, call, reqVars, bootVars, struck, cut, budget>>

spawn_exit_monitor(p) ==
    \/ WatchExit(p) \/ WatchMissing(p)
    \/ CheckStopped(p) \/ WriteCompletion(p) \/ LoadContext(p)
    \/ CommitAndContinue(p) \/ NextStarted(p) \/ Finalize(p)
    \/ CheckNothingRuns(p) \/ ClaimFollowUp(p) \/ FollowUpSent(p)
    \/ Cleanup(p)

----------------------------------------------------------------------------
(* The handlers of the server: requests of clients.                        *)

StepReq(r, pc) == rpc' = [rpc EXCEPT ![r] = pc]

(* A handler begins; slots is what it may add to the table. *)
Accept(r, slots) ==
    /\ server = "up" /\ rpc[r] = "idle"
    /\ budget.req > 0 /\ budget.proc >= slots
    /\ budget' = [budget EXCEPT !.req = @ - 1, !.proc = @ - slots]

(* create_task_attempt and start_attempt: setup script, agent, cleanup script. *)
StartAttempt(r) ==
    /\ task = "Todo"
    /\ \E ch \in AttemptChains :
         /\ Accept(r, Len(ch))
         /\ BeginCall(r, ch, IF Head(ch) = "Script" THEN "SetupScript" ELSE "CodingAgent")
    /\ StepReq(r, "await")
    /\ req' = [req EXCEPT ![r] = NoReq]
    /\ UNCHANGED <<row, reason, chain, dropped, rows, draft, os, memVars,
                   monVars, bootVars, struck, cut>>

(* follow_up without retry_process_id: no check that nothing runs. *)
FollowUp(r) ==
    /\ AgentRan
    /\ \E ch \in AgentChains : Accept(r, Len(ch)) /\ BeginCall(r, ch, "CodingAgent")
    /\ StepReq(r, "await")
    /\ req' = [req EXCEPT ![r] = [NoReq EXCEPT !.clear = TRUE]]
    /\ UNCHANGED <<row, reason, chain, dropped, rows, draft, os, memVars,
                   monVars, bootVars, struck, cut>>

(* stop_execution_process, on any row that exists. *)
StopProcess(r) ==
    /\ Accept(r, 0)
    /\ \E p \in Proc :
         /\ row[p] # "Absent"
         /\ req' = [req EXCEPT ![r] = [NoReq EXCEPT !.todo = {p}]]
    /\ StepReq(r, "stop")
    /\ UNCHANGED <<dbVars, os, memVars, monVars, call, bootVars, struck, cut>>

(* stop_task_attempt_execution: try_stop on the visible running rows. *)
StopAttempt(r) ==
    /\ Accept(r, 0)
    /\ rows > 0
    /\ req' = [req EXCEPT ![r] = [NoReq EXCEPT !.todo = Visible]]
    /\ StepReq(r, "stop")
    /\ UNCHANGED <<dbVars, os, memVars, monVars, call, bootVars, struck, cut>>

(* follow_up with retry_process_id, and replace_process, whose action has no
   cleanup script: stop what runs, drop the target and all later rows, start
   over. *)
RestartFrom(r, p, then, ch) ==
    /\ Accept(r, Len(ch))
    /\ row[p] # "Absent"
    /\ req' = [req EXCEPT ![r] = [NoReq EXCEPT !.todo = Visible, !.then = then,
                                              !.target = p, !.chain = ch]]
    /\ StepReq(r, "stop")
    /\ UNCHANGED <<dbVars, os, memVars, monVars, call, bootVars, struck, cut>>

Retry(r) ==
    /\ AgentRan
    /\ \E ch \in AgentChains, p \in Proc : RestartFrom(r, p, "drop", ch)

Replace(r) == \E p \in Proc : RestartFrom(r, p, "replace", <<"Agent">>)

(* start_dev_server: stop the dev servers of the project, start a new one. *)
StartDevServer(r) ==
    /\ Accept(r, 1)
    /\ rows > 0
    /\ req' = [req EXCEPT ![r] =
                  [NoReq EXCEPT !.todo = {p \in Running : reason[p] = "DevServer"},
                                !.then = "dev"]]
    /\ StepReq(r, "stop")
    /\ UNCHANGED <<dbVars, os, memVars, monVars, call, bootVars, struck, cut>>

(* set_follow_up_queue(true) on a draft with a text, then the check whether it
   can be sent at once; room for the process it may start is set aside here. *)
QueueFollowUp(r) ==
    /\ Accept(r, 2)
    /\ rows > 0 /\ ~draft.queued
    /\ draft' = [draft EXCEPT !.queued = TRUE]
    /\ StepReq(r, "running")
    /\ req' = [req EXCEPT ![r] = NoReq]
    /\ UNCHANGED <<row, reason, chain, dropped, rows, task, os, memVars,
                   monVars, call, bootVars, struck, cut>>

(* set_follow_up_queue(false), at most once for each request that queues. *)
UnqueueFollowUp(r) ==
    /\ server = "up" /\ rpc[r] = "idle"
    /\ draft.queued
    /\ draft' = [draft EXCEPT !.queued = FALSE]
    /\ UNCHANGED <<row, reason, chain, dropped, rows, task, os, memVars,
                   monVars, call, reqVars, bootVars, struck, cut, budget>>

Request(r) ==
    \/ StartAttempt(r) \/ FollowUp(r) \/ Retry(r) \/ Replace(r) \/ StartDevServer(r)
    \/ StopProcess(r) \/ StopAttempt(r)
    \/ QueueFollowUp(r) \/ UnqueueFollowUp(r)

(* Respond: the handler is done. *)
Respond(r) == StepReq(r, "idle") /\ req' = [req EXCEPT ![r] = NoReq]

----------------------------------------------------------------------------
(* stop_execution(p, Killed), run by handler r over the rows of its list in *)
(* the order of created_at.                                                 *)

(* Mutant: a process that is not in child_store is tried again. *)
StopLookupRetries(r) ==
    /\ rpc[r] = "stop"
    /\ \E p \in req[r].todo :
         IF p \in child
         THEN /\ req' = [req EXCEPT ![r].todo = @ \ {p}, ![r].cur = p]
              /\ StepReq(r, "update")
         ELSE UNCHANGED reqVars
    /\ UNCHANGED <<dbVars, os, memVars, monVars, call, bootVars, struck, cut, budget>>

(* get_child_from_store: an error if it is not there; the loops that stop
   several processes log it and go on. *)
StopLookup(r) ==
    /\ rpc[r] = "stop"
    /\ \E p \in req[r].todo :
         /\ \A q \in req[r].todo : p <= q
         /\ req' = [req EXCEPT ![r].todo = @ \ {p}, ![r].cur = p]
         /\ StepReq(r, IF p \in child THEN "update" ELSE "stop")
    /\ UNCHANGED <<dbVars, os, memVars, monVars, call, bootVars, struck, cut, budget>>

StopUpdate(r) ==
    /\ rpc[r] = "update"
    /\ row' = [row EXCEPT ![req[r].cur] = "Killed"]
    /\ StepReq(r, "kill")
    /\ UNCHANGED <<reason, chain, dropped, rows, task, draft, os, memVars,
                   monVars, call, req, bootVars, struck, cut, budget>>

(* kill_process_group, under the lock of the child.  It fails only if the
   watcher has reaped the child already; then stop_execution returns. *)
StopKill(r) ==
    /\ rpc[r] = "kill"
    /\ LET p == req[r].cur IN
         IF os[p] = "alive"
         THEN /\ \E e \in Exited : os' = [os EXCEPT ![p] = e]
              /\ struck' = struck \cup {p}
              /\ StepReq(r, "release")
         ELSE /\ \/ StepReq(r, "release")
                 \/ StepReq(r, "stop")
              /\ UNCHANGED <<os, struck>>
    /\ UNCHANGED <<dbVars, memVars, monVars, call, req, bootVars, cut, budget>>

StopRelease(r) ==
    /\ rpc[r] = "release"
    /\ Release(req[r].cur)
    /\ StepReq(r, "review")
    /\ UNCHANGED <<dbVars, os, monVars, call, req, bootVars, struck, cut, budget>>

(* Mutant: a task whose process is stopped is Cancelled. *)
StopCancels(r) ==
    /\ rpc[r] = "review"
    /\ task' = IF reason[req[r].cur] = "DevServer" THEN task ELSE "Cancelled"
    /\ StepReq(r, "stop")
    /\ UNCHANGED <<row, reason, chain, dropped, rows, draft, os, memVars,
                   monVars, call, req, bootVars, struck, cut, budget>>

StopReview(r) ==
    /\ rpc[r] = "review"
    /\ task' = IF reason[req[r].cur] = "DevServer" THEN task ELSE "InReview"
    /\ StepReq(r, "stop")
    /\ UNCHANGED <<row, reason, chain, dropped, rows, draft, os, memVars,
                   monVars, call, req, bootVars, struck, cut, budget>>

stop_execution(r) ==
    \/ StopLookup(r) \/ StopUpdate(r) \/ StopKill(r)
    \/ StopRelease(r) \/ StopReview(r)

----------------------------------------------------------------------------
(* What the handlers do once their processes are stopped.                  *)

StopsDone(r, then) == rpc[r] = "stop" /\ req[r].todo = {} /\ req[r].then \in then

(* ... nothing more, also in start_dev_server when the project has no script. *)
StopResponds(r) ==
    /\ StopsDone(r, {"end", "dev"})
    /\ Respond(r)
    /\ UNCHANGED <<dbVars, os, memVars, monVars, call, bootVars, struck, cut, budget>>

(* drop_at_and_after, then start_execution; replace_process on the row of a
   script finds no executor profile and returns an error after the drop. *)
DropAndRestart(r) ==
    /\ StopsDone(r, {"drop", "replace"})
    /\ dropped' = dropped \cup {p \in Proc : row[p] # "Absent" /\ p >= req[r].target}
    /\ IF req[r].then = "replace" /\ Head(chain[req[r].target]) = "Script"
         THEN Respond(r) /\ UNCHANGED <<task, call>>
         ELSE /\ BeginCall(r, req[r].chain, "CodingAgent")
              /\ StepReq(r, "await") /\ UNCHANGED req
    /\ UNCHANGED <<row, reason, chain, rows, draft, os, memVars, monVars,
                   bootVars, struck, cut, budget>>

DevServerStarts(r) ==
    /\ StopsDone(r, {"dev"})
    /\ BeginCall(r, <<"Script">>, "DevServer")
    /\ StepReq(r, "await")
    /\ UNCHANGED <<row, reason, chain, dropped, rows, draft, os, memVars,
                   monVars, req, bootVars, struck, cut, budget>>

(* start_execution has returned; a follow-up that was sent empties the draft. *)
StartResponds(r) ==
    /\ rpc[r] = "await" /\ Returned(r)
    /\ IF call[r].pc = "ok" /\ req[r].clear THEN ClearDraft ELSE UNCHANGED draft
    /\ call' = Return(r)
    /\ Respond(r)
    /\ UNCHANGED <<row, reason, chain, dropped, rows, task, os, memVars,
                   monVars, bootVars, struck, cut, budget>>

(* has_running_processes_for_attempt, which ignores dev servers. *)
QueueChecks(r) ==
    /\ rpc[r] = "running"
    /\ IF \E p \in Visible : reason[p] # "DevServer"
         THEN Respond(r) ELSE StepReq(r, "claim") /\ UNCHANGED req
    /\ UNCHANGED <<dbVars, os, memVars, monVars, call, bootVars, struck, cut, budget>>

(* try_mark_sending and start_follow_up_from_draft, whose errors are dropped. *)
QueueClaims(r) ==
    /\ rpc[r] = "claim"
    /\ IF ~CanClaim
         THEN Respond(r) /\ UNCHANGED <<draft, call, task>>
         ELSE /\ draft' = [draft EXCEPT !.sending = TRUE]
              /\ \/ Respond(r) /\ UNCHANGED <<call, task>>
                 \/ /\ AgentRan
                    /\ StepReq(r, "sent") /\ UNCHANGED req
                    /\ \E ch \in AgentChains : BeginCall(r, ch, "CodingAgent")
    /\ UNCHANGED <<row, reason, chain, dropped, rows, os, memVars, monVars,
                   bootVars, struck, cut, budget>>

QueueSent(r) ==
    /\ rpc[r] = "sent" /\ Returned(r)
    /\ IF call[r].pc = "ok" THEN ClearDraft ELSE UNCHANGED draft
    /\ call' = Return(r)
    /\ Respond(r)
    /\ UNCHANGED <<row, reason, chain, dropped, rows, task, os, memVars,
                   monVars, bootVars, struck, cut, budget>>

Handle(r) ==
    \/ stop_execution(r) \/ StopResponds(r) \/ DropAndRestart(r)
    \/ DevServerStarts(r) \/ StartResponds(r)
    \/ QueueChecks(r) \/ QueueClaims(r) \/ QueueSent(r)

----------------------------------------------------------------------------
(* The environment, and the server's crash and start-up.                   *)

ChildExits(p) ==
    /\ os[p] = "alive"
    /\ \E e \in Exited : os' = [os EXCEPT ![p] = e]
    /\ UNCHANGED <<dbVars, memVars, monVars, call, reqVars, bootVars, struck, cut, budget>>

(* The client goes away and the web server drops the handler's future, with
   the start_execution it awaits. *)
Disconnect(r) ==
    /\ rpc[r] # "idle"
    /\ budget.cut > 0
    /\ budget' = [budget EXCEPT !.cut = @ - 1]
    /\ cut' = IF call[r].pc = "spawn" THEN cut \cup {call[r].proc} ELSE cut
    /\ call' = [call EXCEPT ![r] = NoCall]
    /\ Respond(r)
    /\ UNCHANGED <<dbVars, os, memVars, monVars, bootVars, struck>>

(* All that is in memory is lost; children of the server outlive it. *)
Crash ==
    /\ server # "down"
    /\ budget.crash > 0
    /\ budget' = [budget EXCEPT !.crash = @ - 1]
    /\ server' = "down"
    /\ scan' = {} /\ scanned' = 0
    /\ os' = [p \in Proc |-> IF os[p] = "alive" THEN "orphan" ELSE os[p]]
    /\ child' = {} /\ store' = {}
    /\ mpc' = [p \in Proc |-> "none"]
    /\ mon' = [p \in Proc |-> NoMon]
    /\ call' = [c \in Caller |-> NoCall]
    /\ rpc' = [r \in Req |-> "idle"]
    /\ req' = [r \in Req |-> NoReq]
    /\ UNCHANGED <<dbVars, finished, struck, cut>>

(* Mutant: the scan takes agents only. *)
RestartAgentsOnly ==
    /\ server = "down"
    /\ server' = "boot"
    /\ scan' = {p \in Running : reason[p] = "CodingAgent"}
    /\ UNCHANGED <<dbVars, os, memVars, monVars, call, reqVars, scanned,
                   struck, cut, budget>>

(* cleanup_orphan_executions reads the running rows, dropped ones too ... *)
Restart ==
    /\ server = "down"
    /\ server' = "boot"
    /\ scan' = Running
    /\ UNCHANGED <<dbVars, os, memVars, monVars, call, reqVars, scanned,
                   struck, cut, budget>>

(* ... marks each one Failed ... *)
FailOrphan ==
    /\ server = "boot" /\ scanned = 0
    /\ \E p \in scan :
         /\ row' = [row EXCEPT ![p] = "Failed"]
         /\ scan' = scan \ {p}
         /\ scanned' = p
    /\ UNCHANGED <<reason, chain, dropped, rows, task, draft, os, memVars,
                   monVars, call, reqVars, server, struck, cut, budget>>

(* ... and then moves its task to InReview, before the next one. *)
ReviewOrphan ==
    /\ server = "boot" /\ scanned # 0
    /\ task' = IF reason[scanned] = "DevServer" THEN task ELSE "InReview"
    /\ scanned' = 0
    /\ UNCHANGED <<row, reason, chain, dropped, rows, draft, os, memVars,
                   monVars, call, reqVars, server, scan, struck, cut, budget>>

Serve ==
    /\ server = "boot" /\ scan = {} /\ scanned = 0
    /\ server' = "up"
    /\ UNCHANGED <<dbVars, os, memVars, monVars, call, reqVars, scan, scanned,
                   struck, cut, budget>>

cleanup_orphan_executions == Restart \/ FailOrphan \/ ReviewOrphan \/ Serve

(* Nothing is left to do: every bound is used up or no client sends more. *)
Idle ==
    /\ server = "up"
    /\ \A r \in Req : rpc[r] = "idle"
    /\ \A p \in Proc : mpc[p] \in {"none", "done"}

Rest == (Idle \/ \E p \in Proc : os[p] = "alive") /\ UNCHANGED vars

Next ==
    \/ \E c \in Caller : start_execution(c)
    \/ \E p \in Proc : spawn_exit_monitor(p) \/ ExitSignal(p) \/ ChildExits(p)
    \/ \E r \in Req : Request(r) \/ Handle(r) \/ Disconnect(r)
    \/ Crash \/ cleanup_orphan_executions
    \/ Rest

(* tokio runs every task that is ready; clients, children, executors and
   crashes are under no obligation. *)
Fairness ==
    /\ \A c \in Caller : WF_vars(start_execution(c))
    /\ \A p \in Proc : WF_vars(spawn_exit_monitor(p))
    /\ \A r \in Req : WF_vars(Handle(r))
    /\ WF_vars(cleanup_orphan_executions)

Spec == Init /\ [][Next]_vars

FairSpec == Spec /\ Fairness

----------------------------------------------------------------------------
(* Properties that hold.                                                   *)

Unwritten == {"poll", "check", "write"}

(* While the server is up, a live child is always in child_store, where
   stop_execution can find it, and its monitor is still waiting for it: no
   order of stop, exit, exit signal and clean-up leaves a child that nobody
   can stop and nobody waits for. *)
LiveIsTracked ==
    \A p \in Proc : os[p] = "alive" => p \in child /\ mpc[p] = "poll"

Starting(p) == \E c \in Caller : call[c].pc = "spawn" /\ call[c].proc = p

(* Once the server serves, a row that says Running belongs to somebody who
   will still write it: the start_execution that is about to spawn its child,
   or a monitor that has not passed update_completion; the only exception is a
   start whose handler was dropped.  Crashes and the start-up scan included. *)
RunningIsOwned ==
    server = "up" =>
        \A p \in Running : Starting(p) \/ mpc[p] \in Unwritten \/ p \in cut

(* A process that stop_execution killed while it was alive stays Killed: the
   unguarded update_completion of its monitor never overwrites that row, since
   the row was Killed before the monitor saw the exit. *)
KillSticks == \A p \in struck : row[p] = "Killed"

(* A monitor that has ended has left nothing behind: its process is in neither
   map, and the readers of its MsgStore got Finished exactly once, whoever of
   monitor and stop_execution came first. *)
ReleasedWhenDone ==
    \A p \in Proc :
        /\ finished[p] <= 1
        /\ mpc[p] = "done" => p \notin child \cup store /\ finished[p] = 1

(* The chain setup script, agent, cleanup script goes on only after a process
   whose row is not Running or Failed and that no stop_execution has killed. *)
ChainAfterSuccess ==
    [][\A p \in Proc :
          mpc[p] = "commit" /\ mpc'[p] = "next"
              => row[p] \in {"Completed", "Killed"} /\ p \notin struck]_vars

(* The exit of a child is recorded: its row does not stay Running. *)
ExitIsRecorded ==
    \A p \in Proc : (os[p] \in Exited /\ row[p] = "Running") ~> (row[p] # "Running")

(* The exit of a child releases its handle and its MsgStore, even when the
   monitor starts further executions in between. *)
ExitIsReleased ==
    \A p \in Proc : (os[p] \in Exited) ~> (p \notin child \cup store)

(* Every handler responds: none waits for ever on a lock, a map entry or a
   start_execution. *)
HandlersRespond == \A r \in Req : (rpc[r] # "idle") ~> (rpc[r] = "idle")

----------------------------------------------------------------------------
(* What comments and documents of the repository say and the code does not
   keep. *)

(* Everything is at rest and no row says Running. *)
AllAtRest == Idle /\ Running = {}

(* "Task still running... Status: In Progress": a task that is InProgress while
   nothing runs and nothing is about to has no process left that would move it
   on. *)
InProgressMeansRunning == AllAtRest => task # "InProgress"

=============================================================================
