--------------------- MODULE ExecutionLifecycleProofs ---------------------
(***************************************************************************)
(* Proofs that ExecutionLifecycle keeps its type invariant and its safety  *)
(* invariants, for every number of rows, handlers, requests, crashes and   *)
(* disconnects.                                                            *)
(***************************************************************************)
EXTENDS ExecutionLifecycle, TLAPS

----------------------------------------------------------------------------
(* The inductive invariant.                                                *)

(* A row that does not exist yet has left no trace. *)
Untouched(p) ==
    /\ mpc[p] = "none" /\ os[p] = "none" /\ finished[p] = 0
    /\ p \notin child /\ p \notin store

FreshRows ==
    \A p \in Proc : IF p <= rows THEN row[p] # "Absent"
                    ELSE row[p] = "Absent" /\ Untouched(p)

(* A start that is about to spawn owns a running row without a child, and no
   other start has the same row. *)
Spawning ==
    /\ \A c \in Caller : call[c].pc = "spawn" =>
          /\ call[c].proc \in Proc
          /\ row[call[c].proc] = "Running"
          /\ Untouched(call[c].proc)
    /\ \A c, d \in Caller :
          call[c].pc = "spawn" /\ call[d].pc = "spawn" /\ call[c].proc = call[d].proc
              => c = d

(* A start is in progress only while its handler or monitor awaits it. *)
Awaited ==
    /\ \A r \in Req : call[r].pc # "idle" => rpc[r] \in {"await", "sent"}
    /\ \A p \in Proc : call[p].pc # "idle" => mpc[p] \in {"next", "sent"}

(* What stop_execution knows of the process that it is stopping. *)
Stopping ==
    \A r \in Req : rpc[r] \in {"update", "kill", "release", "review"} =>
        /\ req[r].cur \in Proc
        /\ mpc[req[r].cur] # "none"
        /\ rpc[r] = "kill" /\ os[req[r].cur] = "alive" => row[req[r].cur] = "Killed"
        /\ rpc[r] = "release" => os[req[r].cur] # "alive"

(* A server that is down or starting has no memory of executions, and its
   start-up scan still holds every running row. *)
Quiet ==
    /\ server # "up" =>
          /\ \A c \in Caller : call[c].pc = "idle"
          /\ \A r \in Req : rpc[r] = "idle"
          /\ \A p \in Proc : mpc[p] = "none"
    /\ server = "boot" => scan = Running

(* The entries of the two maps belong to monitors, and a MsgStore that is gone
   has got its Finished. *)
Stored ==
    \A p \in Proc :
        /\ p \in child => mpc[p] # "none"
        /\ p \in store => finished[p] = 0 /\ mpc[p] # "none"
        /\ mpc[p] # "none" => p \in store \/ finished[p] = 1

(* The monitor of a process that was killed alive is not about to write. *)
Struck == \A p \in struck : mpc[p] # "write"

Inv ==
    /\ FreshRows /\ Spawning /\ Awaited /\ Stopping /\ Quiet /\ Stored /\ Struck
    /\ LiveIsTracked /\ RunningIsOwned /\ KillSticks /\ ReleasedWhenDone

IInv == TypeOK /\ Inv

----------------------------------------------------------------------------
(* Type correctness.                                                       *)

(* The values that locals are reset to have their types, and so have the
   actions that handlers start. *)
LEMMA Defaults ==
    /\ Proc \subseteq 0 .. MaxProc /\ Proc \subseteq Int
    /\ NoCall \in StartCall /\ NoReq \in ReqLocals /\ NoMon \in MonLocals
    /\ AgentChains \subseteq Chain /\ AttemptChains \subseteq Chain
    /\ <<"Script">> \in Chain /\ <<"Agent">> \in Chain
<1> USE LifecycleAssumption
<1>1. Proc \subseteq 0 .. MaxProc /\ Proc \subseteq Int
  BY DEF Proc
<1>2. /\ <<"Script">> \in Chain /\ <<"Agent">> \in Chain
      /\ <<"Agent", "Script">> \in Chain
  BY DEF Chain, ActionType
<1>3. AgentChains \subseteq Chain
  BY <1>2 DEF AgentChains
<1>4. \A s, t \in Chain : s \o t \in Chain
  BY DEF Chain
<1>5. AttemptChains \subseteq Chain
  BY <1>2, <1>3, <1>4 DEF AttemptChains
<1>6. NoCall \in StartCall
  BY DEF NoCall, StartCall, CallPc, RunReason, Chain, Proc
<1>7. NoReq \in ReqLocals
  BY DEF NoReq, ReqLocals, Chain, Proc
<1>8. NoMon \in MonLocals
  BY DEF NoMon, MonLocals, RowState
<1>9. QED
  BY <1>1, <1>2, <1>3, <1>5, <1>6, <1>7, <1>8

(* One lemma for each helper that the actions are built from. *)
LEMMA MonStepType ==
    ASSUME mpc \in [Proc -> MonPc], NEW p \in Proc, NEW pc \in MonPc, StepMon(p, pc)
    PROVE  mpc' \in [Proc -> MonPc]
BY DEF StepMon

(* A monitor has observed an exit. *)
LEMMA ObserveType ==
    ASSUME mpc \in [Proc -> MonPc], mon \in [Proc -> MonLocals], NEW p \in Proc,
           NEW e \in {"ok", "bad", "lost"}, Observe(p, e)
    PROVE  mpc' \in [Proc -> MonPc] /\ mon' \in [Proc -> MonLocals]
BY DEF Observe, StepMon, MonLocals, MonPc

(* A process leaves both maps. *)
LEMMA ReleaseType ==
    ASSUME store \subseteq Proc, child \subseteq Proc, finished \in [Proc -> Nat],
           NEW p \in Proc, Release(p)
    PROVE  store' \subseteq Proc /\ child' \subseteq Proc /\ finished' \in [Proc -> Nat]
BY DEF Release

(* A handler moves to another of its program points. *)
LEMMA ReqStepType ==
    ASSUME rpc \in [Req -> ReqPc], NEW r \in Req, NEW pc \in ReqPc, StepReq(r, pc)
    PROVE  rpc' \in [Req -> ReqPc]
BY DEF StepReq

(* A handler responds and forgets its locals. *)
LEMMA RespondType ==
    ASSUME rpc \in [Req -> ReqPc], req \in [Req -> ReqLocals], NEW r \in Req, Respond(r)
    PROVE  rpc' \in [Req -> ReqPc] /\ req' \in [Req -> ReqLocals]
BY Defaults DEF Respond, StepReq, ReqPc

(* A request is charged to the bounds. *)
LEMMA AcceptType ==
    ASSUME budget \in Budget, NEW r, NEW n \in Int, Accept(r, n)
    PROVE  budget' \in Budget
<1>1. budget.req - 1 \in Int /\ budget.proc - n \in Int
  BY DEF Budget
<1>2. QED
  BY <1>1 DEF Accept, Budget

(* clear_after_send, or no change of the draft. *)
LEMMA ClearType ==
    ASSUME draft \in DraftState, ClearDraft \/ UNCHANGED draft
    PROVE  draft' \in DraftState
<1>1. NoDraft \in DraftState
  BY DEF NoDraft, DraftState
<1>2. QED
  BY <1>1 DEF ClearDraft

(* A start_execution begins. *)
LEMMA BeginType ==
    ASSUME call \in [Caller -> StartCall], task \in TaskStatus, NEW c \in Caller,
           NEW ch \in Chain, NEW rs \in RunReason, BeginCall(c, ch, rs)
    PROVE  call' \in [Caller -> StartCall] /\ task' \in TaskStatus
BY Defaults DEF BeginCall, StartCall, CallPc, TaskStatus

(* A start_execution returns to its caller. *)
LEMMA ReturnType ==
    ASSUME call \in [Caller -> StartCall], NEW c \in Caller, call' = Return(c)
    PROVE  call' \in [Caller -> StartCall]
BY Defaults DEF Return

(* A retry or a replace_process begins. *)
LEMMA RestartType ==
    ASSUME TypeOK, NEW r \in Req, NEW p \in Proc, NEW then \in {"drop", "replace"},
           NEW ch \in Chain, RestartFrom(r, p, then, ch)
    PROVE  TypeOK'
<1>1. budget' \in Budget
  <2>1. Len(ch) \in Int
    BY DEF Chain
  <2>2. QED
    BY <2>1, AcceptType DEF TypeOK, RestartFrom
<1>2. rpc' \in [Req -> ReqPc]
  BY ReqStepType DEF TypeOK, RestartFrom, ReqPc
<1>3. [NoReq EXCEPT !.todo = Visible, !.then = then, !.target = p, !.chain = ch]
          \in ReqLocals
  BY Defaults DEF NoReq, ReqLocals, Visible, Running
<1>4. req' \in [Req -> ReqLocals]
  BY <1>3 DEF TypeOK, RestartFrom
<1>5. QED
  BY <1>1, <1>2, <1>4 DEF TypeOK, RestartFrom, dbVars, memVars, monVars, bootVars

(* Every step keeps the types. *)
LEMMA TypeStep == TypeOK /\ [Next]_vars => TypeOK'
<1>a. SUFFICES ASSUME TypeOK, [Next]_vars
               PROVE  TypeOK'
  OBVIOUS
<1> USE LifecycleAssumption
<1>c. Req \subseteq Caller /\ Proc \subseteq Caller
  BY DEF Caller
<1>1. ASSUME NEW c \in Caller, CreateRow(c)
      PROVE  TypeOK'
  <2>1. rows' \in 0 .. MaxProc /\ rows' \in Proc
    BY <1>a, <1>1 DEF TypeOK, CreateRow, Proc
  <2>2. call' \in [Caller -> StartCall]
    <3>1. call[c] \in StartCall
      BY <1>a DEF TypeOK
    <3>2. call' = [call EXCEPT ![c] = [call[c] EXCEPT !.pc = "spawn", !.proc = rows']]
      BY <1>a, <1>1, <3>1 DEF TypeOK, CreateRow, StartCall
    <3>3. [call[c] EXCEPT !.pc = "spawn", !.proc = rows'] \in StartCall
      BY <2>1, <3>1 DEF StartCall, CallPc
    <3>4. QED
      BY <1>a, <3>2, <3>3 DEF TypeOK
  <2>3. /\ row' \in [Proc -> RowState]
        /\ reason' \in [Proc -> RunReason] /\ chain' \in [Proc -> Chain]
    BY <1>a, <1>1, <2>1 DEF TypeOK, CreateRow, StartCall, RowState, RowStatus
  <2>4. QED
    BY <1>a, <1>1, <2>1, <2>2, <2>3
    DEF TypeOK, CreateRow, memVars, monVars, reqVars, bootVars
<1>2. ASSUME NEW c \in Caller, SpawnChild(c)
      PROVE  TypeOK'
  BY <1>a, <1>2, Defaults DEF TypeOK, SpawnChild, StartCall, CallPc, MonPc, OsState,
         dbVars, memVars, monVars, reqVars, bootVars
<1>3. ASSUME NEW c \in Caller, SpawnFails(c)
      PROVE  TypeOK'
  BY <1>a, <1>3, Defaults DEF TypeOK, SpawnFails, StartCall, CallPc, RowState,
         RowStatus, dbVars, memVars, monVars, reqVars, bootVars
<1>4. ASSUME NEW c \in Caller, ReviewAfterStartError(c)
      PROVE  TypeOK'
  BY <1>a, <1>4 DEF TypeOK, ReviewAfterStartError, StartCall, CallPc, TaskStatus,
         dbVars, memVars, monVars, reqVars, bootVars
<1>5. ASSUME NEW p \in Proc, WatchExit(p)
      PROVE  TypeOK'
  BY <1>a, <1>5, ObserveType DEF TypeOK, WatchExit, dbVars, memVars, monVars,
         reqVars, bootVars
<1>6. ASSUME NEW p \in Proc, WatchMissing(p)
      PROVE  TypeOK'
  BY <1>a, <1>6, ObserveType DEF TypeOK, WatchMissing, dbVars, memVars, monVars,
         reqVars, bootVars
<1>7. ASSUME NEW p \in Proc, CheckStopped(p)
      PROVE  TypeOK'
  BY <1>a, <1>7, MonStepType DEF TypeOK, CheckStopped, MonPc, dbVars, memVars,
         monVars, reqVars, bootVars
<1>8. ASSUME NEW p \in Proc, WriteCompletion(p)
      PROVE  TypeOK'
  BY <1>a, <1>8, MonStepType DEF TypeOK, WriteCompletion, MonPc, RowState,
         RowStatus, dbVars, memVars, monVars, reqVars, bootVars
<1>9. ASSUME NEW p \in Proc, LoadContext(p)
      PROVE  TypeOK'
  BY <1>a, <1>9, MonStepType DEF TypeOK, LoadContext, MonPc, MonLocals, dbVars,
         memVars, monVars, reqVars, bootVars
<1>10. ASSUME NEW p \in Proc, CommitAndContinue(p)
      PROVE  TypeOK'
  <2>1. mpc' \in [Proc -> MonPc]
    BY <1>a, <1>10, MonStepType DEF TypeOK, CommitAndContinue, MonPc
  <2>2. HasNext(p) => Tail(chain[p]) \in Chain
    BY <1>a DEF TypeOK, HasNext, Chain
  <2>3. NextReason(p) \in RunReason
    BY DEF NextReason, RunReason
  <2>4. call' \in [Caller -> StartCall] /\ task' \in TaskStatus
    BY <1>a, <1>c, <1>10, <2>2, <2>3, BeginType DEF TypeOK, CommitAndContinue, TaskStatus
  <2>5. QED
    BY <1>a, <1>10, <2>1, <2>4
    DEF TypeOK, CommitAndContinue, memVars, reqVars, bootVars
<1>11. ASSUME NEW p \in Proc, NextStarted(p)
      PROVE  TypeOK'
  BY <1>a, <1>c, <1>11, MonStepType, ReturnType DEF TypeOK, NextStarted, MonPc,
         dbVars, memVars, monVars, reqVars, bootVars
<1>12. ASSUME NEW p \in Proc, Finalize(p)
      PROVE  TypeOK'
  BY <1>a, <1>12, MonStepType DEF TypeOK, Finalize, MonPc, TaskStatus, dbVars,
         memVars, monVars, reqVars, bootVars
<1>13. ASSUME NEW p \in Proc, CheckNothingRuns(p)
      PROVE  TypeOK'
  BY <1>a, <1>13, MonStepType DEF TypeOK, CheckNothingRuns, MonPc, dbVars, memVars,
         monVars, reqVars, bootVars
<1>14. ASSUME NEW p \in Proc, ClaimFollowUp(p)
      PROVE  TypeOK'
  <2>1. mpc' \in [Proc -> MonPc]
    BY <1>a, <1>14, MonStepType DEF TypeOK, ClaimFollowUp, MonPc
  <2>2. draft' \in DraftState
    BY <1>a, <1>14 DEF TypeOK, ClaimFollowUp, DraftState
  <2>3. call' \in [Caller -> StartCall] /\ task' \in TaskStatus
    BY <1>a, <1>c, <1>14, BeginType, Defaults DEF TypeOK, ClaimFollowUp, RunReason
  <2>4. QED
    BY <1>a, <1>14, <2>1, <2>2, <2>3 DEF TypeOK, ClaimFollowUp, memVars, reqVars, bootVars
<1>15. ASSUME NEW p \in Proc, FollowUpSent(p)
      PROVE  TypeOK'
  BY <1>a, <1>c, <1>15, MonStepType, ReturnType, ClearType DEF TypeOK, FollowUpSent,
         MonPc, dbVars, memVars, monVars, reqVars, bootVars
<1>16. ASSUME NEW p \in Proc, Cleanup(p)
      PROVE  TypeOK'
  BY <1>a, <1>16, MonStepType, ReleaseType, Defaults DEF TypeOK, Cleanup, MonPc,
         dbVars, memVars, monVars, reqVars, bootVars
<1>17. ASSUME NEW p \in Proc, ExitSignal(p)
      PROVE  TypeOK'
  BY <1>a, <1>17, ObserveType DEF TypeOK, ExitSignal, OsState, Exited, dbVars,
         memVars, monVars, reqVars, bootVars
<1>18. ASSUME NEW p \in Proc, ChildExits(p)
      PROVE  TypeOK'
  BY <1>a, <1>18 DEF TypeOK, ChildExits, OsState, dbVars, memVars, monVars, reqVars,
         bootVars
<1>19. ASSUME NEW r \in Req, StartAttempt(r)
      PROVE  TypeOK'
  <2>1. PICK ch \in AttemptChains :
            /\ Accept(r, Len(ch))
            /\ BeginCall(r, ch, IF Head(ch) = "Script" THEN "SetupScript" ELSE "CodingAgent")
    BY <1>19 DEF StartAttempt
  <2>2. ch \in Chain /\ Len(ch) \in Int
    BY <2>1, Defaults DEF Chain
  <2>3. call' \in [Caller -> StartCall] /\ task' \in TaskStatus
    BY <1>a, <1>c, <2>1, <2>2, BeginType DEF TypeOK, RunReason
  <2>4. budget' \in Budget
    BY <1>a, <2>1, <2>2, AcceptType DEF TypeOK
  <2>5. rpc' \in [Req -> ReqPc] /\ req' \in [Req -> ReqLocals]
    BY <1>a, <1>19, ReqStepType, Defaults DEF TypeOK, StartAttempt, ReqPc
  <2>6. QED
    BY <1>a, <1>19, <2>3, <2>4, <2>5 DEF TypeOK, StartAttempt, memVars, monVars, bootVars
<1>20. ASSUME NEW r \in Req, FollowUp(r)
      PROVE  TypeOK'
  <2>1. PICK ch \in AgentChains : Accept(r, Len(ch)) /\ BeginCall(r, ch, "CodingAgent")
    BY <1>20 DEF FollowUp
  <2>2. ch \in Chain /\ Len(ch) \in Int
    BY <2>1, Defaults DEF Chain
  <2>3. call' \in [Caller -> StartCall] /\ task' \in TaskStatus
    BY <1>a, <1>c, <2>1, <2>2, BeginType DEF TypeOK, RunReason
  <2>4. budget' \in Budget
    BY <1>a, <2>1, <2>2, AcceptType DEF TypeOK
  <2>5. [NoReq EXCEPT !.clear = TRUE] \in ReqLocals
    BY Defaults DEF ReqLocals
  <2>6. rpc' \in [Req -> ReqPc] /\ req' \in [Req -> ReqLocals]
    BY <1>a, <1>20, <2>5, ReqStepType DEF TypeOK, FollowUp, ReqPc
  <2>7. QED
    BY <1>a, <1>20, <2>3, <2>4, <2>6 DEF TypeOK, FollowUp, memVars, monVars, bootVars
<1>21. ASSUME NEW r \in Req, Retry(r)
      PROVE  TypeOK'
  BY <1>a, <1>21, RestartType, Defaults DEF Retry
<1>22. ASSUME NEW r \in Req, Replace(r)
      PROVE  TypeOK'
  BY <1>a, <1>22, RestartType, Defaults DEF Replace
<1>23. ASSUME NEW r \in Req, StartDevServer(r)
      PROVE  TypeOK'
  <2> DEFINE dev == [NoReq EXCEPT !.todo = {p \in Running : reason[p] = "DevServer"},
                                !.then = "dev"]
  <2>1. budget' \in Budget
    BY <1>a, <1>23, AcceptType DEF TypeOK, StartDevServer
  <2>2. dev \in ReqLocals
    BY Defaults DEF ReqLocals, Running
  <2>3. rpc' \in [Req -> ReqPc] /\ req' \in [Req -> ReqLocals]
    BY <1>a, <1>23, <2>2, ReqStepType DEF TypeOK, StartDevServer, ReqPc
  <2>4. QED
    BY <1>a, <1>23, <2>1, <2>3 DEF TypeOK, StartDevServer,
       dbVars, memVars, monVars, bootVars
<1>24. ASSUME NEW r \in Req, StopProcess(r)
      PROVE  TypeOK'
  <2>1. budget' \in Budget
    BY <1>a, <1>24, AcceptType DEF TypeOK, StopProcess
  <2>2. rpc' \in [Req -> ReqPc]
    BY <1>a, <1>24, ReqStepType DEF TypeOK, StopProcess, ReqPc
  <2>3. \A p \in Proc : [NoReq EXCEPT !.todo = {p}] \in ReqLocals
    BY Defaults DEF ReqLocals
  <2>4. req' \in [Req -> ReqLocals]
    BY <1>a, <1>24, <2>3 DEF TypeOK, StopProcess
  <2>5. QED
    BY <1>a, <1>24, <2>1, <2>2, <2>4 DEF TypeOK, StopProcess, dbVars, memVars, monVars, bootVars
<1>25. ASSUME NEW r \in Req, StopAttempt(r)
      PROVE  TypeOK'
  BY <1>a, <1>25, ReqStepType, AcceptType, Defaults DEF TypeOK, StopAttempt, ReqPc,
         ReqLocals, Visible, Running, dbVars, memVars, monVars, reqVars, bootVars
<1>26. ASSUME NEW r \in Req, QueueFollowUp(r)
      PROVE  TypeOK'
  <2>1. budget' \in Budget
    BY <1>a, <1>26, AcceptType DEF TypeOK, QueueFollowUp
  <2>2. draft' \in DraftState
    BY <1>a, <1>26 DEF TypeOK, QueueFollowUp, DraftState
  <2>3. rpc' \in [Req -> ReqPc] /\ req' \in [Req -> ReqLocals]
    BY <1>a, <1>26, Defaults, ReqStepType DEF TypeOK, QueueFollowUp, ReqPc
  <2>4. QED
    BY <1>a, <1>26, <2>1, <2>2, <2>3 DEF TypeOK, QueueFollowUp, memVars, monVars, bootVars
<1>27. ASSUME NEW r \in Req, UnqueueFollowUp(r)
      PROVE  TypeOK'
  <2>1. draft' \in DraftState
    BY <1>a, <1>27 DEF TypeOK, UnqueueFollowUp, DraftState
  <2>2. QED
    BY <1>a, <1>27, <2>1 DEF TypeOK, UnqueueFollowUp,
       memVars, monVars, reqVars, bootVars
<1>28. ASSUME NEW r \in Req, StopLookup(r)
      PROVE  TypeOK'
  <2>1. PICK p \in req[r].todo :
            /\ req' = [req EXCEPT ![r].todo = @ \ {p}, ![r].cur = p]
            /\ StepReq(r, IF p \in child THEN "update" ELSE "stop")
    BY <1>28 DEF StopLookup
  <2>2. req[r] \in ReqLocals /\ p \in Proc /\ p \in 0 .. MaxProc
    BY <1>a, <2>1, Defaults DEF TypeOK, ReqLocals
  <2>3. req' \in [Req -> ReqLocals]
    BY <1>a, <2>1, <2>2 DEF TypeOK, ReqLocals
  <2>4. rpc' \in [Req -> ReqPc]
    BY <1>a, <2>1, ReqStepType DEF TypeOK, ReqPc
  <2>5. QED
    BY <1>a, <1>28, <2>3, <2>4 DEF TypeOK, StopLookup, dbVars, memVars, monVars, bootVars
<1>29. ASSUME NEW r \in Req, StopUpdate(r)
      PROVE  TypeOK'
  BY <1>a, <1>29, ReqStepType DEF TypeOK, StopUpdate, ReqPc, RowState, RowStatus,
         dbVars, memVars, monVars, reqVars, bootVars
<1>30. ASSUME NEW r \in Req, StopKill(r)
      PROVE  TypeOK'
  BY <1>a, <1>30, ReqStepType DEF TypeOK, StopKill, ReqPc, OsState, ReqLocals,
         dbVars, memVars, monVars, reqVars, bootVars
<1>31. ASSUME NEW r \in Req, StopRelease(r)
      PROVE  TypeOK'
  BY <1>a, <1>31, ReqStepType, ReleaseType DEF TypeOK, StopRelease, ReqPc,
         ReqLocals, dbVars, memVars, monVars, reqVars, bootVars
<1>32. ASSUME NEW r \in Req, StopReview(r)
      PROVE  TypeOK'
  BY <1>a, <1>32, ReqStepType DEF TypeOK, StopReview, ReqPc, TaskStatus, dbVars,
         memVars, monVars, reqVars, bootVars
<1>33. ASSUME NEW r \in Req, StopResponds(r)
      PROVE  TypeOK'
  BY <1>a, <1>33, RespondType DEF TypeOK, StopResponds, dbVars, memVars, monVars,
         reqVars, bootVars
<1>34. ASSUME NEW r \in Req, DropAndRestart(r)
      PROVE  TypeOK'
  BY <1>a, <1>c, <1>34, RespondType, ReqStepType, BeginType DEF TypeOK,
         DropAndRestart, ReqPc, ReqLocals, RunReason, dbVars, memVars, monVars,
         reqVars, bootVars
<1>35. ASSUME NEW r \in Req, DevServerStarts(r)
      PROVE  TypeOK'
  BY <1>a, <1>c, <1>35, ReqStepType, BeginType, Defaults DEF TypeOK,
         DevServerStarts, ReqPc, RunReason, dbVars, memVars, monVars, reqVars,
         bootVars
<1>36. ASSUME NEW r \in Req, StartResponds(r)
      PROVE  TypeOK'
  BY <1>a, <1>c, <1>36, RespondType, ReturnType, ClearType DEF TypeOK,
         StartResponds, dbVars, memVars, monVars, reqVars, bootVars
<1>37. ASSUME NEW r \in Req, QueueChecks(r)
      PROVE  TypeOK'
  BY <1>a, <1>37, RespondType, ReqStepType DEF TypeOK, QueueChecks, ReqPc, dbVars,
         memVars, monVars, reqVars, bootVars
<1>38. ASSUME NEW r \in Req, QueueClaims(r)
      PROVE  TypeOK'
  <2>1. rpc' \in [Req -> ReqPc] /\ req' \in [Req -> ReqLocals]
    BY <1>a, <1>38, ReqStepType, RespondType DEF TypeOK, QueueClaims, ReqPc
  <2>2. draft' \in DraftState
    BY <1>a, <1>38 DEF TypeOK, QueueClaims, DraftState
  <2>3. call' \in [Caller -> StartCall] /\ task' \in TaskStatus
    BY <1>a, <1>c, <1>38, BeginType, Defaults DEF TypeOK, QueueClaims, RunReason
  <2>4. QED
    BY <1>a, <1>38, <2>1, <2>2, <2>3 DEF TypeOK, QueueClaims, memVars, monVars, bootVars
<1>39. ASSUME NEW r \in Req, QueueSent(r)
      PROVE  TypeOK'
  BY <1>a, <1>c, <1>39, RespondType, ReturnType, ClearType DEF TypeOK, QueueSent,
         dbVars, memVars, monVars, reqVars, bootVars
<1>40. ASSUME NEW r \in Req, Disconnect(r)
      PROVE  TypeOK'
  <2>1. budget' \in Budget
    BY <1>a, <1>40 DEF TypeOK, Disconnect, Budget
  <2>2. call' \in [Caller -> StartCall]
    BY <1>a, <1>c, <1>40, Defaults DEF TypeOK, Disconnect
  <2>3. cut' \subseteq Proc
    BY <1>a, <1>c, <1>40 DEF TypeOK, Disconnect, StartCall
  <2>4. rpc' \in [Req -> ReqPc] /\ req' \in [Req -> ReqLocals]
    BY <1>a, <1>40, RespondType DEF TypeOK, Disconnect
  <2>5. QED
    BY <1>a, <1>40, <2>1, <2>2, <2>3, <2>4 DEF TypeOK, Disconnect,
       dbVars, memVars, monVars, bootVars
<1>41. ASSUME Crash
      PROVE  TypeOK'
  <2>1. mpc' \in [Proc -> MonPc] /\ rpc' \in [Req -> ReqPc] /\ os' \in [Proc -> OsState]
    BY <1>a, <1>41 DEF TypeOK, Crash, MonPc, ReqPc, OsState
  <2>2. /\ mon' \in [Proc -> MonLocals] /\ call' \in [Caller -> StartCall]
        /\ req' \in [Req -> ReqLocals]
    BY <1>41, Defaults DEF Crash
  <2>3. budget' \in Budget
    BY <1>a, <1>41 DEF TypeOK, Crash, Budget
  <2>4. QED
    BY <1>a, <1>41, <2>1, <2>2, <2>3 DEF TypeOK, Crash, dbVars
<1>42. ASSUME Restart
      PROVE  TypeOK'
  BY <1>a, <1>42 DEF TypeOK, Restart, Running, dbVars, memVars, monVars, reqVars,
         bootVars
<1>43. ASSUME FailOrphan
      PROVE  TypeOK'
  BY <1>a, <1>43, Defaults DEF TypeOK, FailOrphan, RowState, RowStatus, dbVars,
         memVars, monVars, reqVars, bootVars
<1>44. ASSUME ReviewOrphan
      PROVE  TypeOK'
  BY <1>a, <1>44 DEF TypeOK, ReviewOrphan, TaskStatus, dbVars, memVars, monVars,
         reqVars, bootVars
<1>45. ASSUME Serve
      PROVE  TypeOK'
  BY <1>a, <1>45 DEF TypeOK, Serve, dbVars, memVars, monVars, reqVars, bootVars
<1>46. ASSUME Rest
      PROVE  TypeOK'
  BY <1>a, <1>46 DEF TypeOK, Rest, vars, dbVars, memVars, monVars, reqVars, bootVars
<1>47. ASSUME UNCHANGED vars
      PROVE  TypeOK'
  BY <1>a, <1>47 DEF TypeOK, vars, dbVars, memVars, monVars, reqVars, bootVars
<1>48. QED
  BY <1>a, <1>1, <1>2, <1>3, <1>4, <1>5, <1>6, <1>7, <1>8, <1>9, <1>10, <1>11,
     <1>12, <1>13, <1>14, <1>15, <1>16, <1>17, <1>18, <1>19, <1>20, <1>21, <1>22,
     <1>23, <1>24, <1>25, <1>26, <1>27, <1>28, <1>29, <1>30, <1>31, <1>32, <1>33,
     <1>34, <1>35, <1>36, <1>37, <1>38, <1>39, <1>40, <1>41, <1>42, <1>43, <1>44,
     <1>45, <1>46, <1>47
  DEF Next, start_execution, spawn_exit_monitor, Request, Handle, stop_execution,
      cleanup_orphan_executions

(* The initial state has the types. *)
LEMMA TypeInit == Init => TypeOK
  BY LifecycleAssumption, Defaults
  DEF Init, TypeOK, RowState, RunReason, Chain, TaskStatus, NoDraft, DraftState,
      OsState, MonPc, ReqPc, Budget

(* TypeOK holds in every state of every behaviour: the maps, rows, monitors,
   handlers and start calls always have values of their types. *)
THEOREM TypeCorrect == Spec => []TypeOK
  BY TypeInit, TypeStep, PTL DEF Spec

----------------------------------------------------------------------------
(* What the steps do to the start calls and to the handlers.               *)

(* The call of c changes, but neither enters nor leaves the step in which it
   owns a row without a child; no other call changes. *)
CallMoves(c) ==
    /\ call[c].pc # "spawn" /\ call'[c].pc # "spawn"
    /\ \A d \in Caller \ {c} : call'[d] = call[d]

(* Assigning to the pc of a call. *)
LEMMA PcEffect ==
    ASSUME TypeOK, NEW c \in Caller, NEW pc \in CallPc,
           call' = [call EXCEPT ![c].pc = pc]
    PROVE  /\ call'[c].pc = pc /\ call'[c].proc = call[c].proc
           /\ \A d \in Caller \ {c} : call'[d] = call[d]
BY DEF TypeOK, StartCall

(* A call that begins or returns owns no row. *)
LEMMA BeginEffect ==
    ASSUME TypeOK, NEW c \in Caller, NEW ch, NEW rs, BeginCall(c, ch, rs)
    PROVE  /\ call'[c].pc = "row"
           /\ \A d \in Caller \ {c} : call'[d] = call[d]
BY DEF TypeOK, BeginCall, NoCall

(* A call that returns is gone, and no other call changes. *)
LEMMA ReturnEffect ==
    ASSUME TypeOK, NEW c \in Caller, call' = Return(c)
    PROVE  /\ call'[c].pc = "idle"
           /\ \A d \in Caller \ {c} : call'[d] = call[d]
BY DEF TypeOK, Return, NoCall

(* The monitors' steps that begin or end a call, and await it in between. *)
LEMMA MonitorCalls ==
    ASSUME TypeOK, Awaited, NEW p \in Proc,
           \/ CommitAndContinue(p) \/ NextStarted(p)
           \/ ClaimFollowUp(p) \/ FollowUpSent(p)
    PROVE  /\ CallMoves(p)
           /\ call'[p].pc # "idle" => mpc'[p] \in {"next", "sent"}
<1>a. p \in Caller
  BY DEF Caller
<1>1. CASE CommitAndContinue(p)
  <2>1. call[p].pc = "idle" /\ mpc \in [Proc -> MonPc]
    BY <1>1 DEF TypeOK, Awaited, CommitAndContinue
  <2>2. CASE HasNext(p) /\ BeginCall(p, Tail(chain[p]), NextReason(p)) /\ StepMon(p, "next")
    BY <1>a, <2>1, <2>2, BeginEffect DEF CallMoves, StepMon
  <2>3. CASE UNCHANGED call
    BY <1>a, <2>1, <2>3 DEF CallMoves
  <2>4. QED
    BY <1>1, <2>2, <2>3 DEF CommitAndContinue
<1>2. CASE NextStarted(p) \/ FollowUpSent(p)
  BY <1>a, <1>2, ReturnEffect DEF CallMoves, NextStarted, FollowUpSent, Returned
<1>3. CASE ClaimFollowUp(p)
  <2>1. call[p].pc = "idle" /\ mpc \in [Proc -> MonPc]
    BY <1>3 DEF TypeOK, Awaited, ClaimFollowUp
  <2>2. \/ UNCHANGED call
        \/ (\E ch \in AgentChains : BeginCall(p, ch, "CodingAgent")) /\ StepMon(p, "sent")
    BY <1>3 DEF ClaimFollowUp
  <2>3. QED
    BY <1>a, <2>1, <2>2, BeginEffect DEF CallMoves, StepMon
<1>4. QED
  BY <1>1, <1>2, <1>3

(* The handlers' steps that begin or end a call, and await it in between. *)
LEMMA HandlerCalls ==
    ASSUME TypeOK, Awaited, NEW r \in Req,
           \/ StartAttempt(r) \/ FollowUp(r) \/ DropAndRestart(r)
           \/ DevServerStarts(r) \/ StartResponds(r) \/ QueueClaims(r) \/ QueueSent(r)
    PROVE  /\ CallMoves(r)
           /\ call'[r].pc # "idle" => rpc'[r] \in {"await", "sent"}
<1>a. r \in Caller /\ rpc \in [Req -> ReqPc]
  BY DEF TypeOK, Caller
<1>1. CASE StartAttempt(r) \/ FollowUp(r)
  <2>1. call[r].pc = "idle"
    BY <1>1 DEF Awaited, StartAttempt, FollowUp, Accept
  <2>2. StepReq(r, "await") /\ \E ch, rs : BeginCall(r, ch, rs)
    BY <1>1 DEF StartAttempt, FollowUp
  <2>3. QED
    BY <1>a, <2>1, <2>2, BeginEffect DEF CallMoves, StepReq
<1>2. CASE DropAndRestart(r) \/ DevServerStarts(r)
  <2>1. call[r].pc = "idle"
    BY <1>2 DEF Awaited, DropAndRestart, DevServerStarts, StopsDone
  <2>2. UNCHANGED call \/ (StepReq(r, "await") /\ \E ch, rs : BeginCall(r, ch, rs))
    BY <1>2 DEF DropAndRestart, DevServerStarts
  <2>3. QED
    BY <1>a, <2>1, <2>2, BeginEffect DEF CallMoves, StepReq
<1>3. CASE StartResponds(r) \/ QueueSent(r)
  BY <1>a, <1>3, ReturnEffect DEF CallMoves, StartResponds, QueueSent, Returned
<1>4. CASE QueueClaims(r)
  <2>1. call[r].pc = "idle"
    BY <1>4 DEF Awaited, QueueClaims
  <2>2. UNCHANGED call \/ (StepReq(r, "sent") /\ \E ch, rs : BeginCall(r, ch, rs))
    BY <1>4 DEF QueueClaims
  <2>3. QED
    BY <1>a, <2>1, <2>2, BeginEffect DEF CallMoves, StepReq
<1>5. QED
  BY <1>1, <1>2, <1>3, <1>4

(* A handler that is not inside stop_execution. *)
InStop == {"update", "kill", "release", "review"}

(* Outside stop_execution a handler's step changes only its own locals, and
   does not enter the inside of stop_execution. *)
LEMMA HandlerFrame ==
    ASSUME TypeOK, NEW r \in Req,
           Request(r) \/ StopResponds(r) \/ DropAndRestart(r) \/ DevServerStarts(r)
           \/ StartResponds(r) \/ QueueChecks(r) \/ QueueClaims(r) \/ QueueSent(r)
           \/ Disconnect(r)
    PROVE  /\ \A s \in Req \ {r} : rpc'[s] = rpc[s] /\ req'[s] = req[s]
           /\ rpc'[r] \notin InStop
           /\ UNCHANGED <<row, rows, os, child, store, finished, mpc, server, scan, struck>>
<1>a. rpc \in [Req -> ReqPc] /\ req \in [Req -> ReqLocals]
  BY DEF TypeOK
<1>1. CASE StartAttempt(r) \/ FollowUp(r) \/ StartDevServer(r)
  BY <1>a, <1>1 DEF StartAttempt, FollowUp, StartDevServer, StepReq, InStop, dbVars,
     memVars, monVars, bootVars
<1>2. CASE Retry(r) \/ Replace(r)
  BY <1>a, <1>2 DEF Retry, Replace, RestartFrom, StepReq, InStop, dbVars,
     memVars, monVars, bootVars
<1>3. CASE StopProcess(r) \/ StopAttempt(r)
  BY <1>a, <1>3 DEF StopProcess, StopAttempt, StepReq, InStop, dbVars,
     memVars, monVars, bootVars
<1>4. CASE QueueFollowUp(r) \/ UnqueueFollowUp(r)
  BY <1>a, <1>4 DEF QueueFollowUp, UnqueueFollowUp, Accept, StepReq, InStop,
     memVars, monVars, reqVars, bootVars
<1>5. CASE StopResponds(r) \/ StartResponds(r) \/ QueueSent(r) \/ Disconnect(r)
  BY <1>a, <1>5 DEF StopResponds, StartResponds, QueueSent, Disconnect, Respond, StepReq,
     InStop, dbVars, memVars, monVars, bootVars
<1>6. CASE DropAndRestart(r) \/ DevServerStarts(r)
  BY <1>a, <1>6 DEF DropAndRestart, DevServerStarts, Respond, StepReq,
     InStop, memVars, monVars, bootVars
<1>7. CASE QueueChecks(r) \/ QueueClaims(r)
  BY <1>a, <1>7 DEF QueueChecks, QueueClaims, Respond, StepReq,
     InStop, dbVars, memVars, monVars, bootVars
<1>8. QED
  BY <1>1, <1>2, <1>3, <1>4, <1>5, <1>6, <1>7 DEF Request


(* The effect of any step of the monitor of p: only p is touched, its child is
   not alive afterwards, a row is written only from "write", the maps are
   released in the last step, and a killed row is never about to be written. *)
MonEffect(p) ==
    /\ mpc[p] \notin {"none", "done"} /\ mpc'[p] \notin {"none", "poll"}
    /\ \A q \in Proc \ {p} :
          /\ mpc'[q] = mpc[q] /\ row'[q] = row[q] /\ os'[q] = os[q]
          /\ q \in child' <=> q \in child
    /\ os'[p] # "alive" /\ (os'[p] = "none" <=> os[p] = "none")
    /\ \/ row'[p] = row[p]
       \/ mpc[p] = "write" /\ row'[p] \in {"Completed", "Failed"}
    /\ mpc[p] \in Unwritten /\ row'[p] = "Running" => mpc'[p] \in Unwritten
    /\ mpc'[p] = "write" => row[p] \notin {"Killed", "Completed"}
    /\ IF mpc'[p] = "done" THEN Release(p) ELSE UNCHANGED <<child, store, finished>>
    /\ call'[p].pc # "idle" => mpc'[p] \in {"next", "sent"}
    /\ CallMoves(p)
    /\ UNCHANGED <<rows, rpc, req, server, scan, struck, cut>>

(* Every step of a monitor has that effect. *)
LEMMA MonitorEffect ==
    ASSUME TypeOK, Awaited, LiveIsTracked, NEW p \in Proc,
           spawn_exit_monitor(p) \/ ExitSignal(p)
    PROVE  MonEffect(p)
<1>a. /\ mpc \in [Proc -> MonPc] /\ row \in [Proc -> RowState] /\ os \in [Proc -> OsState]
      /\ p \in Caller
  BY DEF TypeOK, Caller
<1>b. mpc[p] # "poll" => os[p] # "alive"
  BY DEF LiveIsTracked
<1>c. mpc[p] \notin {"next", "sent"} => call[p].pc = "idle"
  BY DEF Awaited
<1>1. CASE WatchExit(p) \/ WatchMissing(p)
  BY <1>a, <1>c, <1>1 DEF WatchExit, WatchMissing, Observe, StepMon, MonEffect, CallMoves,
     Unwritten, LiveIsTracked, Exited, dbVars, memVars, reqVars, bootVars
<1>2. CASE ExitSignal(p)
  BY <1>a, <1>c, <1>2 DEF ExitSignal, Observe, StepMon, MonEffect, CallMoves,
     Unwritten, LiveIsTracked, dbVars, memVars, reqVars, bootVars
<1>3. CASE CheckStopped(p) \/ WriteCompletion(p)
  BY <1>a, <1>b, <1>c, <1>3 DEF CheckStopped, WriteCompletion, was_stopped, StepMon,
     MonEffect, CallMoves, Unwritten, dbVars, memVars, reqVars, bootVars
<1>4. CASE LoadContext(p) \/ Finalize(p) \/ CheckNothingRuns(p)
  BY <1>a, <1>b, <1>c, <1>4 DEF LoadContext, Finalize, CheckNothingRuns, StepMon,
     MonEffect, CallMoves, Unwritten, dbVars, memVars, reqVars, bootVars
<1>5. CASE CommitAndContinue(p) \/ NextStarted(p) \/ ClaimFollowUp(p) \/ FollowUpSent(p)
  <2>1. CallMoves(p) /\ (call'[p].pc # "idle" => mpc'[p] \in {"next", "sent"})
    BY <1>5, MonitorCalls
  <2>2. /\ mpc[p] \in {"commit", "next", "claim", "sent"}
        /\ mpc'[p] \in {"final", "next", "sent", "cleanup"}
        /\ \A q \in Proc \ {p} : mpc'[q] = mpc[q]
    BY <1>a, <1>5 DEF CommitAndContinue, NextStarted, ClaimFollowUp, FollowUpSent, StepMon
  <2>3. UNCHANGED <<row, rows, os, child, store, finished, rpc, req,
                    server, scan, struck, cut>>
    BY <1>5 DEF CommitAndContinue, NextStarted, ClaimFollowUp, FollowUpSent,
       dbVars, memVars, reqVars, bootVars
  <2>4. QED
    BY <1>b, <2>1, <2>2, <2>3 DEF MonEffect, Unwritten
<1>6. CASE Cleanup(p)
  BY <1>a, <1>b, <1>c, <1>6 DEF Cleanup, Release, StepMon, MonEffect, CallMoves,
     Unwritten, dbVars, reqVars, bootVars
<1>7. QED
  BY <1>1, <1>2, <1>3, <1>4, <1>5, <1>6 DEF spawn_exit_monitor

(* The effect of any step of a handler outside stop_execution.  A call that is
   dropped before its spawn leaves its row to cut. *)
HandlerEffect(r) ==
    /\ \A s \in Req \ {r} : rpc'[s] = rpc[s] /\ req'[s] = req[s]
    /\ rpc'[r] \notin InStop
    /\ call[r].pc = "spawn" /\ call'[r].pc # "spawn" => call[r].proc \in cut'
    /\ call'[r].pc = "spawn" => call'[r] = call[r]
    /\ \A d \in Caller \ {r} : call'[d] = call[d]
    /\ call'[r].pc # "idle" => rpc'[r] \in {"await", "sent"}
    /\ cut \subseteq cut'
    /\ server = "up" \/ rpc[r] # "idle"
    /\ UNCHANGED <<row, rows, os, child, store, finished, mpc, server, scan, struck>>

(* Every step of a handler outside stop_execution has that effect. *)
LEMMA HandlerEffects ==
    ASSUME TypeOK, Awaited, NEW r \in Req,
           \/ Request(r) \/ StopResponds(r) \/ DropAndRestart(r) \/ DevServerStarts(r)
           \/ StartResponds(r) \/ QueueChecks(r) \/ QueueClaims(r) \/ QueueSent(r)
           \/ Disconnect(r)
    PROVE  HandlerEffect(r)
<1>a. /\ \A s \in Req \ {r} : rpc'[s] = rpc[s] /\ req'[s] = req[s]
      /\ rpc'[r] \notin InStop
      /\ UNCHANGED <<row, rows, os, child, store, finished, mpc, server, scan, struck>>
  BY HandlerFrame
<1>b. r \in Caller /\ rpc \in [Req -> ReqPc]
  BY DEF Caller, TypeOK
<1>1. CASE \/ StartAttempt(r) \/ FollowUp(r) \/ DropAndRestart(r)
           \/ DevServerStarts(r) \/ StartResponds(r) \/ QueueClaims(r) \/ QueueSent(r)
  <2>1. CallMoves(r) /\ (call'[r].pc # "idle" => rpc'[r] \in {"await", "sent"})
    BY <1>1, HandlerCalls
  <2>2. UNCHANGED cut /\ (server = "up" \/ rpc[r] # "idle")
    BY <1>1 DEF StartAttempt, FollowUp, Accept, DropAndRestart, DevServerStarts, StopsDone,
       StartResponds, QueueClaims, QueueSent
  <2>3. QED
    BY <1>a, <1>b, <2>1, <2>2 DEF HandlerEffect, CallMoves
<1>2. CASE \/ Retry(r) \/ Replace(r) \/ StartDevServer(r) \/ StopProcess(r)
           \/ StopAttempt(r) \/ QueueFollowUp(r) \/ UnqueueFollowUp(r)
  <2>1. UNCHANGED <<call, cut>> /\ server = "up" /\ rpc[r] = "idle"
    BY <1>2 DEF Retry, Replace, RestartFrom, StartDevServer, StopProcess, StopAttempt,
       QueueFollowUp, UnqueueFollowUp, Accept
  <2>2. QED
    BY <1>a, <1>b, <2>1 DEF HandlerEffect, Awaited
<1>3. CASE StopResponds(r) \/ QueueChecks(r)
  <2>1. UNCHANGED <<call, cut>> /\ rpc[r] \in {"stop", "running"}
    BY <1>3 DEF StopResponds, StopsDone, QueueChecks
  <2>2. QED
    BY <1>a, <1>b, <2>1 DEF HandlerEffect, Awaited
<1>4. CASE Disconnect(r)
  <2>1. call'[r].pc = "idle" /\ \A d \in Caller \ {r} : call'[d] = call[d]
    BY <1>b, <1>4 DEF Disconnect, TypeOK, NoCall
  <2>2. /\ rpc[r] # "idle" /\ cut \subseteq cut'
        /\ call[r].pc = "spawn" => call[r].proc \in cut'
    BY <1>4 DEF Disconnect
  <2>3. QED
    BY <1>a, <1>b, <2>1, <2>2 DEF HandlerEffect
<1>5. QED
  BY <1>1, <1>2, <1>3, <1>4 DEF Request

----------------------------------------------------------------------------
(* Every step keeps the inductive invariant.                               *)

(* The new row has no trace yet, and the call that created it owns it. *)
LEMMA CreateRowInv ==
    ASSUME IInv, NEW c \in Caller, CreateRow(c)
    PROVE  Inv'
<1>a. TypeOK /\ Inv
  BY DEF IInv
<1>c. Req \subseteq Caller /\ Proc \subseteq Caller
  BY DEF Caller
<1>e. /\ rows' \in Proc /\ rows' = rows + 1 /\ rows \in Int
      /\ call'[c].pc = "spawn" /\ call'[c].proc = rows'
      /\ \A d \in Caller \ {c} : call'[d] = call[d]
  BY <1>a, LifecycleAssumption DEF TypeOK, CreateRow, StartCall, Proc
<1>1. FreshRows'
  BY <1>a, <1>e DEF TypeOK, RowState, RowStatus, Inv, FreshRows, Untouched, Proc,
     CreateRow, memVars, monVars, reqVars, bootVars
<1>2. Spawning'
  BY <1>a, <1>c, <1>e DEF TypeOK, Inv, Spawning, FreshRows, Untouched, Proc,
     CreateRow, memVars, monVars, reqVars, bootVars
<1>3. Awaited'
  BY <1>a, <1>c, <1>e DEF TypeOK, Inv, Awaited, CreateRow, memVars, monVars,
     reqVars, bootVars
<1>4. Stopping'
  BY <1>a, <1>e DEF TypeOK, Inv, Stopping, FreshRows, Untouched, Proc, CreateRow,
     memVars, monVars, reqVars, bootVars
<1>5. Quiet'
  BY <1>a, <1>c, <1>e DEF TypeOK, Inv, Quiet, Running, CreateRow, memVars, monVars,
     reqVars, bootVars
<1>6. RunningIsOwned'
  BY <1>a, <1>c, <1>e DEF TypeOK, Inv, RunningIsOwned, Starting, Running, Unwritten,
     CreateRow, memVars, monVars, reqVars, bootVars
<1>7. KillSticks'
  BY <1>a, <1>e DEF TypeOK, Inv, KillSticks, FreshRows, Untouched, Proc, CreateRow,
     memVars, monVars, reqVars, bootVars
<1>8. (Stored /\ Struck /\ LiveIsTracked /\ ReleasedWhenDone)'
  BY <1>a DEF Inv, Stored, Struck, LiveIsTracked, ReleasedWhenDone, CreateRow,
     memVars, monVars, reqVars, bootVars
<1>9. QED
  BY <1>1, <1>2, <1>3, <1>4, <1>5, <1>6, <1>7, <1>8 DEF Inv

(* The child gets its monitor and its map entries in the step that makes it alive. *)
LEMMA SpawnChildInv ==
    ASSUME IInv, NEW c \in Caller, SpawnChild(c)
    PROVE  Inv'
<1>a. TypeOK /\ Inv
  BY DEF IInv
<1>c. Req \subseteq Caller /\ Proc \subseteq Caller
  BY DEF Caller
<1>e. /\ call'[c].pc \in {"ok", "fail", "err"} /\ call[c].proc \in Proc
      /\ \A d \in Caller \ {c} : call'[d] = call[d]
  BY <1>a, PcEffect DEF TypeOK, SpawnChild, StartCall, CallPc
<1>1. FreshRows'
  BY <1>a, <1>e DEF TypeOK, Inv, FreshRows, Spawning, Untouched, SpawnChild, dbVars,
     reqVars, bootVars
<1>2. Spawning'
  BY <1>a, <1>c, <1>e DEF TypeOK, Inv, Spawning, Untouched, SpawnChild, dbVars,
     reqVars, bootVars
<1>3. Awaited'
  BY <1>a, <1>c, <1>e DEF TypeOK, Inv, Awaited, Spawning, Untouched, SpawnChild,
     dbVars, reqVars, bootVars
<1>4. Stopping'
  BY <1>a, <1>e DEF TypeOK, Inv, Stopping, Spawning, Untouched, SpawnChild, dbVars,
     reqVars, bootVars
<1>5. Quiet'
  BY <1>a, <1>c, <1>e DEF TypeOK, Inv, Quiet, Running, SpawnChild, dbVars, reqVars,
     bootVars
<1>6. Stored'
  BY <1>a, <1>e DEF TypeOK, Inv, Stored, Spawning, Untouched, SpawnChild, dbVars,
     reqVars, bootVars
<1>7. Struck'
  BY <1>a, <1>e DEF TypeOK, Inv, Struck, SpawnChild, dbVars, reqVars, bootVars
<1>8. LiveIsTracked'
  BY <1>a, <1>e DEF TypeOK, Inv, LiveIsTracked, SpawnChild, dbVars, reqVars,
     bootVars
<1>9. RunningIsOwned'
  BY <1>a, <1>c, <1>e DEF TypeOK, Inv, RunningIsOwned, Starting, Running, Unwritten,
     SpawnChild, dbVars, reqVars, bootVars
<1>10. ReleasedWhenDone'
  BY <1>a, <1>e DEF TypeOK, Inv, ReleasedWhenDone, SpawnChild, dbVars, reqVars,
     bootVars
<1>11. (KillSticks)'
  BY <1>a DEF Inv, KillSticks, SpawnChild, dbVars, reqVars, bootVars
<1>12. QED
  BY <1>1, <1>2, <1>3, <1>4, <1>5, <1>6, <1>7, <1>8, <1>9, <1>10, <1>11 DEF Inv

(* The row that a failed spawn leaves behind is Failed, and no stop has touched it. *)
LEMMA SpawnFailsInv ==
    ASSUME IInv, NEW c \in Caller, SpawnFails(c)
    PROVE  Inv'
<1>a. TypeOK /\ Inv
  BY DEF IInv
<1>c. Req \subseteq Caller /\ Proc \subseteq Caller
  BY DEF Caller
<1>e. /\ call'[c].pc \in {"ok", "fail", "err"} /\ call[c].proc \in Proc
      /\ \A d \in Caller \ {c} : call'[d] = call[d]
  BY <1>a, PcEffect DEF TypeOK, SpawnFails, StartCall, CallPc
<1>1. FreshRows'
  BY <1>a, <1>e DEF TypeOK, RowState, RowStatus, Inv, FreshRows, Spawning,
     Untouched, SpawnFails, memVars, monVars, reqVars, bootVars
<1>2. Spawning'
  BY <1>a, <1>c, <1>e DEF TypeOK, Inv, Spawning, Untouched, SpawnFails, memVars,
     monVars, reqVars, bootVars
<1>3. Awaited'
  BY <1>a, <1>c, <1>e DEF TypeOK, Inv, Awaited, SpawnFails, memVars, monVars,
     reqVars, bootVars
<1>4. Stopping'
  BY <1>a, <1>e DEF TypeOK, Inv, Stopping, Spawning, Untouched, SpawnFails, memVars,
     monVars, reqVars, bootVars
<1>5. Quiet'
  BY <1>a, <1>c, <1>e DEF TypeOK, Inv, Quiet, Running, SpawnFails, memVars, monVars,
     reqVars, bootVars
<1>6. RunningIsOwned'
  BY <1>a, <1>c, <1>e DEF TypeOK, Inv, RunningIsOwned, Starting, Running, Unwritten,
     SpawnFails, memVars, monVars, reqVars, bootVars
<1>7. KillSticks'
  BY <1>a, <1>e DEF TypeOK, Inv, KillSticks, Spawning, Untouched, SpawnFails,
     memVars, monVars, reqVars, bootVars
<1>8. (Stored /\ Struck /\ LiveIsTracked /\ ReleasedWhenDone)'
  BY <1>a DEF Inv, Stored, Struck, LiveIsTracked, ReleasedWhenDone, SpawnFails,
     memVars, monVars, reqVars, bootVars
<1>9. QED
  BY <1>1, <1>2, <1>3, <1>4, <1>5, <1>6, <1>7, <1>8 DEF Inv

(* The error path of start_execution touches no execution. *)
LEMMA ReviewAfterStartErrorInv ==
    ASSUME IInv, NEW c \in Caller, ReviewAfterStartError(c)
    PROVE  Inv'
<1>a. TypeOK /\ Inv
  BY DEF IInv
<1>c. Req \subseteq Caller /\ Proc \subseteq Caller
  BY DEF Caller
<1>e. /\ call'[c].pc \in {"ok", "fail", "err"} /\ call[c].proc \in Proc
      /\ \A d \in Caller \ {c} : call'[d] = call[d]
  BY <1>a, PcEffect DEF TypeOK, ReviewAfterStartError, StartCall, CallPc
<1>1. Spawning'
  BY <1>a, <1>c, <1>e DEF TypeOK, Inv, Spawning, Untouched, ReviewAfterStartError,
     memVars, monVars, reqVars, bootVars
<1>2. Awaited'
  BY <1>a, <1>c, <1>e DEF TypeOK, Inv, Awaited, ReviewAfterStartError, memVars,
     monVars, reqVars, bootVars
<1>3. Quiet'
  BY <1>a, <1>c, <1>e DEF TypeOK, Inv, Quiet, Running, ReviewAfterStartError,
     memVars, monVars, reqVars, bootVars
<1>4. RunningIsOwned'
  BY <1>a, <1>c, <1>e DEF TypeOK, Inv, RunningIsOwned, Starting, Running, Unwritten,
     ReviewAfterStartError, memVars, monVars, reqVars, bootVars
<1>5. (/\ FreshRows /\ Stopping /\ Stored /\ Struck
       /\ LiveIsTracked /\ KillSticks /\ ReleasedWhenDone)'
  BY <1>a DEF Inv, FreshRows, Stopping, Stored, Struck, LiveIsTracked, KillSticks,
     ReleasedWhenDone, Untouched, ReviewAfterStartError, memVars, monVars, reqVars,
     bootVars
<1>6. QED
  BY <1>1, <1>2, <1>3, <1>4, <1>5 DEF Inv

(* The exit monitor: it leaves no live child behind, releases the maps last, and
   never overwrites the row of a process that was killed alive. *)
LEMMA MonitorInv ==
    ASSUME IInv, NEW p \in Proc, MonEffect(p)
    PROVE  Inv'
<1>a. TypeOK /\ Inv
  BY DEF IInv
<1>c. Req \subseteq Caller /\ Proc \subseteq Caller
  BY DEF Caller
<1>1. FreshRows'
  BY <1>a DEF TypeOK, RowState, RowStatus, Inv, FreshRows, Untouched, MonEffect,
     Release, CallMoves
<1>2. Spawning'
  <2>1. \A d \in Caller : call'[d].pc = "spawn" =>
            call[d].pc = "spawn" /\ call'[d] = call[d]
    BY <1>a, <1>c DEF MonEffect, CallMoves
  <2>2. \A q \in Proc : row[q] = "Running" /\ Untouched(q) =>
            row'[q] = "Running" /\ Untouched(q)'
    BY <1>a DEF TypeOK, MonEffect, Untouched, Release
  <2>3. QED
    BY <1>a, <2>1, <2>2 DEF Inv, Spawning
<1>3. Awaited'
  <2>1. \A r \in Req : r \in Caller \ {p}
    BY <1>c, LifecycleAssumption DEF Proc
  <2>2. QED
    BY <1>a, <1>c, <2>1 DEF Inv, Awaited, MonEffect, CallMoves
<1>4. Stopping'
  BY <1>a DEF TypeOK, Inv, Stopping, MonEffect, Release, CallMoves
<1>5. Quiet'
  BY <1>a, <1>c DEF TypeOK, Inv, Quiet, Running, MonEffect, Release, CallMoves
<1>6. Stored'
  BY <1>a DEF TypeOK, Inv, Stored, MonEffect, Release, CallMoves
<1>7. Struck'
  BY <1>a DEF TypeOK, Inv, Struck, KillSticks, MonEffect, Release, CallMoves
<1>8. LiveIsTracked'
  BY <1>a DEF TypeOK, Inv, LiveIsTracked, MonEffect, Release, CallMoves
<1>9. RunningIsOwned'
  <2>1. SUFFICES ASSUME server = "up", NEW q \in Proc, row'[q] = "Running"
                 PROVE  Starting(q)' \/ mpc'[q] \in Unwritten \/ q \in cut
    BY DEF RunningIsOwned, Running, MonEffect
  <2>2. row[q] = "Running"
    BY <2>1 DEF MonEffect
  <2>3. Starting(q) \/ mpc[q] \in Unwritten \/ q \in cut
    BY <1>a, <2>1, <2>2 DEF Inv, RunningIsOwned, Running
  <2>4. Starting(q) => Starting(q)'
    BY <1>c DEF Starting, MonEffect, CallMoves
  <2>5. QED
    BY <2>1, <2>3, <2>4 DEF MonEffect
<1>10. KillSticks'
  BY <1>a DEF TypeOK, Inv, KillSticks, Struck, MonEffect, Release, CallMoves
<1>11. ReleasedWhenDone'
  BY <1>a DEF TypeOK, Inv, ReleasedWhenDone, Stored, MonEffect, Release, CallMoves
<1>12. QED
  BY <1>1, <1>2, <1>3, <1>4, <1>5, <1>6, <1>7, <1>8, <1>9, <1>10, <1>11 DEF Inv

(* A child that exits by itself changes nothing that the server knows. *)
LEMMA ChildExitsInv ==
    ASSUME IInv, NEW p \in Proc, ChildExits(p)
    PROVE  Inv'
<1>a. TypeOK /\ Inv
  BY DEF IInv
<1>1. FreshRows'
  BY <1>a DEF TypeOK, Inv, FreshRows, Untouched, ChildExits, Exited, dbVars,
     memVars, monVars, reqVars, bootVars
<1>2. Spawning'
  BY <1>a DEF TypeOK, Inv, Spawning, Untouched, ChildExits, Exited, dbVars, memVars,
     monVars, reqVars, bootVars
<1>3. Stopping'
  BY <1>a DEF TypeOK, Inv, Stopping, ChildExits, Exited, dbVars, memVars, monVars,
     reqVars, bootVars
<1>4. LiveIsTracked'
  BY <1>a DEF TypeOK, Inv, LiveIsTracked, ChildExits, Exited, dbVars, memVars,
     monVars, reqVars, bootVars
<1>5. (/\ Awaited /\ Quiet /\ Stored /\ Struck
       /\ RunningIsOwned /\ KillSticks /\ ReleasedWhenDone)'
  BY <1>a DEF Inv, Awaited, Quiet, Stored, Struck, RunningIsOwned, KillSticks,
     ReleasedWhenDone, Running, Starting, Unwritten, ChildExits, dbVars, memVars,
     monVars, reqVars, bootVars
<1>6. QED
  BY <1>1, <1>2, <1>3, <1>4, <1>5 DEF Inv

(* Handlers outside stop_execution only move their own calls and locals. *)
LEMMA HandlerInv ==
    ASSUME IInv, NEW r \in Req, HandlerEffect(r)
    PROVE  Inv'
<1>a. TypeOK /\ Inv
  BY DEF IInv
<1>c. Req \subseteq Caller /\ Proc \subseteq Caller
  BY DEF Caller
<1>1. Spawning'
  <2>1. \A d \in Caller : call'[d].pc = "spawn" =>
            call[d].pc = "spawn" /\ call'[d] = call[d]
    BY <1>a, <1>c DEF HandlerEffect, CallMoves
  <2>2. QED
    BY <1>a, <2>1 DEF Inv, Spawning, HandlerEffect, Untouched
<1>2. Awaited'
  <2>1. \A p \in Proc : p \in Caller \ {r}
    BY <1>c, LifecycleAssumption DEF Proc
  <2>2. QED
    BY <1>a, <1>c, <2>1 DEF Inv, Awaited, HandlerEffect
<1>3. Stopping'
  BY <1>a DEF TypeOK, Inv, Stopping, InStop, HandlerEffect
<1>4. Quiet'
  BY <1>a, <1>c DEF TypeOK, Inv, Quiet, Running, HandlerEffect
<1>5. RunningIsOwned'
  BY <1>a, <1>c DEF TypeOK, Inv, RunningIsOwned, Starting, Running, Unwritten,
     HandlerEffect
<1>6. (/\ FreshRows /\ Stored /\ Struck
       /\ LiveIsTracked /\ KillSticks /\ ReleasedWhenDone)'
  BY <1>a DEF Inv, FreshRows, Stored, Struck, LiveIsTracked, KillSticks,
     ReleasedWhenDone, Untouched, HandlerEffect
<1>7. QED
  BY <1>1, <1>2, <1>3, <1>4, <1>5, <1>6 DEF Inv

(* stop_execution goes on only with a process whose handle it has found. *)
LEMMA StopLookupInv ==
    ASSUME IInv, NEW r \in Req, StopLookup(r)
    PROVE  Inv'
<1>a. TypeOK /\ Inv
  BY DEF IInv
<1>c. Req \subseteq Caller /\ Proc \subseteq Caller
  BY DEF Caller
<1>1. Awaited'
  BY <1>a, <1>c DEF TypeOK, Inv, Awaited, StopLookup, StepReq, dbVars, memVars,
     monVars, bootVars
<1>2. Stopping'
  BY <1>a DEF TypeOK, ReqLocals, Inv, Stopping, Stored, StopLookup, StepReq, dbVars,
     memVars, monVars, bootVars
<1>3. Quiet'
  BY <1>a, <1>c DEF TypeOK, Inv, Quiet, Running, StopLookup, StepReq, dbVars,
     memVars, monVars, bootVars
<1>4. (/\ FreshRows /\ Spawning /\ Stored /\ Struck
       /\ LiveIsTracked /\ RunningIsOwned /\ KillSticks /\ ReleasedWhenDone)'
  BY <1>a DEF Inv, FreshRows, Spawning, Stored, Struck, LiveIsTracked,
     RunningIsOwned, KillSticks, ReleasedWhenDone, Untouched, Starting, Running,
     Unwritten, StopLookup, dbVars, memVars, monVars, bootVars
<1>5. QED
  BY <1>1, <1>2, <1>3, <1>4 DEF Inv

(* The row is Killed before the child is. *)
LEMMA StopUpdateInv ==
    ASSUME IInv, NEW r \in Req, StopUpdate(r)
    PROVE  Inv'
<1>a. TypeOK /\ Inv
  BY DEF IInv
<1>c. Req \subseteq Caller /\ Proc \subseteq Caller
  BY DEF Caller
<1>d. req[r].cur \in Proc
  BY <1>a DEF TypeOK, ReqLocals
<1>1. FreshRows'
  BY <1>a, <1>d DEF TypeOK, RowState, RowStatus, Inv, FreshRows, Stopping,
     Untouched, StopUpdate, StepReq, memVars, monVars, bootVars
<1>2. Spawning'
  BY <1>a, <1>c, <1>d DEF TypeOK, Inv, Spawning, Stopping, Untouched, StopUpdate,
     StepReq, memVars, monVars, bootVars
<1>3. Awaited'
  BY <1>a, <1>c, <1>d DEF TypeOK, Inv, Awaited, StopUpdate, StepReq, memVars,
     monVars, bootVars
<1>4. Stopping'
  BY <1>a, <1>d DEF TypeOK, Inv, Stopping, StopUpdate, StepReq, memVars, monVars,
     bootVars
<1>5. Quiet'
  BY <1>a, <1>c, <1>d DEF TypeOK, Inv, Quiet, Running, StopUpdate, StepReq, memVars,
     monVars, bootVars
<1>6. RunningIsOwned'
  BY <1>a, <1>c, <1>d DEF TypeOK, Inv, RunningIsOwned, Starting, Running, Unwritten,
     StopUpdate, StepReq, memVars, monVars, bootVars
<1>7. KillSticks'
  BY <1>a, <1>d DEF TypeOK, Inv, KillSticks, StopUpdate, StepReq, memVars, monVars,
     bootVars
<1>8. (Stored /\ Struck /\ LiveIsTracked /\ ReleasedWhenDone)'
  BY <1>a DEF Inv, Stored, Struck, LiveIsTracked, ReleasedWhenDone, StopUpdate,
     memVars, monVars, bootVars
<1>9. QED
  BY <1>1, <1>2, <1>3, <1>4, <1>5, <1>6, <1>7, <1>8 DEF Inv

(* A child killed alive has a Killed row and a monitor that still polls. *)
LEMMA StopKillInv ==
    ASSUME IInv, NEW r \in Req, StopKill(r)
    PROVE  Inv'
<1>a. TypeOK /\ Inv
  BY DEF IInv
<1>c. Req \subseteq Caller /\ Proc \subseteq Caller
  BY DEF Caller
<1>d. req[r].cur \in Proc
  BY <1>a DEF TypeOK, ReqLocals
<1>1. FreshRows'
  <2>1. \A q \in Proc : os[q] = "none" => os'[q] = "none"
    BY <1>a, <1>d DEF TypeOK, StopKill
  <2>2. QED
    BY <1>a, <2>1 DEF Inv, FreshRows, Untouched, StopKill, dbVars, memVars, monVars
<1>2. Spawning'
  BY <1>a, <1>c, <1>d DEF TypeOK, Inv, Spawning, Untouched, StopKill, StepReq,
     Exited, dbVars, memVars, monVars, bootVars
<1>3. Awaited'
  BY <1>a, <1>c, <1>d DEF TypeOK, Inv, Awaited, StopKill, StepReq, Exited, dbVars,
     memVars, monVars, bootVars
<1>4. Stopping'
  BY <1>a, <1>d DEF TypeOK, Inv, Stopping, StopKill, StepReq, Exited, dbVars,
     memVars, monVars, bootVars
<1>5. Quiet'
  BY <1>a, <1>c, <1>d DEF TypeOK, Inv, Quiet, Running, StopKill, StepReq, Exited,
     dbVars, memVars, monVars, bootVars
<1>6. Struck'
  BY <1>a, <1>d DEF TypeOK, Inv, Struck, LiveIsTracked, StopKill, StepReq, Exited,
     dbVars, memVars, monVars, bootVars
<1>7. LiveIsTracked'
  BY <1>a, <1>d DEF TypeOK, Inv, LiveIsTracked, StopKill, StepReq, Exited, dbVars,
     memVars, monVars, bootVars
<1>8. KillSticks'
  <2>1. struck' = struck \/ (struck' = struck \cup {req[r].cur} /\ os[req[r].cur] = "alive")
    BY DEF StopKill
  <2>2. rpc[r] = "kill" /\ UNCHANGED row
    BY DEF StopKill, dbVars
  <2>3. QED
    BY <1>a, <1>d, <2>1, <2>2 DEF Inv, KillSticks, Stopping
<1>9. (Stored /\ RunningIsOwned /\ ReleasedWhenDone)'
  BY <1>a DEF Inv, Stored, RunningIsOwned, ReleasedWhenDone, Starting, Running,
     Unwritten, StopKill, dbVars, memVars, monVars, bootVars
<1>10. QED
  BY <1>1, <1>2, <1>3, <1>4, <1>5, <1>6, <1>7, <1>8, <1>9 DEF Inv

(* The maps are released only when the child is dead. *)
LEMMA StopReleaseInv ==
    ASSUME IInv, NEW r \in Req, StopRelease(r)
    PROVE  Inv'
<1>a. TypeOK /\ Inv
  BY DEF IInv
<1>c. Req \subseteq Caller /\ Proc \subseteq Caller
  BY DEF Caller
<1>d. req[r].cur \in Proc
  BY <1>a DEF TypeOK, ReqLocals
<1>1. FreshRows'
  BY <1>a, <1>d DEF TypeOK, Inv, FreshRows, Untouched, StopRelease, StepReq,
     Release, dbVars, monVars, bootVars
<1>2. Spawning'
  BY <1>a, <1>c, <1>d DEF TypeOK, Inv, Spawning, Untouched, StopRelease, StepReq,
     Release, dbVars, monVars, bootVars
<1>3. Awaited'
  BY <1>a, <1>c, <1>d DEF TypeOK, Inv, Awaited, StopRelease, StepReq, Release,
     dbVars, monVars, bootVars
<1>4. Stopping'
  BY <1>a, <1>d DEF TypeOK, Inv, Stopping, StopRelease, StepReq, Release, dbVars,
     monVars, bootVars
<1>5. Quiet'
  BY <1>a, <1>c, <1>d DEF TypeOK, Inv, Quiet, Running, StopRelease, StepReq,
     Release, dbVars, monVars, bootVars
<1>6. Stored'
  BY <1>a, <1>d DEF TypeOK, Inv, Stored, StopRelease, StepReq, Release, dbVars,
     monVars, bootVars
<1>7. LiveIsTracked'
  BY <1>a, <1>d DEF TypeOK, Inv, LiveIsTracked, Stopping, StopRelease, StepReq,
     Release, dbVars, monVars, bootVars
<1>8. ReleasedWhenDone'
  BY <1>a, <1>d DEF TypeOK, Inv, ReleasedWhenDone, Stored, StopRelease, StepReq,
     Release, dbVars, monVars, bootVars
<1>9. (Struck /\ RunningIsOwned /\ KillSticks)'
  BY <1>a DEF Inv, Struck, RunningIsOwned, KillSticks, Starting, Running, Unwritten,
     StopRelease, dbVars, monVars, bootVars
<1>10. QED
  BY <1>1, <1>2, <1>3, <1>4, <1>5, <1>6, <1>7, <1>8, <1>9 DEF Inv

(* The last step of stop_execution touches no execution. *)
LEMMA StopReviewInv ==
    ASSUME IInv, NEW r \in Req, StopReview(r)
    PROVE  Inv'
<1>a. TypeOK /\ Inv
  BY DEF IInv
<1>c. Req \subseteq Caller /\ Proc \subseteq Caller
  BY DEF Caller
<1>d. req[r].cur \in Proc
  BY <1>a DEF TypeOK, ReqLocals
<1>1. Awaited'
  BY <1>a, <1>c, <1>d DEF TypeOK, Inv, Awaited, StopReview, StepReq, memVars,
     monVars, bootVars
<1>2. Stopping'
  BY <1>a, <1>d DEF TypeOK, Inv, Stopping, StopReview, StepReq, memVars, monVars,
     bootVars
<1>3. Quiet'
  BY <1>a, <1>c, <1>d DEF TypeOK, Inv, Quiet, Running, StopReview, StepReq, memVars,
     monVars, bootVars
<1>4. (/\ FreshRows /\ Spawning /\ Stored /\ Struck
       /\ LiveIsTracked /\ RunningIsOwned /\ KillSticks /\ ReleasedWhenDone)'
  BY <1>a DEF Inv, FreshRows, Spawning, Stored, Struck, LiveIsTracked,
     RunningIsOwned, KillSticks, ReleasedWhenDone, Untouched, Starting, Running,
     Unwritten, StopReview, memVars, monVars, bootVars
<1>5. QED
  BY <1>1, <1>2, <1>3, <1>4 DEF Inv

(* A crash leaves rows and children without owner, and a server that is not up. *)
LEMMA CrashInv ==
    ASSUME IInv, Crash
    PROVE  Inv'
<1>a. TypeOK /\ Inv
  BY DEF IInv
<1>1. FreshRows'
  BY <1>a DEF TypeOK, Inv, FreshRows, Untouched, Crash, NoCall, dbVars
<1>2. Spawning'
  BY <1>a DEF TypeOK, Inv, Spawning, Untouched, Crash, NoCall, dbVars
<1>3. Awaited'
  BY <1>a DEF TypeOK, Inv, Awaited, Caller, Crash, NoCall, dbVars
<1>4. Stopping'
  BY <1>a DEF TypeOK, Inv, Stopping, Crash, NoCall, dbVars
<1>5. Quiet'
  BY <1>a DEF TypeOK, Inv, Quiet, Running, Crash, NoCall, dbVars
<1>6. Stored'
  BY <1>a DEF TypeOK, Inv, Stored, Crash, NoCall, dbVars
<1>7. Struck'
  BY <1>a DEF TypeOK, Inv, Struck, Crash, NoCall, dbVars
<1>8. LiveIsTracked'
  BY <1>a DEF TypeOK, Inv, LiveIsTracked, Crash, NoCall, dbVars
<1>9. RunningIsOwned'
  BY <1>a DEF TypeOK, Inv, RunningIsOwned, Starting, Running, Unwritten, Crash,
     NoCall, dbVars
<1>10. ReleasedWhenDone'
  BY <1>a DEF TypeOK, Inv, ReleasedWhenDone, Crash, NoCall, dbVars
<1>11. (KillSticks)'
  BY <1>a DEF Inv, KillSticks, Crash, dbVars
<1>12. QED
  BY <1>1, <1>2, <1>3, <1>4, <1>5, <1>6, <1>7, <1>8, <1>9, <1>10, <1>11 DEF Inv

(* The start-up scan reads all running rows. *)
LEMMA RestartInv ==
    ASSUME IInv, Restart
    PROVE  Inv'
<1>a. TypeOK /\ Inv
  BY DEF IInv
<1>1. Quiet'
  BY <1>a DEF TypeOK, Inv, Quiet, Running, Restart, dbVars, memVars, monVars,
     reqVars
<1>2. RunningIsOwned'
  BY <1>a DEF TypeOK, Inv, RunningIsOwned, Starting, Running, Unwritten, Restart,
     dbVars, memVars, monVars, reqVars
<1>3. (/\ FreshRows /\ Spawning /\ Awaited /\ Stopping /\ Stored
       /\ Struck /\ LiveIsTracked /\ KillSticks /\ ReleasedWhenDone)'
  BY <1>a DEF Inv, FreshRows, Spawning, Awaited, Stopping, Stored, Struck,
     LiveIsTracked, KillSticks, ReleasedWhenDone, Untouched, Restart, dbVars,
     memVars, monVars, reqVars
<1>4. QED
  BY <1>1, <1>2, <1>3 DEF Inv

(* The start-up scan fails rows that no stop has killed. *)
LEMMA FailOrphanInv ==
    ASSUME IInv, FailOrphan
    PROVE  Inv'
<1>a. TypeOK /\ Inv
  BY DEF IInv
<1>1. FreshRows'
  BY <1>a DEF TypeOK, RowState, RowStatus, Inv, FreshRows, Quiet, Untouched,
     Running, FailOrphan, memVars, monVars, reqVars
<1>2. Spawning'
  BY <1>a DEF TypeOK, Inv, Spawning, Quiet, Untouched, Running, FailOrphan, memVars,
     monVars, reqVars
<1>3. Stopping'
  BY <1>a DEF TypeOK, Inv, Stopping, Quiet, Running, FailOrphan, memVars, monVars,
     reqVars
<1>4. Quiet'
  BY <1>a DEF TypeOK, Inv, Quiet, Running, FailOrphan, memVars, monVars, reqVars
<1>5. RunningIsOwned'
  BY <1>a DEF TypeOK, Inv, RunningIsOwned, Starting, Running, Unwritten, FailOrphan,
     memVars, monVars, reqVars
<1>6. KillSticks'
  BY <1>a DEF TypeOK, Inv, KillSticks, Quiet, Running, FailOrphan, memVars, monVars,
     reqVars
<1>7. (Awaited /\ Stored /\ Struck /\ LiveIsTracked /\ ReleasedWhenDone)'
  BY <1>a DEF Inv, Awaited, Stored, Struck, LiveIsTracked, ReleasedWhenDone,
     FailOrphan, memVars, monVars, reqVars
<1>8. QED
  BY <1>1, <1>2, <1>3, <1>4, <1>5, <1>6, <1>7 DEF Inv

(* The server is up only when the scan has left no running row. *)
LEMMA ServeInv ==
    ASSUME IInv, Serve
    PROVE  Inv'
<1>a. TypeOK /\ Inv
  BY DEF IInv
<1>1. Quiet'
  BY <1>a DEF TypeOK, Inv, Quiet, Running, Serve, dbVars, memVars, monVars, reqVars
<1>2. RunningIsOwned'
  BY <1>a DEF TypeOK, Inv, RunningIsOwned, Quiet, Starting, Running, Unwritten,
     Serve, dbVars, memVars, monVars, reqVars
<1>3. (/\ FreshRows /\ Spawning /\ Awaited /\ Stopping /\ Stored
       /\ Struck /\ LiveIsTracked /\ KillSticks /\ ReleasedWhenDone)'
  BY <1>a DEF Inv, FreshRows, Spawning, Awaited, Stopping, Stored, Struck,
     LiveIsTracked, KillSticks, ReleasedWhenDone, Untouched, Serve, dbVars, memVars,
     monVars, reqVars
<1>4. QED
  BY <1>1, <1>2, <1>3 DEF Inv

(* Steps that change nothing the invariant speaks of. *)
LEMMA FrameInv ==
    ASSUME IInv, ReviewOrphan \/ Rest \/ UNCHANGED vars
    PROVE  Inv'
<1>1. /\ UNCHANGED <<row, rows, os, child, store, finished, mpc, call, rpc, req>>
      /\ UNCHANGED <<server, scan, struck, cut>>
  BY DEF ReviewOrphan, Rest, vars, dbVars, memVars, monVars, reqVars, bootVars
<1>2. (FreshRows /\ Spawning /\ Awaited /\ Stopping /\ Quiet /\ Stored)'
  BY <1>1 DEF IInv, Inv, FreshRows, Spawning, Untouched, Awaited, Stopping, Quiet,
     Running, Stored
<1>3. (Struck /\ LiveIsTracked /\ RunningIsOwned /\ KillSticks /\ ReleasedWhenDone)'
  BY <1>1 DEF IInv, Inv, Struck, LiveIsTracked, RunningIsOwned, Running, Starting,
     KillSticks, ReleasedWhenDone
<1>4. QED
  BY <1>2, <1>3 DEF Inv

(* The invariant is inductive: it holds initially and every step keeps it. *)
LEMMA InvInit == Init => IInv
<1>1. SUFFICES ASSUME Init PROVE IInv
  OBVIOUS
<1>2. TypeOK
  BY <1>1, TypeInit
<1>3. FreshRows /\ Spawning /\ Awaited /\ Stopping
  BY <1>1, LifecycleAssumption
  DEF Init, FreshRows, Untouched, Spawning, Awaited, Stopping, NoCall, Proc, Caller
<1>4. Quiet /\ Stored /\ Struck /\ LiveIsTracked /\ RunningIsOwned
  BY <1>1 DEF Init, Quiet, Stored, Struck, LiveIsTracked, RunningIsOwned, Running
<1>5. KillSticks /\ ReleasedWhenDone
  BY <1>1 DEF Init, KillSticks, ReleasedWhenDone
<1>6. QED
  BY <1>2, <1>3, <1>4, <1>5 DEF IInv, Inv

(* Every step keeps the invariant: each action by the lemma for it above. *)
LEMMA InvStep == IInv /\ [Next]_vars => IInv'
<1>a. SUFFICES ASSUME IInv, [Next]_vars
               PROVE  IInv'
  OBVIOUS
<1>b. TypeOK /\ Awaited /\ LiveIsTracked
  BY <1>a DEF IInv, Inv
<1>1. TypeOK'
  BY <1>a, <1>b, TypeStep
<1>2. ASSUME NEW c \in Caller, start_execution(c)
      PROVE  Inv'
  BY <1>a, <1>2, CreateRowInv, SpawnChildInv, SpawnFailsInv, ReviewAfterStartErrorInv
  DEF start_execution
<1>3. ASSUME NEW p \in Proc, spawn_exit_monitor(p) \/ ExitSignal(p)
      PROVE  Inv'
  BY <1>a, <1>b, <1>3, MonitorEffect, MonitorInv
<1>4. ASSUME NEW p \in Proc, ChildExits(p)
      PROVE  Inv'
  BY <1>a, <1>4, ChildExitsInv
<1>5. ASSUME NEW r \in Req, stop_execution(r)
      PROVE  Inv'
  BY <1>a, <1>5, StopLookupInv, StopUpdateInv, StopKillInv, StopReleaseInv, StopReviewInv
  DEF stop_execution
<1>6. ASSUME NEW r \in Req,
             \/ Request(r) \/ StopResponds(r) \/ DropAndRestart(r) \/ DevServerStarts(r)
             \/ StartResponds(r) \/ QueueChecks(r) \/ QueueClaims(r) \/ QueueSent(r)
             \/ Disconnect(r)
      PROVE  Inv'
  BY <1>a, <1>b, <1>6, HandlerEffects, HandlerInv
<1>7. ASSUME Crash \/ Restart \/ FailOrphan \/ Serve
      PROVE  Inv'
  BY <1>a, <1>7, CrashInv, RestartInv, FailOrphanInv, ServeInv
<1>8. ASSUME ReviewOrphan \/ Rest \/ UNCHANGED vars
      PROVE  Inv'
  BY <1>a, <1>8, FrameInv
<1>9. Inv'
  BY <1>a, <1>2, <1>3, <1>4, <1>5, <1>6, <1>7, <1>8
  DEF Next, Handle, cleanup_orphan_executions
<1>10. QED
  BY <1>1, <1>9 DEF IInv

(* The inductive invariant holds in every state of every behaviour. *)
LEMMA Invariance == Spec => []IInv
  BY InvInit, InvStep, PTL DEF Spec

----------------------------------------------------------------------------
(* The safety theorems.                                                    *)

(* No order of starts, stops, exits, exit signals, disconnects and crashes
   leaves a live child that stop_execution cannot find or nobody waits for. *)
THEOREM LiveTracked == Spec => []LiveIsTracked
<1>1. IInv => LiveIsTracked
  BY DEF IInv, Inv
<1>2. QED
  BY <1>1, Invariance, PTL

(* While the server is up every Running row has a start_execution, a monitor
   before update_completion, or a start whose handler was dropped. *)
THEOREM RunningOwned == Spec => []RunningIsOwned
<1>1. IInv => RunningIsOwned
  BY DEF IInv, Inv
<1>2. QED
  BY <1>1, Invariance, PTL

(* The row of a process that stop_execution killed alive stays Killed, although
   was_stopped and update_completion are two queries. *)
THEOREM KillsStick == Spec => []KillSticks
<1>1. IInv => KillSticks
  BY DEF IInv, Inv
<1>2. QED
  BY <1>1, Invariance, PTL

(* A monitor that has ended has left no entry in child_store or msg_stores, and
   Finished was pushed exactly once. *)
THEOREM DoneReleased == Spec => []ReleasedWhenDone
<1>1. IInv => ReleasedWhenDone
  BY DEF IInv, Inv
<1>2. QED
  BY <1>1, Invariance, PTL

----------------------------------------------------------------------------
(* Chains of actions.  CleanupDone lets a monitor commit after a cleanup    *)
(* script whatever its status; that this never continues a chain rests on   *)
(* the form of the chains: a cleanup script is the last action of its own.  *)

(* After an agent comes at most one more action, its cleanup script. *)
EndsAfterAgent(ch) == \A i \in 1 .. Len(ch) : ch[i] = "Agent" => i >= Len(ch) - 1

(* What start_execution is given: nothing follows a cleanup script. *)
Startable(ch, rs) ==
    /\ ch \in Chain
    /\ EndsAfterAgent(ch)
    /\ rs = "CleanupScript" => Len(ch) <= 1

RowsStartable  == \A p \in Proc : Startable(chain[p], reason[p])
CallsStartable == \A c \in Caller : Startable(call[c].chain, call[c].reason)
ReqsStartable  == \A r \in Req : Startable(req[r].chain, "CodingAgent")

(* A monitor that commits and has a next action saw success, and the row of its
   process has not been failed since, nor the process killed alive. *)
CommitIsSound ==
    \A p \in Proc : mpc[p] = "commit" /\ HasNext(p)
        => row[p] \in {"Completed", "Killed"} /\ p \notin struck

ChainInv == RowsStartable /\ CallsStartable /\ ReqsStartable /\ CommitIsSound

(* The actions that handlers start have that form, and so has what is left of a
   chain after its first action. *)
LEMMA StartableChains ==
    /\ Startable(<<>>, "CodingAgent")
    /\ Startable(<<"Script">>, "DevServer")
    /\ \A ch \in AgentChains : Startable(ch, "CodingAgent")
    /\ \A ch \in AttemptChains : Startable(ch, "CodingAgent") /\ Startable(ch, "SetupScript")
<1>1. /\ \A ch \in AgentChains : EndsAfterAgent(ch)
      /\ EndsAfterAgent(<<>>) /\ EndsAfterAgent(<<"Script">>)
  BY DEF AgentChains, EndsAfterAgent
<1>2. <<>> \in Chain
  BY DEF Chain
<1>3. ASSUME NEW ch \in Chain, EndsAfterAgent(ch)
      PROVE  EndsAfterAgent(<<"Script">> \o ch)
  <2> DEFINE s == <<"Script">> \o ch
  <2>1. Len(ch) \in Nat /\ Len(s) = 1 + Len(ch)
    BY DEF Chain
  <2>2. \A i \in 1 .. Len(s) : s[i] = IF i = 1 THEN "Script" ELSE ch[i - 1]
    BY DEF Chain
  <2>3. QED
    BY <1>3, <2>1, <2>2 DEF EndsAfterAgent
<1>4. \A ch \in AttemptChains : EndsAfterAgent(ch)
  BY <1>1, <1>3, Defaults DEF AttemptChains
<1>5. QED
  BY <1>1, <1>2, <1>4, Defaults DEF Startable

LEMMA TailIsStartable ==
    ASSUME NEW p \in Proc, Startable(chain[p], reason[p]), HasNext(p)
    PROVE  Startable(Tail(chain[p]), NextReason(p))
<1> DEFINE s == chain[p]
           t == Tail(s)
<1>1. s \in Seq(ActionType) /\ Len(s) \in Nat /\ Len(s) > 1
  BY DEF Startable, Chain, HasNext
<1>2. /\ t \in Seq(ActionType) /\ Len(t) = Len(s) - 1
      /\ \A i \in 1 .. Len(t) : t[i] = s[i + 1]
      /\ Head(s) = s[1] /\ Head(t) = s[2]
  BY <1>1
<1>3. EndsAfterAgent(t)
  BY <1>1, <1>2 DEF Startable, EndsAfterAgent
<1>4. NextReason(p) = "CleanupScript" => Len(t) <= 1
  <2>1. s[1] \in ActionType /\ s[2] \in ActionType
    BY <1>1
  <2>2. SUFFICES ASSUME NextReason(p) = "CleanupScript" PROVE Len(t) <= 1
    OBVIOUS
  <2>3. s[1] # "Script"
    BY <1>2, <2>2 DEF NextReason
  <2>4. s[1] = "Agent"
    BY <2>1, <2>3 DEF ActionType
  <2>5. QED
    BY <1>1, <1>2, <2>4 DEF Startable, EndsAfterAgent
<1>5. QED
  BY <1>2, <1>3, <1>4 DEF Startable, Chain

(* A call that begins with such an action, returns, or stays as it is. *)
LEMMA BeginStartable ==
    ASSUME TypeOK, CallsStartable, NEW c \in Caller, NEW ch, NEW rs,
           Startable(ch, rs), BeginCall(c, ch, rs)
    PROVE  CallsStartable'
BY DEF TypeOK, CallsStartable, BeginCall, NoCall

LEMMA ReturnStartable ==
    ASSUME TypeOK, CallsStartable, NEW c \in Caller, call' = Return(c)
    PROVE  CallsStartable'
<1>1. /\ call'[c].chain = <<>> /\ call'[c].reason = "CodingAgent"
      /\ \A d \in Caller \ {c} : call'[d] = call[d]
  BY DEF TypeOK, Return, NoCall
<1>2. QED
  BY <1>1, StartableChains DEF CallsStartable

(* The steps of start_execution: the row is created with the call's action. *)
LEMMA StartChains ==
    ASSUME IInv, ChainInv, NEW c \in Caller, start_execution(c)
    PROVE  ChainInv'
<1>a. TypeOK /\ FreshRows /\ Spawning /\ (call[c].pc = "spawn" => call[c].proc \in Proc)
  BY DEF IInv, Inv, Spawning
<1>1. CallsStartable' /\ ReqsStartable'
  BY <1>a DEF start_execution, CreateRow, SpawnChild, SpawnFails, ReviewAfterStartError,
     TypeOK, StartCall, ChainInv, CallsStartable, ReqsStartable, reqVars
<1>2. CASE CreateRow(c)
  <2> DEFINE n == rows + 1
  <2>1. n \in Proc /\ mpc[n] = "none"
    BY <1>a, <1>2, LifecycleAssumption DEF TypeOK, CreateRow, Proc, FreshRows, Untouched
  <2>2. /\ chain' = [chain EXCEPT ![n] = call[c].chain]
        /\ reason' = [reason EXCEPT ![n] = call[c].reason]
        /\ row' = [row EXCEPT ![n] = "Running"]
        /\ mpc' = mpc /\ struck' = struck
    BY <1>2 DEF CreateRow, monVars
  <2>3. RowsStartable'
    BY <1>a, <2>1, <2>2 DEF TypeOK, ChainInv, RowsStartable, CallsStartable
  <2>4. CommitIsSound'
    BY <1>a, <2>1, <2>2 DEF TypeOK, ChainInv, CommitIsSound, HasNext
  <2>5. QED
    BY <1>1, <2>3, <2>4 DEF ChainInv
<1>3. CASE SpawnChild(c) \/ SpawnFails(c) \/ ReviewAfterStartError(c)
  <2>1. /\ UNCHANGED <<chain, reason, struck>>
        /\ \A p \in Proc : mpc'[p] = "commit" => mpc[p] = "commit" /\ row'[p] = row[p]
    BY <1>a, <1>3 DEF SpawnChild, SpawnFails, ReviewAfterStartError, TypeOK, Spawning,
       Untouched, dbVars, monVars
  <2>2. QED
    BY <1>1, <2>1 DEF ChainInv, RowsStartable, CommitIsSound, HasNext
<1>4. QED
  BY <1>2, <1>3 DEF start_execution

(* The steps of a monitor: it commits with a next action only after success. *)
LEMMA MonitorChains ==
    ASSUME IInv, ChainInv, NEW p \in Proc, spawn_exit_monitor(p) \/ ExitSignal(p)
    PROVE  ChainInv'
<1>a. TypeOK /\ KillSticks /\ MonEffect(p) /\ p \in Caller
  BY MonitorEffect DEF IInv, Inv, Caller
<1>1. UNCHANGED <<chain, reason, req, struck>>
  BY DEF spawn_exit_monitor, ExitSignal, WatchExit, WatchMissing, CheckStopped,
     WriteCompletion, LoadContext, CommitAndContinue, NextStarted, Finalize,
     CheckNothingRuns, ClaimFollowUp, FollowUpSent, Cleanup, dbVars, reqVars
<1>2. CallsStartable'
  <2>1. CASE CommitAndContinue(p)
    BY <1>a, <2>1, BeginStartable, TailIsStartable
    DEF CommitAndContinue, ChainInv, RowsStartable, CallsStartable
  <2>2. CASE ClaimFollowUp(p)
    BY <1>a, <2>2, BeginStartable, StartableChains DEF ClaimFollowUp, ChainInv, CallsStartable
  <2>3. CASE NextStarted(p) \/ FollowUpSent(p)
    BY <1>a, <2>3, ReturnStartable DEF NextStarted, FollowUpSent, ChainInv
  <2>4. CASE UNCHANGED call
    BY <2>4 DEF ChainInv, CallsStartable
  <2>5. QED
    BY <2>1, <2>2, <2>3, <2>4 DEF spawn_exit_monitor, ExitSignal, WatchExit, WatchMissing,
       CheckStopped, WriteCompletion, LoadContext, Finalize, CheckNothingRuns, Cleanup
<1>3. CommitIsSound'
  <2>1. mpc'[p] = "commit" => LoadContext(p)
    BY <1>a DEF TypeOK, spawn_exit_monitor, ExitSignal, WatchExit, WatchMissing,
       CheckStopped, WriteCompletion, CommitAndContinue, NextStarted, Finalize,
       CheckNothingRuns, ClaimFollowUp, FollowUpSent, Cleanup, Observe, StepMon
  <2>2. ASSUME mpc'[p] = "commit", HasNext(p)
        PROVE  row'[p] = "Completed" /\ p \notin struck
    <3>1. mon'[p].seen = row[p] /\ UNCHANGED row /\ (Succeeded(p) \/ CleanupDone(p))
      BY <1>a, <2>1, <2>2 DEF TypeOK, MonLocals, LoadContext, StepMon, dbVars
    <3>2. ~CleanupDone(p)
      BY <2>2 DEF CleanupDone, HasNext, ChainInv, RowsStartable, Startable, Chain
    <3>3. row[p] = "Completed"
      BY <3>1, <3>2 DEF Succeeded
    <3>4. QED
      BY <1>a, <3>1, <3>3 DEF KillSticks
  <2>3. \A q \in Proc \ {p} : mpc'[q] = mpc[q] /\ row'[q] = row[q]
    BY <1>a DEF MonEffect
  <2>4. QED
    BY <1>1, <2>2, <2>3 DEF ChainInv, CommitIsSound, HasNext
<1>4. QED
  BY <1>1, <1>2, <1>3 DEF ChainInv, RowsStartable, ReqsStartable

(* The steps of a handler outside stop_execution touch no row, monitor or kill,
   and begin calls with chains of the right form. *)
LEMMA HandlerChains ==
    ASSUME IInv, ChainInv, NEW r \in Req,
           \/ Request(r) \/ StopResponds(r) \/ DropAndRestart(r) \/ DevServerStarts(r)
           \/ StartResponds(r) \/ QueueChecks(r) \/ QueueClaims(r) \/ QueueSent(r)
           \/ Disconnect(r)
    PROVE  ChainInv'
<1>a. TypeOK /\ r \in Caller
  BY DEF IInv, Caller
<1>1. UNCHANGED <<row, mpc, struck>> /\ \A s \in Req \ {r} : req'[s] = req[s]
  BY <1>a, HandlerFrame
<1>2. UNCHANGED <<chain, reason>>
  BY DEF Request, StartAttempt, FollowUp, Retry, Replace, RestartFrom, StartDevServer,
     StopProcess, StopAttempt, QueueFollowUp, UnqueueFollowUp, StopResponds,
     DropAndRestart, DevServerStarts, StartResponds, QueueChecks, QueueClaims, QueueSent,
     Disconnect, dbVars
<1>3. ReqsStartable'
  <2>1. \/ req'[r].chain = <<>> \/ req'[r].chain = req[r].chain
        \/ req'[r].chain \in AgentChains
    <3>0. req \in [Req -> ReqLocals] /\ <<"Agent">> \in AgentChains
      BY <1>a DEF TypeOK, AgentChains
    <3>1. CASE Retry(r) \/ Replace(r)
      BY <3>0, <3>1 DEF Retry, Replace, RestartFrom, NoReq
    <3>2. CASE StartAttempt(r) \/ FollowUp(r) \/ QueueFollowUp(r)
      BY <3>0, <3>2 DEF StartAttempt, FollowUp, QueueFollowUp, NoReq
    <3>3. CASE StartDevServer(r)
      <4>1. \E S : req' = [req EXCEPT ![r] = [NoReq EXCEPT !.todo = S, !.then = "dev"]]
        BY <3>3 DEF StartDevServer
      <4>2. QED
        BY <3>0, <4>1 DEF NoReq
    <3>4. CASE StopProcess(r) \/ StopAttempt(r)
      <4>1. \E S : req' = [req EXCEPT ![r] = [NoReq EXCEPT !.todo = S]]
        BY <3>4 DEF StopProcess, StopAttempt
      <4>2. QED
        BY <3>0, <4>1 DEF NoReq
    <3>5. CASE UNCHANGED req \/ Respond(r)
      BY <3>0, <3>5 DEF Respond, NoReq
    <3>6. QED
      BY <3>1, <3>2, <3>3, <3>4, <3>5 DEF Request, UnqueueFollowUp, StopResponds, DropAndRestart,
         DevServerStarts, StartResponds, QueueChecks, QueueClaims, QueueSent, Disconnect,
         reqVars
  <2>2. QED
    BY <1>1, <2>1, StartableChains DEF ChainInv, ReqsStartable
<1>4. CallsStartable'
  <2>1. CASE StartAttempt(r)
    <3>1. PICK ch \in AttemptChains :
             BeginCall(r, ch, IF Head(ch) = "Script" THEN "SetupScript" ELSE "CodingAgent")
      BY <2>1 DEF StartAttempt
    <3>2. QED
      BY <1>a, <3>1, BeginStartable, StartableChains DEF ChainInv
  <2>2. CASE FollowUp(r) \/ QueueClaims(r) \/ DropAndRestart(r) \/ DevServerStarts(r)
    <3>1. \/ UNCHANGED call
          \/ \E ch \in AgentChains : BeginCall(r, ch, "CodingAgent")
          \/ BeginCall(r, req[r].chain, "CodingAgent")
          \/ BeginCall(r, <<"Script">>, "DevServer")
      BY <2>2 DEF FollowUp, QueueClaims, DropAndRestart, DevServerStarts
    <3>2. Startable(req[r].chain, "CodingAgent")
      BY DEF ChainInv, ReqsStartable
    <3>3. CASE UNCHANGED call
      BY <3>3 DEF ChainInv, CallsStartable
    <3>4. QED
      BY <1>a, <3>1, <3>2, <3>3, BeginStartable, StartableChains DEF ChainInv
  <2>3. CASE StartResponds(r) \/ QueueSent(r) \/ Disconnect(r)
    BY <1>a, <2>3, ReturnStartable DEF StartResponds, QueueSent, Disconnect, Return, ChainInv
  <2>4. CASE UNCHANGED call
    BY <2>4 DEF ChainInv, CallsStartable
  <2>5. QED
    BY <2>1, <2>2, <2>3, <2>4 DEF Request, Retry, Replace, RestartFrom, StartDevServer,
       StopProcess, StopAttempt, QueueFollowUp, UnqueueFollowUp, StopResponds, QueueChecks
<1>5. QED
  BY <1>1, <1>2, <1>3, <1>4 DEF ChainInv, RowsStartable, CommitIsSound, HasNext

(* stop_execution writes Killed, and kills alive only a process whose monitor
   still polls. *)
LEMMA StopChains ==
    ASSUME IInv, ChainInv, NEW r \in Req, stop_execution(r)
    PROVE  ChainInv'
<1>a. TypeOK /\ LiveIsTracked /\ req[r].cur \in Proc
  BY DEF IInv, Inv, TypeOK, ReqLocals
<1>1. UNCHANGED <<chain, reason, call, mpc>> /\ \A s \in Req : req'[s].chain = req[s].chain
  <2>1. CASE StopLookup(r)
    <3>1. req \in [Req -> ReqLocals] /\ UNCHANGED <<chain, reason, call, mpc>>
      BY <1>a, <2>1 DEF TypeOK, StopLookup, dbVars, monVars
    <3>2. \E p : req' = [req EXCEPT ![r].todo = @ \ {p}, ![r].cur = p]
      BY <2>1 DEF StopLookup
    <3>3. QED
      BY <3>1, <3>2 DEF ReqLocals
  <2>2. CASE StopUpdate(r) \/ StopKill(r) \/ StopRelease(r) \/ StopReview(r)
    BY <2>2 DEF StopUpdate, StopKill, StopRelease, StopReview, dbVars, monVars
  <2>3. QED
    BY <2>1, <2>2 DEF stop_execution
<1>2. \A p \in Proc : mpc[p] = "commit" =>
          /\ row'[p] = row[p] \/ row'[p] = "Killed"
          /\ p \in struck' => p \in struck
  BY <1>a DEF stop_execution, StopLookup, StopUpdate, StopKill, StopRelease, StopReview,
     TypeOK, LiveIsTracked, dbVars
<1>3. CommitIsSound'
  BY <1>1, <1>2 DEF ChainInv, CommitIsSound, HasNext
<1>4. QED
  BY <1>1, <1>3 DEF ChainInv, RowsStartable, CallsStartable, ReqsStartable

(* After a crash no monitor is left, and the start-up scan runs before one is
   spawned; the other steps change nothing that the chains depend on. *)
LEMMA OtherChains ==
    ASSUME IInv, ChainInv,
           \/ (\E p \in Proc : ChildExits(p)) \/ Crash \/ cleanup_orphan_executions
           \/ Rest \/ UNCHANGED vars
    PROVE  ChainInv'
<1>a. TypeOK /\ Quiet
  BY DEF IInv, Inv
<1>1. CASE Crash
  <2>1. /\ UNCHANGED <<chain, reason>>
        /\ \A p \in Proc : mpc'[p] # "commit"
        /\ \A c \in Caller : call'[c] = NoCall
        /\ \A r \in Req : req'[r] = NoReq
    BY <1>1 DEF Crash, dbVars
  <2>2. QED
    BY <2>1, StartableChains DEF ChainInv, RowsStartable, CallsStartable, ReqsStartable,
       CommitIsSound, NoCall, NoReq
<1>2. CASE FailOrphan
  <2>1. /\ UNCHANGED <<chain, reason, call, req, mpc, struck>>
        /\ \A p \in Proc : mpc[p] = "none"
    BY <1>a, <1>2 DEF FailOrphan, Quiet, monVars, reqVars
  <2>2. QED
    BY <2>1 DEF ChainInv, RowsStartable, CallsStartable, ReqsStartable, CommitIsSound
<1>3. CASE (\E p \in Proc : ChildExits(p)) \/ Restart \/ ReviewOrphan \/ Serve \/ Rest
           \/ UNCHANGED vars
  <2>1. UNCHANGED <<row, chain, reason, call, req, mpc, struck>>
    BY <1>3 DEF ChildExits, Restart, ReviewOrphan, Serve, Rest, vars, dbVars, monVars,
       reqVars
  <2>2. QED
    BY <2>1 DEF ChainInv, RowsStartable, CallsStartable, ReqsStartable, CommitIsSound, HasNext
<1>4. QED
  BY <1>1, <1>2, <1>3 DEF cleanup_orphan_executions

(* The form of the chains and what a committing monitor knows are kept by every
   step, together with the inductive invariant. *)
LEMMA ChainInvariance == Spec => []ChainInv
<1>1. Init => ChainInv
  BY StartableChains DEF Init, ChainInv, RowsStartable, CallsStartable, ReqsStartable,
     CommitIsSound, NoCall, NoReq
<1>2. IInv /\ ChainInv /\ [Next]_vars => ChainInv'
  BY StartChains, MonitorChains, HandlerChains, StopChains, OtherChains DEF Next, Handle
<1>3. QED
  BY <1>1, <1>2, Invariance, PTL DEF Spec

(* try_start_next_action runs only after a process whose row says Completed, or
   was stopped after it had said so, and never after one that stop_execution
   killed alive: although should_start_next is computed from a row that was
   loaded before the commit, and a cleanup script commits whatever its status. *)
THEOREM ChainsAfterSuccess == Spec => ChainAfterSuccess
<1>1. IInv /\ ChainInv /\ [Next]_vars =>
        [\A p \in Proc : mpc[p] = "commit" /\ mpc'[p] = "next"
             => row[p] \in {"Completed", "Killed"} /\ p \notin struck]_vars
  <2>1. SUFFICES ASSUME IInv, ChainInv, Next, NEW p \in Proc,
                        mpc[p] = "commit", mpc'[p] = "next"
                 PROVE  row[p] \in {"Completed", "Killed"} /\ p \notin struck
    OBVIOUS
  <2>2. HasNext(p)
    <3>a. TypeOK /\ Awaited /\ LiveIsTracked /\ Spawning /\ Quiet
      BY <2>1 DEF IInv, Inv
    <3>1. CASE \E q \in Proc : spawn_exit_monitor(q) \/ ExitSignal(q)
      <4>1. PICK q \in Proc : spawn_exit_monitor(q) \/ ExitSignal(q)
        BY <3>1
      <4>2. q = p
        BY <2>1, <3>a, <4>1, MonitorEffect DEF MonEffect
      <4>3. CommitAndContinue(p)
        BY <2>1, <4>1, <4>2 DEF spawn_exit_monitor, ExitSignal, WatchExit, WatchMissing,
           CheckStopped, WriteCompletion, LoadContext, NextStarted, Finalize,
           CheckNothingRuns, ClaimFollowUp, FollowUpSent, Cleanup
      <4>4. QED
        BY <2>1, <3>a, <4>3 DEF CommitAndContinue, TypeOK, StepMon
    <3>2. CASE \E c \in Caller : start_execution(c)
      BY <2>1, <3>a, <3>2 DEF start_execution, CreateRow, SpawnChild, SpawnFails,
         ReviewAfterStartError, TypeOK, monVars
    <3>3. CASE \E r \in Req : Request(r) \/ Handle(r) \/ Disconnect(r)
      <4>1. PICK r \in Req : Request(r) \/ Handle(r) \/ Disconnect(r)
        BY <3>3
      <4>2. CASE stop_execution(r)
        BY <2>1, <4>2 DEF stop_execution, StopLookup, StopUpdate, StopKill, StopRelease,
           StopReview, monVars
      <4>3. QED
        BY <2>1, <3>a, <4>1, <4>2, HandlerFrame DEF Handle
    <3>4. CASE (\E q \in Proc : ChildExits(q)) \/ Crash \/ cleanup_orphan_executions \/ Rest
      BY <2>1, <3>4 DEF ChildExits, Crash, cleanup_orphan_executions, Restart, FailOrphan,
         ReviewOrphan, Serve, Rest, vars, monVars
    <3>5. QED
      BY <2>1, <3>1, <3>2, <3>3, <3>4 DEF Next
  <2>3. QED
    BY <2>1, <2>2 DEF ChainInv, CommitIsSound
<1>2. QED
  BY <1>1, Invariance, ChainInvariance, PTL DEF Spec, ChainAfterSuccess

=============================================================================
