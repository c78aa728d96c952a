--------------------------- MODULE ApprovalsProofs ---------------------------
(***************************************************************************)
(* Proofs about Approvals for every number of executions, tool uses and    *)
(* handlers.                                                               *)
(***************************************************************************)
EXTENDS Approvals, TLAPS

(* A handler between its removal of a request from pending and its return. *)
Holds(r) == pc[r] \in {"send", "patch", "load", "resume"}

(* The id in the slot, and the id that a reader loop has taken from it, belong
   to a tool use whose hook callback arrived and which nobody has asked for. *)
Slotted ==
    /\ \A q \in Request : use[q] = "new" => outcome[q] = "none"
    /\ \A e \in Exec : slot[e] # NoCall =>
          /\ slot[e] \in Call
          /\ use[<<e, slot[e]>>] # "new"
          /\ outcome[<<e, slot[e]>>] = "none"

(* What a reader loop knows of its request at each statement. *)
Reading ==
    \A e \in Exec : at[e] # "read" =>
        /\ slot[e] = NoCall
        /\ about[e] \in Call
        /\ via[e] \in Call
        /\ use[<<e, via[e]>>] # "new"
        /\ at[e] \in {"load", "review", "create"} => outcome[<<e, via[e]>>] = "none"
        /\ at[e] = "insert" =>
              /\ outcome[<<e, via[e]>>] = "open"
              /\ watch[<<e, via[e]>>] = "off"
              /\ <<e, via[e]>> \notin pending
        /\ at[e] = "wait" => outcome[<<e, via[e]>>] # "none"

(* A request that was not made has left no trace; a pending one is open and
   watched; a watcher that expired one has settled it. *)
Watched ==
    \A q \in Request :
        /\ outcome[q] = "none" => watch[q] = "off" /\ told[q] = "none"
        /\ q \in pending => outcome[q] = "open" /\ watch[q] \in {"select", "record", "remove"}
        /\ watch[q] = "patch" => outcome[q] = "timed_out"

(* A handler that holds a request is the only one to do so; before it sends,
   the request is open, and afterwards its outcome is the answer. *)
Held ==
    /\ \A r \in Responder : Holds(r) =>
          /\ target[r] \in Request
          /\ target[r] \notin pending
          /\ watch[target[r]] # "off"
          /\ told[target[r]] = "none"
          /\ outcome[target[r]] = IF pc[r] = "send" THEN "open" ELSE answer[r]
    /\ \A r1, r2 \in Responder :
          Holds(r1) /\ Holds(r2) /\ target[r1] = target[r2] => r1 = r2

(* The inductive invariant. *)
IInv ==
    /\ TypeOK /\ Slotted /\ Reading /\ Watched /\ Held
    /\ OpenIsServed /\ AnswerReachesAgent /\ ExpiredIsRemembered
    /\ ShownPendingIsOpen

-----------------------------------------------------------------------------
(* Every action preserves the invariant: one step per conjunct that it can
   disturb, and one for those whose variables it leaves alone. *)

LEMMA HookCallbackStep ==
    ASSUME IInv, NEW e \in Exec, NEW c \in Call, HookCallback(e, c)
    PROVE  IInv'
<1>1. TypeOK'
    BY DEF IInv, TypeOK, HookCallback, serviceVars, handlerVars
<1>2. Slotted'
  <2>1. \A x \in Request : use'[x] = "new" => outcome'[x] = "none"
    BY DEF IInv, Slotted, TypeOK, HookCallback, serviceVars
  <2>2. ASSUME NEW f \in Exec, slot'[f] # NoCall
        PROVE  slot'[f] \in Call /\ use'[<<f, slot'[f]>>] # "new"
                 /\ outcome'[<<f, slot'[f]>>] = "none"
    <3>1. CASE f = e
      BY <3>1 DEF IInv, Slotted, TypeOK, HookCallback, serviceVars, Request
    <3>2. CASE f # e
      BY <2>2, <3>2 DEF IInv, Slotted, TypeOK, HookCallback, serviceVars, Request
    <3>. QED  BY <3>1, <3>2
  <2>. QED  BY <2>1, <2>2 DEF Slotted
<1>3. Reading'
    BY DEF IInv, Reading, HookCallback, Reads, serviceVars
<1>4. (Watched /\ Held /\ OpenIsServed /\ AnswerReachesAgent /\ ExpiredIsRemembered /\ ShownPendingIsOpen)'
    BY DEF IInv, Watched, Held, OpenIsServed, AnswerReachesAgent,
        ExpiredIsRemembered, ShownPendingIsOpen, Holds, HookCallback,
        serviceVars, handlerVars, Inserting, Answering, Via
<1>. QED
    BY <1>1, <1>2, <1>3, <1>4 DEF IInv

LEMMA AutoApproveStep ==
    ASSUME IInv, NEW e \in Exec, NEW c \in Call, AutoApprove(e, c)
    PROVE  IInv'
<1>1. TypeOK'
    BY DEF IInv, TypeOK, AutoApprove, serviceVars, handlerVars
<1>2. Slotted'
    BY DEF IInv, Slotted, AutoApprove, serviceVars
<1>3. Reading'
    BY DEF IInv, Reading, AutoApprove, serviceVars
<1>4. (Watched /\ Held /\ OpenIsServed /\ AnswerReachesAgent /\ ExpiredIsRemembered /\ ShownPendingIsOpen)'
    BY DEF IInv, Watched, Held, OpenIsServed, AnswerReachesAgent,
        ExpiredIsRemembered, ShownPendingIsOpen, Holds, AutoApprove,
        serviceVars, handlerVars, Inserting, Answering, Via
<1>. QED
    BY <1>1, <1>2, <1>3, <1>4 DEF IInv

LEMMA CanUseToolStep ==
    ASSUME IInv, NEW e \in Exec, NEW c \in Call, CanUseTool(e, c)
    PROVE  IInv'
<1>1. TypeOK'
    BY DEF IInv, TypeOK, CanUseTool, serviceVars, handlerVars
<1>2. Slotted'
    BY DEF IInv, Slotted, CanUseTool, serviceVars
<1>3. Reading'
    BY DEF IInv, Reading, TypeOK, Slotted, CanUseTool, serviceVars
<1>4. OpenIsServed'
    BY DEF IInv, OpenIsServed, CanUseTool, Reads, serviceVars, handlerVars,
        Inserting, Answering, Via
<1>5. (Watched /\ Held /\ AnswerReachesAgent /\ ExpiredIsRemembered /\ ShownPendingIsOpen)'
    BY DEF IInv, Watched, Held, AnswerReachesAgent, ExpiredIsRemembered,
        ShownPendingIsOpen, Holds, CanUseTool, serviceVars, handlerVars,
        Answering
<1>. QED
    BY <1>1, <1>2, <1>3, <1>4, <1>5 DEF IInv

LEMMA EnsureLoadStep ==
    ASSUME IInv, NEW e \in Exec, EnsureLoad(e)
    PROVE  IInv'
<1>1. TypeOK'
    BY DEF IInv, TypeOK, EnsureLoad, serviceVars, handlerVars
<1>2. Reading'
    BY DEF IInv, Reading, EnsureLoad, serviceVars
<1>3. OpenIsServed'
    BY DEF IInv, OpenIsServed, EnsureLoad, serviceVars, handlerVars,
        Inserting, Answering, Via
<1>4. (Slotted /\ Watched /\ Held /\ AnswerReachesAgent /\ ExpiredIsRemembered /\ ShownPendingIsOpen)'
    BY DEF IInv, Slotted, Watched, Held, AnswerReachesAgent,
        ExpiredIsRemembered, ShownPendingIsOpen, Holds, EnsureLoad,
        serviceVars, handlerVars, Answering
<1>. QED
    BY <1>1, <1>2, <1>3, <1>4 DEF IInv

LEMMA EnsureInReviewStep ==
    ASSUME IInv, NEW e \in Exec, EnsureInReview(e)
    PROVE  IInv'
<1>1. TypeOK'
    BY DEF IInv, TypeOK, EnsureInReview, serviceVars, handlerVars,
        TaskStatus
<1>2. Reading'
    BY DEF IInv, Reading, EnsureInReview, serviceVars
<1>3. OpenIsServed'
    BY DEF IInv, OpenIsServed, EnsureInReview, serviceVars, handlerVars,
        Inserting, Answering, Via
<1>4. (Slotted /\ Watched /\ Held /\ AnswerReachesAgent /\ ExpiredIsRemembered /\ ShownPendingIsOpen)'
    BY DEF IInv, Slotted, Watched, Held, AnswerReachesAgent,
        ExpiredIsRemembered, ShownPendingIsOpen, Holds, EnsureInReview,
        serviceVars, handlerVars, Answering
<1>. QED
    BY <1>1, <1>2, <1>3, <1>4 DEF IInv

LEMMA CreatePatchStep ==
    ASSUME IInv, NEW e \in Exec, CreatePatch(e)
    PROVE  IInv'
<1>1. TypeOK'
    BY DEF IInv, TypeOK, CreatePatch, handlerVars, ToolStatus
<1>2. Slotted'
    BY DEF IInv, Slotted, Reading, CreatePatch, Via
<1>3. Reading'
    BY DEF IInv, Reading, TypeOK, Watched, CreatePatch, Via, Request
<1>4. Watched'
    BY DEF IInv, Watched, Reading, CreatePatch, Via, handlerVars
<1>5. Held'
  <2>1. /\ outcome' = [outcome EXCEPT ![Via(e)] = "open"]
        /\ UNCHANGED <<pending, watch, pc, target, answer, told>>
    BY DEF CreatePatch, handlerVars
  <2>2. outcome[Via(e)] = "none" /\ Via(e) \in Request
    BY DEF IInv, Reading, CreatePatch, Via, Request
  <2>3. watch[Via(e)] = "off"
    BY <2>2 DEF IInv, Watched
  <2>4. \A r \in Responder : Holds(r)' <=> Holds(r)
    BY <2>1 DEF Holds
  <2>5. \A r \in Responder : Holds(r) => target[r] # Via(e)
    BY <2>3 DEF IInv, Held
  <2>6. \A r \in Responder : Holds(r) => outcome'[target[r]] = outcome[target[r]]
    BY <2>1, <2>5 DEF IInv, Held, TypeOK
  <2>. QED
    BY <2>1, <2>4, <2>6 DEF IInv, Held
<1>6. OpenIsServed'
    BY DEF IInv, OpenIsServed, TypeOK, CreatePatch, handlerVars,
        Inserting, Answering, ExecOf, Via
<1>7. AnswerReachesAgent'
    BY DEF IInv, AnswerReachesAgent, Reading, CreatePatch, Via,
        handlerVars
<1>8. ShownPendingIsOpen'
    BY DEF IInv, ShownPendingIsOpen, TypeOK, CreatePatch, handlerVars,
        Answering
<1>9. ExpiredIsRemembered'
    BY DEF IInv, ExpiredIsRemembered, CreatePatch
<1>. QED
    BY <1>1, <1>2, <1>3, <1>4, <1>5, <1>6, <1>7, <1>8, <1>9 DEF IInv

LEMMA CreateInsertStep ==
    ASSUME IInv, NEW e \in Exec, CreateInsert(e)
    PROVE  IInv'
<1>1. TypeOK'
    BY DEF IInv, TypeOK, Reading, CreateInsert, Via, handlerVars,
        Request
<1>2. Reading'
    BY DEF IInv, Reading, TypeOK, CreateInsert, Via
<1>3. Watched'
    BY DEF IInv, Watched, TypeOK, Reading, CreateInsert, Via,
        handlerVars
<1>4. Held'
    BY DEF IInv, Held, Reading, Holds, CreateInsert, Via, handlerVars
<1>5. OpenIsServed'
    BY DEF IInv, OpenIsServed, TypeOK, CreateInsert, handlerVars,
        Inserting, Answering, Via
<1>6. ExpiredIsRemembered'
    BY DEF IInv, ExpiredIsRemembered, CreateInsert
<1>7. ShownPendingIsOpen'
    BY DEF IInv, ShownPendingIsOpen, Reading, CreateInsert, Via,
        handlerVars, Answering
<1>8. (Slotted /\ AnswerReachesAgent)'
    BY DEF IInv, Slotted, AnswerReachesAgent, CreateInsert, handlerVars
<1>. QED
    BY <1>1, <1>2, <1>3, <1>4, <1>5, <1>6, <1>7, <1>8 DEF IInv

LEMMA CreateUnmatchedStep ==
    ASSUME IInv, NEW e \in Exec, CreateUnmatched(e)
    PROVE  IInv'
<1>1. TypeOK'
    BY DEF IInv, TypeOK, CreateUnmatched, handlerVars, Status
<1>2. Slotted'
    BY DEF IInv, Slotted, Reading, CreateUnmatched, Via
<1>3. Reading'
    BY DEF IInv, Reading, TypeOK, CreateUnmatched, Via, Request
<1>4. Watched'
    BY DEF IInv, Watched, TypeOK, Reading, CreateUnmatched, Via,
        handlerVars
<1>5. Held'
    BY DEF IInv, Held, TypeOK, Reading, Holds, CreateUnmatched, Via,
        handlerVars, Status
<1>6. OpenIsServed'
    BY DEF IInv, OpenIsServed, Held, Holds, CreateUnmatched,
        handlerVars, Status, Inserting, Answering, Via
<1>7. AnswerReachesAgent'
    BY DEF IInv, AnswerReachesAgent, Reading, CreateUnmatched, Via,
        handlerVars
<1>8. ExpiredIsRemembered'
    BY DEF IInv, ExpiredIsRemembered, CreateUnmatched
<1>9. ShownPendingIsOpen'
    BY DEF IInv, ShownPendingIsOpen, Watched, Reading, CreateUnmatched,
        Matches, handlerVars, Answering
<1>. QED
    BY <1>1, <1>2, <1>3, <1>4, <1>5, <1>6, <1>7, <1>8, <1>9 DEF IInv

LEMMA WaiterWakesStep ==
    ASSUME IInv, NEW e \in Exec, WaiterWakes(e)
    PROVE  IInv'
<1>1. TypeOK'
    BY DEF IInv, TypeOK, WaiterWakes, serviceVars, handlerVars
<1>2. Slotted'
    BY DEF IInv, Slotted, WaiterWakes, serviceVars
<1>3. Reading'
    BY DEF IInv, Reading, TypeOK, WaiterWakes, serviceVars
<1>4. OpenIsServed'
    BY DEF IInv, OpenIsServed, Reading, WaiterWakes, serviceVars,
        handlerVars, Inserting, Answering, Via
<1>5. (Watched /\ Held /\ AnswerReachesAgent /\ ExpiredIsRemembered /\ ShownPendingIsOpen)'
    BY DEF IInv, Watched, Held, AnswerReachesAgent, ExpiredIsRemembered,
        ShownPendingIsOpen, Holds, WaiterWakes, serviceVars, handlerVars,
        Answering
<1>. QED
    BY <1>1, <1>2, <1>3, <1>4, <1>5 DEF IInv

LEMMA ExecutionEndsStep ==
    ASSUME IInv, NEW e \in Exec, ExecutionEnds(e)
    PROVE  IInv'
<1>1. TypeOK'
    BY DEF IInv, TypeOK, ExecutionEnds, agentVars, serviceVars,
        handlerVars, Request, TaskStatus
<1>2. ShownPendingIsOpen'
    BY DEF IInv, ShownPendingIsOpen, ExecutionEnds, serviceVars,
        handlerVars, Answering
<1>3. (Slotted /\ Reading /\ Watched /\ Held /\ OpenIsServed /\ AnswerReachesAgent /\ ExpiredIsRemembered)'
    BY DEF IInv, Slotted, Reading, Watched, Held, OpenIsServed,
        AnswerReachesAgent, ExpiredIsRemembered, Holds, ExecutionEnds,
        agentVars, serviceVars, handlerVars, Inserting, Answering, Via
<1>. QED
    BY <1>1, <1>2, <1>3 DEF IInv

LEMMA WatchResolvedStep ==
    ASSUME IInv, NEW q \in Request, WatchResolved(q)
    PROVE  IInv'
<1>1. TypeOK'
    BY DEF IInv, TypeOK, WatchResolved, agentVars, handlerVars
<1>2. Reading'
    BY DEF IInv, Reading, WatchResolved, agentVars
<1>3. Watched'
    BY DEF IInv, Watched, WatchResolved, handlerVars
<1>4. Held'
    BY DEF IInv, Held, Holds, WatchResolved, handlerVars
<1>5. OpenIsServed'
    BY DEF IInv, OpenIsServed, WatchResolved, agentVars, handlerVars,
        Inserting, Answering, Via
<1>6. ExpiredIsRemembered'
    BY DEF IInv, ExpiredIsRemembered, TypeOK, Watched, WatchResolved
<1>7. ShownPendingIsOpen'
    BY DEF IInv, ShownPendingIsOpen, TypeOK, Watched, Held, Reading,
        Holds, WatchResolved, agentVars, serviceVars, handlerVars, Request,
        Status, Answering, ExecOf
<1>8. (Slotted /\ AnswerReachesAgent)'
    BY DEF IInv, Slotted, AnswerReachesAgent, WatchResolved, agentVars,
        handlerVars
<1>. QED
    BY <1>1, <1>2, <1>3, <1>4, <1>5, <1>6, <1>7, <1>8 DEF IInv

LEMMA WatchDeadlineStep ==
    ASSUME IInv, NEW q \in Request, WatchDeadline(q)
    PROVE  IInv'
<1>1. TypeOK'
    BY DEF IInv, TypeOK, WatchDeadline, agentVars, handlerVars, Status
<1>2. Reading'
    BY DEF IInv, Reading, WatchDeadline, agentVars
<1>3. Watched'
    BY DEF IInv, Watched, WatchDeadline, handlerVars
<1>4. Held'
    BY DEF IInv, Held, Holds, WatchDeadline, handlerVars
<1>5. OpenIsServed'
    BY DEF IInv, OpenIsServed, WatchDeadline, agentVars, handlerVars,
        Status, Inserting, Answering, Via
<1>6. ExpiredIsRemembered'
    BY DEF IInv, ExpiredIsRemembered, WatchDeadline, serviceVars
<1>7. ShownPendingIsOpen'
    BY DEF IInv, ShownPendingIsOpen, WatchDeadline, serviceVars,
        handlerVars, Answering
<1>8. (Slotted /\ AnswerReachesAgent)'
    BY DEF IInv, Slotted, AnswerReachesAgent, WatchDeadline, agentVars,
        handlerVars
<1>. QED
    BY <1>1, <1>2, <1>3, <1>4, <1>5, <1>6, <1>7, <1>8 DEF IInv

LEMMA WatchRecordStep ==
    ASSUME IInv, NEW q \in Request, WatchRecord(q)
    PROVE  IInv'
<1>1. TypeOK'
    BY DEF IInv, TypeOK, WatchRecord, agentVars, serviceVars,
        handlerVars, Status
<1>2. Reading'
    BY DEF IInv, Reading, WatchRecord, agentVars
<1>3. Watched'
    BY DEF IInv, Watched, WatchRecord, handlerVars
<1>4. Held'
    BY DEF IInv, Held, Holds, WatchRecord, handlerVars
<1>5. OpenIsServed'
    BY DEF IInv, OpenIsServed, WatchRecord, agentVars, handlerVars,
        Request, Inserting, Answering, Via
<1>6. ExpiredIsRemembered'
    BY DEF IInv, ExpiredIsRemembered, TypeOK, WatchRecord, Request
<1>7. ShownPendingIsOpen'
    BY DEF IInv, ShownPendingIsOpen, TypeOK, WatchRecord, handlerVars,
        Answering
<1>8. (Slotted /\ AnswerReachesAgent)'
    BY DEF IInv, Slotted, AnswerReachesAgent, WatchRecord, agentVars,
        handlerVars
<1>. QED
    BY <1>1, <1>2, <1>3, <1>4, <1>5, <1>6, <1>7, <1>8 DEF IInv

LEMMA WatchExpireStep ==
    ASSUME IInv, NEW q \in Request, WatchExpire(q)
    PROVE  IInv'
<1>1. TypeOK'
    BY DEF IInv, TypeOK, WatchExpire, agentVars, handlerVars, Status
<1>2. Slotted'
    BY DEF IInv, Slotted, Watched, WatchExpire, agentVars
<1>3. Reading'
    BY DEF IInv, Reading, Watched, WatchExpire, agentVars
<1>4. Watched'
    BY DEF IInv, Watched, TypeOK, WatchExpire, handlerVars
<1>5. Held'
    BY DEF IInv, Held, Holds, WatchExpire, handlerVars
<1>6. OpenIsServed'
    BY DEF IInv, OpenIsServed, TypeOK, WatchExpire, agentVars,
        handlerVars, Inserting, Answering, Via
<1>7. AnswerReachesAgent'
    BY DEF IInv, AnswerReachesAgent, TypeOK, Watched, WatchExpire,
        handlerVars, Status
<1>8. ExpiredIsRemembered'
    BY DEF IInv, ExpiredIsRemembered, WatchExpire
<1>9. ShownPendingIsOpen'
    BY DEF IInv, ShownPendingIsOpen, TypeOK, WatchExpire, handlerVars,
        Answering
<1>. QED
    BY <1>1, <1>2, <1>3, <1>4, <1>5, <1>6, <1>7, <1>8, <1>9 DEF IInv

LEMMA WatchTooLateStep ==
    ASSUME IInv, NEW q \in Request, WatchTooLate(q)
    PROVE  IInv'
<1>1. TypeOK'
    BY DEF IInv, TypeOK, WatchTooLate, agentVars, handlerVars
<1>2. Reading'
    BY DEF IInv, Reading, WatchTooLate, agentVars
<1>3. Watched'
    BY DEF IInv, Watched, WatchTooLate, handlerVars
<1>4. Held'
    BY DEF IInv, Held, Holds, WatchTooLate, handlerVars
<1>5. OpenIsServed'
    BY DEF IInv, OpenIsServed, WatchTooLate, agentVars, handlerVars,
        Inserting, Answering, Via
<1>6. ExpiredIsRemembered'
    BY DEF IInv, ExpiredIsRemembered, WatchTooLate
<1>7. ShownPendingIsOpen'
    BY DEF IInv, ShownPendingIsOpen, WatchTooLate, handlerVars,
        Answering
<1>8. (Slotted /\ AnswerReachesAgent)'
    BY DEF IInv, Slotted, AnswerReachesAgent, WatchTooLate, agentVars,
        handlerVars
<1>. QED
    BY <1>1, <1>2, <1>3, <1>4, <1>5, <1>6, <1>7, <1>8 DEF IInv

LEMMA WatchPatchStep ==
    ASSUME IInv, NEW q \in Request, WatchPatch(q)
    PROVE  IInv'
<1>1. TypeOK'
    BY DEF IInv, TypeOK, WatchPatch, Patched, agentVars, handlerVars,
        ToolStatus
<1>2. Reading'
    BY DEF IInv, Reading, WatchPatch, agentVars
<1>3. Watched'
    BY DEF IInv, Watched, WatchPatch, handlerVars
<1>4. Held'
    BY DEF IInv, Held, Holds, WatchPatch, handlerVars
<1>5. OpenIsServed'
    BY DEF IInv, OpenIsServed, WatchPatch, agentVars, handlerVars,
        Inserting, Answering, Via
<1>6. ExpiredIsRemembered'
    BY DEF IInv, ExpiredIsRemembered, WatchPatch
<1>7. ShownPendingIsOpen'
    BY DEF IInv, ShownPendingIsOpen, TypeOK, WatchPatch, Patched,
        handlerVars, Answering
<1>8. (Slotted /\ AnswerReachesAgent)'
    BY DEF IInv, Slotted, AnswerReachesAgent, WatchPatch, agentVars,
        handlerVars
<1>. QED
    BY <1>1, <1>2, <1>3, <1>4, <1>5, <1>6, <1>7, <1>8 DEF IInv

LEMMA ToolUseLoggedStep ==
    ASSUME IInv, NEW q \in Request, ToolUseLogged(q)
    PROVE  IInv'
<1>1. TypeOK'
    BY DEF IInv, TypeOK, ToolUseLogged, agentVars, serviceVars,
        handlerVars, ToolStatus
<1>2. ShownPendingIsOpen'
    BY DEF IInv, ShownPendingIsOpen, ToolUseLogged, serviceVars,
        handlerVars, Answering
<1>3. (Slotted /\ Reading /\ Watched /\ Held /\ OpenIsServed /\ AnswerReachesAgent /\ ExpiredIsRemembered)'
    BY DEF IInv, Slotted, Reading, Watched, Held, OpenIsServed,
        AnswerReachesAgent, ExpiredIsRemembered, Holds, ToolUseLogged,
        agentVars, serviceVars, handlerVars, Inserting, Answering, Via
<1>. QED
    BY <1>1, <1>2, <1>3 DEF IInv

LEMMA ToolFinishedStep ==
    ASSUME IInv, NEW q \in Request, ToolFinished(q)
    PROVE  IInv'
<1>1. TypeOK'
    BY DEF IInv, TypeOK, ToolFinished, agentVars, serviceVars,
        handlerVars, ToolStatus
<1>2. ShownPendingIsOpen'
    BY DEF IInv, ShownPendingIsOpen, ToolFinished, serviceVars,
        handlerVars, Answering
<1>3. (Slotted /\ Reading /\ Watched /\ Held /\ OpenIsServed /\ AnswerReachesAgent /\ ExpiredIsRemembered)'
    BY DEF IInv, Slotted, Reading, Watched, Held, OpenIsServed,
        AnswerReachesAgent, ExpiredIsRemembered, Holds, ToolFinished,
        agentVars, serviceVars, handlerVars, Inserting, Answering, Via
<1>. QED
    BY <1>1, <1>2, <1>3 DEF IInv

LEMMA RespondStep ==
    ASSUME IInv, NEW r \in Responder, NEW q \in Request, NEW s \in Status, Respond(r, q, s)
    PROVE  IInv'
<1>1. TypeOK'
    BY DEF IInv, TypeOK, Respond, agentVars
<1>2. Reading'
    BY DEF IInv, Reading, Respond, agentVars
<1>3. Watched'
    BY DEF IInv, Watched, Respond
<1>4. Held'
  <2>. USE DEF IInv, TypeOK, Respond
  <2>1. ASSUME NEW x \in Responder, x # r
        PROVE  pc'[x] = pc[x] /\ target'[x] = target[x] /\ answer'[x] = answer[x]
    BY <2>1
  <2>2. pc'[r] \in {"send", "miss"} /\ target'[r] = q
    BY DEF Request
  <2>3. pc'[r] = "send" => q \in pending
    OBVIOUS
  <2>4. ASSUME NEW x \in Responder, Holds(x)', x # r
        PROVE  Holds(x) /\ target[x] \notin pending
    BY <2>1, <2>4 DEF Held, Holds
  <2>5. ASSUME NEW x \in Responder, Holds(x)'
        PROVE  /\ target'[x] \in Request
               /\ target'[x] \notin pending'
               /\ watch'[target'[x]] # "off"
               /\ told'[target'[x]] = "none"
               /\ outcome'[target'[x]] = IF pc'[x] = "send" THEN "open" ELSE answer'[x]
    <3>1. CASE x = r
      <4>1. q \in pending /\ pc'[r] = "send"
        BY <2>2, <2>3, <2>5, <3>1 DEF Holds
      <4>2. told[q] = "none"
        BY <4>1 DEF Watched, AnswerReachesAgent, Status
      <4>. QED
        BY <2>2, <3>1, <4>1, <4>2 DEF Watched
    <3>2. CASE x # r
      BY <2>1, <2>4, <2>5, <3>2 DEF Held, Holds
    <3>. QED  BY <3>1, <3>2
  <2>6. ASSUME NEW x \in Responder, NEW y \in Responder, Holds(x)', Holds(y)',
               target'[x] = target'[y]
        PROVE  x = y
    <3>1. ASSUME NEW z \in Responder, Holds(z)', z # r, Holds(r)'
          PROVE  target'[z] # target'[r]
      BY <2>1, <2>2, <2>3, <2>4, <3>1 DEF Holds
    <3>. QED
      BY <2>1, <2>4, <2>6, <3>1 DEF Held
  <2>. QED  BY <2>5, <2>6 DEF Held
<1>5. OpenIsServed'
    BY DEF IInv, OpenIsServed, TypeOK, Respond, agentVars, Inserting,
        Answering, Via
<1>6. ShownPendingIsOpen'
    BY DEF IInv, ShownPendingIsOpen, Respond, Answering
<1>7. (Slotted /\ AnswerReachesAgent /\ ExpiredIsRemembered)'
    BY DEF IInv, Slotted, AnswerReachesAgent, ExpiredIsRemembered,
        Respond, agentVars
<1>. QED
    BY <1>1, <1>2, <1>3, <1>4, <1>5, <1>6, <1>7 DEF IInv

LEMMA RespondMissStep ==
    ASSUME IInv, NEW r \in Responder, RespondMiss(r)
    PROVE  IInv'
<1>1. TypeOK'
    BY DEF IInv, TypeOK, RespondMiss, Return, agentVars, serviceVars,
        Status
<1>2. Held'
    BY DEF IInv, Held, Holds, RespondMiss, Return, serviceVars
<1>3. OpenIsServed'
    BY DEF IInv, OpenIsServed, RespondMiss, Return, agentVars,
        serviceVars, Inserting, Answering, Via
<1>4. ShownPendingIsOpen'
    BY DEF IInv, ShownPendingIsOpen, RespondMiss, Return, serviceVars,
        Answering
<1>5. (Slotted /\ Reading /\ Watched /\ AnswerReachesAgent /\ ExpiredIsRemembered)'
    BY DEF IInv, Slotted, Reading, Watched, AnswerReachesAgent,
        ExpiredIsRemembered, RespondMiss, agentVars, serviceVars
<1>. QED
    BY <1>1, <1>2, <1>3, <1>4, <1>5 DEF IInv

LEMMA RespondSendStep ==
    ASSUME IInv, NEW r \in Responder, RespondSend(r)
    PROVE  IInv'
<1>1. TypeOK'
    BY DEF IInv, TypeOK, RespondSend, Goto, agentVars
<1>2. Slotted'
    BY DEF IInv, Slotted, Held, Holds, RespondSend, agentVars
<1>3. Reading'
    BY DEF IInv, Reading, TypeOK, Held, Holds, RespondSend, agentVars,
        Status
<1>4. Watched'
    BY DEF IInv, Watched, TypeOK, Held, Holds, RespondSend, Goto, Status
<1>5. Held'
    BY DEF IInv, Held, TypeOK, Holds, RespondSend, Goto
<1>6. OpenIsServed'
  <2>. SUFFICES ASSUME NEW q \in Request, outcome'[q] = "open"
                PROVE  \/ Inserting(q)'
                       \/ q \in pending' /\ watch'[q] \in {"select", "record", "remove"}
                       \/ Answering(q, {"send"})'
    BY DEF OpenIsServed
  <2>1. CASE q = target[r]
    BY <2>1 DEF IInv, TypeOK, Status, RespondSend, Goto
  <2>2. CASE q # target[r]
    <3>1. outcome[q] = "open"
      BY <2>2 DEF IInv, TypeOK, RespondSend
    <3>2. ASSUME Answering(q, {"send"})
          PROVE  Answering(q, {"send"})'
      BY <2>2, <3>2 DEF IInv, TypeOK, RespondSend, Goto, Answering
    <3>. QED
      BY <3>1, <3>2 DEF IInv, OpenIsServed, RespondSend, Inserting, Via, agentVars
  <2>. QED  BY <2>1, <2>2
<1>7. AnswerReachesAgent'
    BY DEF IInv, AnswerReachesAgent, Held, Holds, RespondSend, Goto
<1>8. ExpiredIsRemembered'
    BY DEF IInv, ExpiredIsRemembered, TypeOK, RespondSend, Status
<1>9. ShownPendingIsOpen'
    BY DEF IInv, ShownPendingIsOpen, TypeOK, RespondSend, Goto,
        Answering
<1>. QED
    BY <1>1, <1>2, <1>3, <1>4, <1>5, <1>6, <1>7, <1>8, <1>9 DEF IInv

LEMMA RespondInvalidStep ==
    ASSUME IInv, NEW r \in Responder, RespondInvalid(r)
    PROVE  IInv'
<1>1. TypeOK'
    BY DEF IInv, TypeOK, RespondInvalid, Return, Invalid, agentVars,
        serviceVars
<1>2. Held'
    BY DEF IInv, Held, TypeOK, Holds, RespondInvalid, Return,
        serviceVars
<1>3. OpenIsServed'
    BY DEF IInv, OpenIsServed, RespondInvalid, Return, agentVars,
        serviceVars, Inserting, Answering, Via
<1>4. ShownPendingIsOpen'
    BY DEF IInv, ShownPendingIsOpen, Held, Holds, RespondInvalid,
        Return, Invalid, serviceVars, Answering
<1>5. (Slotted /\ Reading /\ Watched /\ AnswerReachesAgent /\ ExpiredIsRemembered)'
    BY DEF IInv, Slotted, Reading, Watched, AnswerReachesAgent,
        ExpiredIsRemembered, RespondInvalid, agentVars, serviceVars
<1>. QED
    BY <1>1, <1>2, <1>3, <1>4, <1>5 DEF IInv

LEMMA RespondPatchStep ==
    ASSUME IInv, NEW r \in Responder, RespondPatch(r)
    PROVE  IInv'
<1>1. TypeOK'
    BY DEF IInv, TypeOK, RespondPatch, Goto, Patched,
        FromApprovalStatus, agentVars, serviceVars, ToolStatus
<1>2. Held'
    BY DEF IInv, Held, Holds, RespondPatch, Goto, serviceVars
<1>3. OpenIsServed'
    BY DEF IInv, OpenIsServed, RespondPatch, Goto, agentVars,
        serviceVars, Inserting, Answering, Via
<1>4. ShownPendingIsOpen'
    BY DEF IInv, ShownPendingIsOpen, TypeOK, RespondPatch, Goto,
        Patched, FromApprovalStatus, serviceVars, Answering
<1>5. (Slotted /\ Reading /\ Watched /\ AnswerReachesAgent /\ ExpiredIsRemembered)'
    BY DEF IInv, Slotted, Reading, Watched, AnswerReachesAgent,
        ExpiredIsRemembered, RespondPatch, Goto, agentVars, serviceVars
<1>. QED
    BY <1>1, <1>2, <1>3, <1>4, <1>5 DEF IInv

LEMMA RespondNoDecisionStep ==
    ASSUME IInv, NEW r \in Responder, RespondNoDecision(r)
    PROVE  IInv'
<1>1. TypeOK'
    BY DEF IInv, TypeOK, RespondNoDecision, ReturnOk, Return, Patched,
        FromApprovalStatus, Invalid, agentVars, serviceVars, Status,
        ToolStatus
<1>2. Watched'
    BY DEF IInv, Watched, Held, Holds, RespondNoDecision, ReturnOk,
        serviceVars
<1>3. Held'
    BY DEF IInv, Held, TypeOK, Holds, RespondNoDecision, ReturnOk,
        Return, serviceVars
<1>4. OpenIsServed'
    BY DEF IInv, OpenIsServed, RespondNoDecision, ReturnOk, Return,
        agentVars, serviceVars, Inserting, Answering, Via
<1>5. AnswerReachesAgent'
    BY DEF IInv, AnswerReachesAgent, Held, Holds, RespondNoDecision,
        ReturnOk, serviceVars
<1>6. ShownPendingIsOpen'
    BY DEF IInv, ShownPendingIsOpen, TypeOK, RespondNoDecision,
        ReturnOk, Return, Patched, FromApprovalStatus, serviceVars, Status,
        Answering
<1>7. (Slotted /\ Reading /\ ExpiredIsRemembered)'
    BY DEF IInv, Slotted, Reading, ExpiredIsRemembered,
        RespondNoDecision, agentVars, serviceVars
<1>. QED
    BY <1>1, <1>2, <1>3, <1>4, <1>5, <1>6, <1>7 DEF IInv

LEMMA RespondLoadStep ==
    ASSUME IInv, NEW r \in Responder, RespondLoad(r)
    PROVE  IInv'
<1>1. TypeOK'
    BY DEF IInv, TypeOK, RespondLoad, Goto, agentVars, serviceVars
<1>2. Held'
    BY DEF IInv, Held, Holds, RespondLoad, Goto, serviceVars
<1>3. OpenIsServed'
    BY DEF IInv, OpenIsServed, RespondLoad, Goto, agentVars,
        serviceVars, Inserting, Answering, Via
<1>4. ShownPendingIsOpen'
    BY DEF IInv, ShownPendingIsOpen, RespondLoad, Goto, serviceVars,
        Answering
<1>5. (Slotted /\ Reading /\ Watched /\ AnswerReachesAgent /\ ExpiredIsRemembered)'
    BY DEF IInv, Slotted, Reading, Watched, AnswerReachesAgent,
        ExpiredIsRemembered, RespondLoad, Goto, agentVars, serviceVars
<1>. QED
    BY <1>1, <1>2, <1>3, <1>4, <1>5 DEF IInv

LEMMA RespondNoResumeStep ==
    ASSUME IInv, NEW r \in Responder, RespondNoResume(r)
    PROVE  IInv'
<1>1. TypeOK'
    BY DEF IInv, TypeOK, RespondNoResume, ReturnOk, Return, agentVars,
        serviceVars, Status
<1>2. Watched'
    BY DEF IInv, Watched, Held, Holds, RespondNoResume, ReturnOk,
        serviceVars
<1>3. Held'
    BY DEF IInv, Held, TypeOK, Holds, RespondNoResume, ReturnOk, Return,
        serviceVars
<1>4. OpenIsServed'
    BY DEF IInv, OpenIsServed, RespondNoResume, ReturnOk, Return,
        agentVars, serviceVars, Inserting, Answering, Via
<1>5. AnswerReachesAgent'
    BY DEF IInv, AnswerReachesAgent, Held, Holds, RespondNoResume,
        ReturnOk, serviceVars
<1>6. ShownPendingIsOpen'
    BY DEF IInv, ShownPendingIsOpen, RespondNoResume, ReturnOk, Return,
        serviceVars, Answering
<1>7. (Slotted /\ Reading /\ ExpiredIsRemembered)'
    BY DEF IInv, Slotted, Reading, ExpiredIsRemembered, RespondNoResume,
        agentVars, serviceVars
<1>. QED
    BY <1>1, <1>2, <1>3, <1>4, <1>5, <1>6, <1>7 DEF IInv

LEMMA RespondResumeStep ==
    ASSUME IInv, NEW r \in Responder, RespondResume(r)
    PROVE  IInv'
<1>1. TypeOK'
    BY DEF IInv, TypeOK, RespondResume, ReturnOk, Return, agentVars,
        serviceVars, Status, TaskStatus
<1>2. Watched'
    BY DEF IInv, Watched, Held, Holds, RespondResume, ReturnOk,
        serviceVars
<1>3. Held'
    BY DEF IInv, Held, TypeOK, Holds, RespondResume, ReturnOk, Return,
        serviceVars
<1>4. OpenIsServed'
    BY DEF IInv, OpenIsServed, RespondResume, ReturnOk, Return,
        agentVars, serviceVars, Inserting, Answering, Via
<1>5. AnswerReachesAgent'
    BY DEF IInv, AnswerReachesAgent, Held, Holds, RespondResume,
        ReturnOk, serviceVars
<1>6. ShownPendingIsOpen'
    BY DEF IInv, ShownPendingIsOpen, RespondResume, ReturnOk, Return,
        serviceVars, Answering
<1>7. (Slotted /\ Reading /\ ExpiredIsRemembered)'
    BY DEF IInv, Slotted, Reading, ExpiredIsRemembered, RespondResume,
        agentVars, serviceVars
<1>. QED
    BY <1>1, <1>2, <1>3, <1>4, <1>5, <1>6, <1>7 DEF IInv

LEMMA DisconnectStep ==
    ASSUME IInv, NEW r \in Responder, Disconnect(r)
    PROVE  IInv'
<1>1. TypeOK'
    BY DEF IInv, TypeOK, Held, Holds, Disconnect, Return, agentVars,
        serviceVars, Status
<1>2. Held'
    BY DEF IInv, Held, TypeOK, Holds, Disconnect, Return, serviceVars
<1>3. OpenIsServed'
    BY DEF IInv, OpenIsServed, Disconnect, Return, agentVars,
        serviceVars, Inserting, Answering, Via
<1>4. ShownPendingIsOpen'
    BY DEF IInv, ShownPendingIsOpen, Disconnect, Return, serviceVars,
        Answering
<1>5. (Slotted /\ Reading /\ Watched /\ AnswerReachesAgent /\ ExpiredIsRemembered)'
    BY DEF IInv, Slotted, Reading, Watched, AnswerReachesAgent,
        ExpiredIsRemembered, Disconnect, agentVars, serviceVars
<1>. QED
    BY <1>1, <1>2, <1>3, <1>4, <1>5 DEF IInv

LEMMA UserMovesTaskStep ==
    ASSUME IInv, NEW s \in TaskStatus, UserMovesTask(s)
    PROVE  IInv'
<1>1. TypeOK'
    BY DEF IInv, TypeOK, UserMovesTask, agentVars, serviceVars,
        handlerVars
<1>2. (Slotted /\ Reading /\ Watched /\ Held /\ OpenIsServed /\ AnswerReachesAgent /\ ExpiredIsRemembered /\ ShownPendingIsOpen)'
    BY DEF IInv, Slotted, Reading, Watched, Held, OpenIsServed,
        AnswerReachesAgent, ExpiredIsRemembered, ShownPendingIsOpen, Holds,
        UserMovesTask, agentVars, serviceVars, handlerVars, Inserting,
        Answering, Via
<1>. QED
    BY <1>1, <1>2 DEF IInv

-----------------------------------------------------------------------------
(* The invariant holds in every state. *)

LEMMA StutterStep ==
    ASSUME IInv, UNCHANGED vars
    PROVE  IInv'
BY DEF IInv, vars, agentVars, serviceVars, handlerVars, TypeOK, Slotted, Reading,
       Watched, Held, Holds, OpenIsServed, AnswerReachesAgent, ExpiredIsRemembered,
       ShownPendingIsOpen, Inserting, Answering, Via

LEMMA InitInv == Init => IInv
<1>. SUFFICES ASSUME Init  PROVE  IInv
  OBVIOUS
<1>1. TypeOK
  BY DEF Init, TypeOK, Status, TaskStatus, ToolStatus
<1>2. Slotted /\ Reading /\ Watched /\ Held
  BY DEF Init, Slotted, Reading, Watched, Held, Holds
<1>3. OpenIsServed /\ AnswerReachesAgent /\ ExpiredIsRemembered /\ ShownPendingIsOpen
  BY DEF Init, OpenIsServed, AnswerReachesAgent, ExpiredIsRemembered, ShownPendingIsOpen
<1>. QED
  BY <1>1, <1>2, <1>3 DEF IInv

LEMMA NextInv == IInv /\ [Next]_vars => IInv'
<1>. SUFFICES ASSUME IInv, [Next]_vars  PROVE  IInv'
  OBVIOUS
<1>1. ASSUME NEW e \in Exec, NEW c \in Call,
             HookCallback(e, c) \/ AutoApprove(e, c) \/ CanUseTool(e, c)
      PROVE  IInv'
  BY <1>1, HookCallbackStep, AutoApproveStep, CanUseToolStep
<1>2. ASSUME NEW e \in Exec, Reader(e) \/ ExecutionEnds(e)
      PROVE  IInv'
  BY <1>2, EnsureLoadStep, EnsureInReviewStep, CreatePatchStep, CreateInsertStep,
     CreateUnmatchedStep, WaiterWakesStep, ExecutionEndsStep DEF Reader
<1>3. ASSUME NEW q \in Request, Watcher(q) \/ ToolUseLogged(q) \/ ToolFinished(q)
      PROVE  IInv'
  BY <1>3, WatchResolvedStep, WatchDeadlineStep, WatchRecordStep, WatchExpireStep,
     WatchTooLateStep, WatchPatchStep, ToolUseLoggedStep, ToolFinishedStep DEF Watcher
<1>4. ASSUME NEW r \in Responder, NEW q \in Request, NEW s \in Status, Respond(r, q, s)
      PROVE  IInv'
  BY <1>4, RespondStep
<1>5. ASSUME NEW r \in Responder, Handler(r) \/ Disconnect(r)
      PROVE  IInv'
  BY <1>5, RespondMissStep, RespondSendStep, RespondInvalidStep, RespondPatchStep,
     RespondNoDecisionStep, RespondLoadStep, RespondNoResumeStep, RespondResumeStep,
     DisconnectStep DEF Handler
<1>6. ASSUME NEW s \in TaskStatus, UserMovesTask(s)
      PROVE  IInv'
  BY <1>6, UserMovesTaskStep
<1>. QED
  BY <1>1, <1>2, <1>3, <1>4, <1>5, <1>6, StutterStep DEF Next

LEMMA Invariance == Spec => []IInv
BY InitInv, NextInv, PTL DEF Spec

(* Every variable keeps its type. *)
THEOREM TypeCorrect == Spec => []TypeOK
<1>1. IInv => TypeOK
  BY DEF IInv
<1>. QED
  BY <1>1, Invariance, PTL

(* respond and the watcher never both settle a request: the client that is told
   Ok is told what the agent gets. *)
THEOREM AnswersReachAgents == Spec => []AnswerReachesAgent
<1>1. IInv => AnswerReachesAgent
  BY DEF IInv
<1>. QED
  BY <1>1, Invariance, PTL

(* create_with_waiter, respond and the watcher never lose the sender of a
   request on which an agent waits. *)
THEOREM OpenServed == Spec => []OpenIsServed
<1>1. IInv => OpenIsServed
  BY DEF IInv
<1>. QED
  BY <1>1, Invariance, PTL

(* The watcher records a request as completed before it takes it out of
   pending. *)
THEOREM ExpiredRemembered == Spec => []ExpiredIsRemembered
<1>1. IInv => ExpiredIsRemembered
  BY DEF IInv
<1>. QED
  BY <1>1, Invariance, PTL

(* Whoever settles a request also takes its PendingApproval out of the
   conversation, unless it is dropped or has no status to show. *)
THEOREM ShownPendingOpen == Spec => []ShownPendingIsOpen
<1>1. IInv => ShownPendingIsOpen
  BY DEF IInv
<1>. QED
  BY <1>1, Invariance, PTL

-----------------------------------------------------------------------------
(* The service implements the safety part of ApprovalOutcome. *)

LEMMA InitPromise == Init => Promise!Init
BY DEF Init, Promise!Init

(* The steps that settle a request or report an answer. *)
LEMMA SettlingStep ==
    ASSUME IInv, NEW q \in Request,
           WatchExpire(q)
    PROVE  Promise!Settle(q)
BY DEF IInv, Watched, WatchExpire, handlerVars, Promise!Settle, Promise!Status

LEMMA AskingStep ==
    ASSUME IInv, NEW e \in Exec, CreatePatch(e) \/ CreateUnmatched(e)
    PROVE  \E q \in Request : Promise!Ask(q)
<1>1. Via(e) \in Request /\ outcome[Via(e)] = "none"
  BY DEF IInv, Reading, Via, Request, CreatePatch, CreateUnmatched
<1>2. Promise!Ask(Via(e))
  BY <1>1 DEF CreatePatch, CreateUnmatched, handlerVars, Promise!Ask
<1>. QED
  BY <1>1, <1>2

LEMMA AnsweringStep ==
    ASSUME IInv, NEW r \in Responder, RespondSend(r)
    PROVE  \E q \in Request : Promise!Settle(q)
<1>1. target[r] \in Request /\ outcome[target[r]] = "open" /\ answer[r] \in Promise!Status
  BY DEF IInv, TypeOK, Status, Promise!Status, Held, Holds, RespondSend
<1>2. Promise!Settle(target[r])
  BY <1>1 DEF RespondSend, Goto, Promise!Settle
<1>. QED
  BY <1>1, <1>2

LEMMA TellingStep ==
    ASSUME IInv, NEW r \in Responder, Holds(r), pc[r] # "send", ReturnOk(r),
           UNCHANGED outcome
    PROVE  \E q \in Request : Promise!Tell(q)
<1>1. /\ target[r] \in Request /\ told[target[r]] = "none"
      /\ outcome[target[r]] = answer[r] /\ answer[r] \in Promise!Status
  BY DEF IInv, TypeOK, Status, Promise!Status, Held
<1>2. Promise!Tell(target[r])
  BY <1>1 DEF ReturnOk, Promise!Tell
<1>. QED
  BY <1>1, <1>2

LEMMA NextPromise == IInv /\ [Next]_vars => [Promise!Next]_(Promise!vars)
<1>. SUFFICES ASSUME IInv, [Next]_vars
              PROVE  Promise!Next \/ UNCHANGED <<outcome, told>>
  BY DEF Promise!vars
<1>1. ASSUME NEW e \in Exec, NEW c \in Call,
             HookCallback(e, c) \/ AutoApprove(e, c) \/ CanUseTool(e, c)
      PROVE  UNCHANGED <<outcome, told>>
  BY <1>1 DEF HookCallback, AutoApprove, CanUseTool, serviceVars, handlerVars
<1>2. ASSUME NEW e \in Exec, Reader(e) \/ ExecutionEnds(e)
      PROVE  Promise!Next \/ UNCHANGED <<outcome, told>>
  <2>1. CASE CreatePatch(e) \/ CreateUnmatched(e)
    BY <2>1, AskingStep DEF Promise!Next
  <2>2. CASE ~(CreatePatch(e) \/ CreateUnmatched(e))
    BY <1>2, <2>2 DEF Reader, EnsureLoad, EnsureInReview, CreateInsert, WaiterWakes,
       ExecutionEnds, serviceVars, handlerVars
  <2>. QED  BY <2>1, <2>2
<1>3. ASSUME NEW q \in Request, Watcher(q) \/ ToolUseLogged(q) \/ ToolFinished(q)
      PROVE  Promise!Next \/ UNCHANGED <<outcome, told>>
  <2>1. CASE WatchExpire(q)
    BY <2>1, SettlingStep DEF Promise!Next
  <2>2. CASE ~WatchExpire(q)
    BY <1>3, <2>2 DEF Watcher, WatchResolved, WatchDeadline, WatchRecord, WatchTooLate,
       WatchPatch, ToolUseLogged, ToolFinished, serviceVars, handlerVars
  <2>. QED  BY <2>1, <2>2
<1>4. ASSUME NEW r \in Responder, NEW q \in Request, NEW s \in Status, Respond(r, q, s)
      PROVE  UNCHANGED <<outcome, told>>
  BY <1>4 DEF Respond
<1>5. ASSUME NEW r \in Responder, Handler(r) \/ Disconnect(r)
      PROVE  Promise!Next \/ UNCHANGED <<outcome, told>>
  <2>1. CASE RespondSend(r)
    BY <2>1, AnsweringStep DEF Promise!Next
  <2>2. CASE RespondNoDecision(r) \/ RespondNoResume(r) \/ RespondResume(r)
    <3>1. Holds(r) /\ pc[r] # "send" /\ ReturnOk(r) /\ UNCHANGED outcome
      BY <2>2 DEF RespondNoDecision, RespondNoResume, RespondResume, Holds, serviceVars
    <3>. QED  BY <3>1, TellingStep DEF Promise!Next
  <2>3. CASE RespondMiss(r) \/ RespondInvalid(r) \/ RespondPatch(r) \/ RespondLoad(r)
               \/ Disconnect(r)
    BY <2>3 DEF RespondMiss, RespondInvalid, RespondPatch, RespondLoad, Disconnect,
       Goto, serviceVars
  <2>. QED  BY <1>5, <2>1, <2>2, <2>3 DEF Handler
<1>6. ASSUME NEW s \in TaskStatus, UserMovesTask(s)
      PROVE  UNCHANGED <<outcome, told>>
  BY <1>6 DEF UserMovesTask, serviceVars, handlerVars
<1>7. CASE UNCHANGED vars
  BY <1>7 DEF vars, serviceVars, handlerVars
<1>. QED
  BY <1>1, <1>2, <1>3, <1>4, <1>5, <1>6, <1>7 DEF Next

(* Answers, deadlines, drops and stops in any order give each request one
   outcome, and an accepted answer reports it once. *)
THEOREM Refinement == Spec => Promise!Safe
BY Invariance, InitPromise, NextPromise, PTL DEF Spec, Promise!Safe
=============================================================================
