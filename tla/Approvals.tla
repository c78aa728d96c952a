------------------------------ MODULE Approvals ------------------------------
(***************************************************************************)
(* Approval of tool uses: the client of the Claude control protocol that   *)
(* pairs hook callbacks with permission requests, the bridge that moves    *)
(* the task to InReview and waits, the approval service with its pending   *)
(* and completed maps, the timeout watcher spawned for every request, and  *)
(* the HTTP handlers that answer.                                          *)
(*                                                                         *)
(* The executions are those of one task.  The reader loop of an execution  *)
(* handles one control request at a time, so it asks for one approval at a *)
(* time.  A tool use triggers at most one hook callback, hence a request   *)
(* is named by the tool use whose id it carries.  The maps are concurrent  *)
(* maps: each operation on them is a step.  Database calls succeed.        *)
(***************************************************************************)
EXTENDS Integers, FiniteSets

CONSTANTS
    Exec,       \* executions of the task
    Call,       \* tool uses of an execution
    NoCall,     \* no tool use id
    Responder,  \* HTTP handlers that may be in flight at the same time
    MaxCut      \* bound: handlers dropped because the client disconnected

ASSUME ApprovalAssumption == NoCall \notin Call /\ MaxCut \in Nat

Request   == Exec \X Call
NoRequest == <<NoCall, NoCall>>

(* ApprovalStatus; the client of respond chooses any of them. *)
Status == {"approved", "denied", "timed_out", "pending"}

TaskStatus == {"inprogress", "inreview", "done"}

(* ToolStatus of an entry of the conversation, "none" before the entry. *)
ToolStatus == {"none", "created", "pending_approval", "denied", "timed_out", "finished"}

VARIABLES
    task,       \* status of the task
    alive,      \* executions whose child runs and whose MsgStore is in the map
    \* the agent and the reader loop of each execution
    use,        \* of each tool use, what the agent knows
    slot,       \* latest_unhandled_tool_use_id
    at,         \* program counter of the reader loop
    about,      \* the tool use that asks for permission
    via,        \* the tool use id taken from the slot
    \* the approval service
    shown,      \* status of the entry of each tool use in the conversation
    pending,    \* keys of pending
    completed,  \* value of each key of completed, "none" without
    outcome,    \* value of the oneshot of each request
    watch,      \* program counter of the timeout watcher of each request
    \* the handlers
    pc, target, answer,
    told,       \* history: the answer that respond returned with Ok
    cut         \* history: requests whose handler was dropped at an await

agentVars   == <<use, slot, at, about, via>>
serviceVars == <<pending, completed, outcome, watch>>
handlerVars == <<pc, target, answer, told, cut>>
vars == <<task, alive, agentVars, shown, serviceVars, handlerVars>>

ExecOf(q) == q[1]
Via(e)    == <<e, via[e]>>

Init ==
    /\ task = "inprogress"
    /\ alive = Exec
    /\ use = [q \in Request |-> "new"]
    /\ slot = [e \in Exec |-> NoCall]
    /\ at = [e \in Exec |-> "read"]
    /\ about = [e \in Exec |-> NoCall]
    /\ via = [e \in Exec |-> NoCall]
    /\ shown = [q \in Request |-> "none"]
    /\ pending = {}
    /\ completed = [q \in Request |-> "none"]
    /\ outcome = [q \in Request |-> "none"]
    /\ watch = [q \in Request |-> "off"]
    /\ pc = [r \in Responder |-> "idle"]
    /\ target = [r \in Responder |-> NoRequest]
    /\ answer = [r \in Responder |-> "pending"]
    /\ told = [q \in Request |-> "none"]
    /\ cut = {}

-----------------------------------------------------------------------------
(* The agent and its client *)

(* read_loop: control messages are handled one at a time. *)
Reads(e) == e \in alive /\ at[e] = "read"

(* on_hook_callback: the id of the tool use is kept for the permission
   request that the answer "ask" triggers; an unhandled id is overwritten. *)
HookCallback(e, c) ==
    /\ Reads(e) /\ use[<<e, c>>] = "new"
    /\ use' = [use EXCEPT ![<<e, c>>] = "hooked"]
    /\ slot' = [slot EXCEPT ![e] = c]
    /\ UNCHANGED <<task, alive, at, about, via, shown, serviceVars, handlerVars>>

(* on_can_use_tool without an unhandled id: the tool is allowed. *)
AutoApprove(e, c) ==
    /\ Reads(e) /\ use[<<e, c>>] \in {"new", "hooked"}
    /\ slot[e] = NoCall
    /\ use' = [use EXCEPT ![<<e, c>>] =
                  IF @ = "hooked" THEN "hooked_unasked" ELSE "unasked"]
    /\ UNCHANGED <<task, alive, slot, at, about, via, shown, serviceVars, handlerVars>>

(* on_can_use_tool takes the id and handle_approval calls the bridge. *)
CanUseTool(e, c) ==
    /\ Reads(e) /\ use[<<e, c>>] \in {"new", "hooked"}
    /\ slot[e] # NoCall
    /\ via' = [via EXCEPT ![e] = slot[e]]
    /\ about' = [about EXCEPT ![e] = c]
    /\ slot' = [slot EXCEPT ![e] = NoCall]
    /\ use' = [use EXCEPT ![<<e, c>>] = "asking"]
    /\ at' = [at EXCEPT ![e] = "load"]
    /\ UNCHANGED <<task, alive, shown, serviceVars, handlerVars>>

(* ensure_task_in_review reads the task and writes its status in two queries. *)
EnsureLoad(e) ==
    /\ at[e] = "load"
    /\ at' = [at EXCEPT ![e] = IF task = "inprogress" THEN "review" ELSE "create"]
    /\ UNCHANGED <<task, alive, use, slot, about, via, shown, serviceVars, handlerVars>>

EnsureInReview(e) ==
    /\ at[e] = "review"
    /\ task' = "inreview"
    /\ at' = [at EXCEPT ![e] = "create"]
    /\ UNCHANGED <<alive, use, slot, about, via, shown, serviceVars, handlerVars>>

(* find_matching_tool_use: the history of the MsgStore is searched backwards
   for a patch that shows the tool use as Created.  Every tool use is shown as
   Created first, and patches stay in the history. *)
Matches(q) == ExecOf(q) \in alive /\ shown[q] # "none"

(* create_with_waiter: the entry is patched before the request is pending. *)
CreatePatch(e) ==
    /\ at[e] = "create" /\ Matches(Via(e))
    /\ shown' = [shown EXCEPT ![Via(e)] = "pending_approval"]
    /\ outcome' = [outcome EXCEPT ![Via(e)] = "open"]
    /\ at' = [at EXCEPT ![e] = "insert"]
    /\ UNCHANGED <<task, alive, use, slot, about, via, pending, completed, watch, handlerVars>>

(* Mutant: the request is pending without a timeout watcher. *)
InsertUnwatched(e) ==
    /\ at[e] = "insert"
    /\ pending' = pending \cup {Via(e)}
    /\ at' = [at EXCEPT ![e] = "wait"]
    /\ UNCHANGED <<task, alive, use, slot, about, via, shown, completed, outcome, watch,
                   handlerVars>>

CreateInsert(e) ==
    /\ at[e] = "insert"
    /\ pending' = pending \cup {Via(e)}
    /\ watch' = [watch EXCEPT ![Via(e)] = "select"]
    /\ at' = [at EXCEPT ![e] = "wait"]
    /\ UNCHANGED <<task, alive, use, slot, about, via, shown, completed, outcome, handlerVars>>

(* Without an entry the sender is dropped, which the waiter takes for TimedOut. *)
CreateUnmatched(e) ==
    /\ at[e] = "create" /\ ~Matches(Via(e))
    /\ outcome' = [outcome EXCEPT ![Via(e)] = "timed_out"]
    /\ watch' = [watch EXCEPT ![Via(e)] = "select"]
    /\ at' = [at EXCEPT ![e] = "wait"]
    /\ UNCHANGED <<task, alive, use, slot, about, via, shown, pending, completed, handlerVars>>

(* request_tool_approval returns; all but Approved denies the tool use. *)
WaiterWakes(e) ==
    /\ at[e] = "wait" /\ outcome[Via(e)] # "open"
    /\ use' = [use EXCEPT ![<<e, about[e]>>] =
                  IF outcome[Via(e)] = "approved" THEN "allowed" ELSE "denied"]
    /\ at' = [at EXCEPT ![e] = "read"]
    /\ about' = [about EXCEPT ![e] = NoCall]
    /\ via' = [via EXCEPT ![e] = NoCall]
    /\ UNCHANGED <<task, alive, slot, shown, serviceVars, handlerVars>>

-----------------------------------------------------------------------------
(* The timeout watcher *)

(* The biased select prefers the waiter to the deadline. *)
WatchResolved(q) ==
    /\ watch[q] = "select" /\ outcome[q] # "open"
    /\ completed' = [completed EXCEPT ![q] = outcome[q]]
    /\ watch' = [watch EXCEPT ![q] = IF outcome[q] = "timed_out" THEN "remove" ELSE "done"]
    /\ UNCHANGED <<task, alive, agentVars, shown, pending, outcome, handlerVars>>

(* Mutant: the watcher waits for the answer only. *)
NoDeadline(q) == FALSE

WatchDeadline(q) ==
    /\ watch[q] = "select" /\ outcome[q] = "open"
    /\ watch' = [watch EXCEPT ![q] = "record"]
    /\ UNCHANGED <<task, alive, agentVars, shown, pending, completed, outcome, handlerVars>>

WatchRecord(q) ==
    /\ watch[q] = "record"
    /\ completed' = [completed EXCEPT ![q] = "timed_out"]
    /\ watch' = [watch EXCEPT ![q] = "remove"]
    /\ UNCHANGED <<task, alive, agentVars, shown, pending, outcome, handlerVars>>

(* Mutant: the conversation does not learn that a request has expired. *)
ExpireUnshown(q) ==
    /\ watch[q] = "remove" /\ q \in pending
    /\ pending' = pending \ {q}
    /\ outcome' = [outcome EXCEPT ![q] = "timed_out"]
    /\ watch' = [watch EXCEPT ![q] = "done"]
    /\ UNCHANGED <<task, alive, agentVars, shown, completed, handlerVars>>

(* Whoever removes the request from pending owns its sender. *)
WatchExpire(q) ==
    /\ watch[q] = "remove" /\ q \in pending
    /\ pending' = pending \ {q}
    /\ outcome' = [outcome EXCEPT ![q] = "timed_out"]
    /\ watch' = [watch EXCEPT ![q] = "patch"]
    /\ UNCHANGED <<task, alive, agentVars, shown, completed, handlerVars>>

WatchTooLate(q) ==
    /\ watch[q] = "remove" /\ q \notin pending
    /\ watch' = [watch EXCEPT ![q] = "done"]
    /\ UNCHANGED <<task, alive, agentVars, shown, pending, completed, outcome, handlerVars>>

(* push_patch reaches the conversation while the MsgStore is in the map. *)
Patched(q, s) == IF ExecOf(q) \in alive THEN [shown EXCEPT ![q] = s] ELSE shown

WatchPatch(q) ==
    /\ watch[q] = "patch"
    /\ shown' = Patched(q, "timed_out")
    /\ watch' = [watch EXCEPT ![q] = "done"]
    /\ UNCHANGED <<task, alive, agentVars, pending, completed, outcome, handlerVars>>

-----------------------------------------------------------------------------
(* The handler respond_to_approval; a client learns the id of a request from
   the patch of its entry. *)

(* Mutant: respond looks the request up and leaves it in pending. *)
RespondPeeks(r, q, s) ==
    /\ pc[r] = "idle" /\ outcome[q] # "none" /\ shown[q] # "none"
    /\ target' = [target EXCEPT ![r] = q]
    /\ answer' = [answer EXCEPT ![r] = s]
    /\ pc' = [pc EXCEPT ![r] = IF q \in pending THEN "send" ELSE "miss"]
    /\ UNCHANGED <<task, alive, agentVars, shown, serviceVars, told, cut>>

Respond(r, q, s) ==
    /\ pc[r] = "idle" /\ outcome[q] # "none" /\ shown[q] # "none"
    /\ target' = [target EXCEPT ![r] = q]
    /\ answer' = [answer EXCEPT ![r] = s]
    /\ pending' = pending \ {q}
    /\ pc' = [pc EXCEPT ![r] = IF q \in pending THEN "send" ELSE "miss"]
    /\ UNCHANGED <<task, alive, agentVars, shown, completed, outcome, watch, told, cut>>

(* The steps of a handler: on to its next statement, out of it, and out of it
   with Ok. *)
Goto(r, p) ==
    /\ pc' = [pc EXCEPT ![r] = p]
    /\ UNCHANGED <<target, answer, told>>

Return(r) ==
    /\ pc' = [pc EXCEPT ![r] = "idle"]
    /\ target' = [target EXCEPT ![r] = NoRequest]
    /\ answer' = [answer EXCEPT ![r] = "pending"]

ReturnOk(r) ==
    /\ told' = [told EXCEPT ![target[r]] = answer[r]]
    /\ Return(r)

(* AlreadyCompleted or NotFound: the handler fails either way. *)
RespondMiss(r) ==
    /\ pc[r] = "miss"
    /\ Return(r)
    /\ UNCHANGED <<task, alive, agentVars, shown, serviceVars, told, cut>>

RespondSend(r) ==
    /\ pc[r] = "send"
    /\ completed' = [completed EXCEPT ![target[r]] = answer[r]]
    /\ outcome' = [outcome EXCEPT ![target[r]] = answer[r]]
    /\ Goto(r, "patch")
    /\ UNCHANGED <<task, alive, agentVars, shown, pending, watch, cut>>

(* ToolStatus::from_approval_status; an approved tool use is Created again. *)
FromApprovalStatus(s) == IF s = "approved" THEN "created" ELSE s

(* The answer Pending has no ToolStatus: with the MsgStore in the map, the
   handler fails after it has settled the request. *)
Invalid(r) == answer[r] = "pending" /\ ExecOf(target[r]) \in alive

RespondInvalid(r) ==
    /\ pc[r] = "patch" /\ Invalid(r)
    /\ Return(r)
    /\ UNCHANGED <<task, alive, agentVars, shown, serviceVars, told, cut>>

RespondPatch(r) ==
    /\ pc[r] = "patch" /\ answer[r] \in {"approved", "denied"}
    /\ shown' = Patched(target[r], FromApprovalStatus(answer[r]))
    /\ Goto(r, "load")
    /\ UNCHANGED <<task, alive, agentVars, serviceVars, cut>>

RespondNoDecision(r) ==
    /\ pc[r] = "patch" /\ answer[r] \notin {"approved", "denied"} /\ ~Invalid(r)
    /\ shown' = Patched(target[r], FromApprovalStatus(answer[r]))
    /\ ReturnOk(r)
    /\ UNCHANGED <<task, alive, agentVars, serviceVars, cut>>

(* The task is read and written in two queries. *)
RespondLoad(r) ==
    /\ pc[r] = "load" /\ task = "inreview"
    /\ Goto(r, "resume")
    /\ UNCHANGED <<task, alive, agentVars, shown, serviceVars, cut>>

RespondNoResume(r) ==
    /\ pc[r] = "load" /\ task # "inreview"
    /\ ReturnOk(r)
    /\ UNCHANGED <<task, alive, agentVars, shown, serviceVars, cut>>

RespondResume(r) ==
    /\ pc[r] = "resume"
    /\ task' = "inprogress"
    /\ ReturnOk(r)
    /\ UNCHANGED <<alive, agentVars, shown, serviceVars, cut>>

-----------------------------------------------------------------------------
(* The rest of the system *)

(* The web server drops the future of a handler at an await. *)
Disconnect(r) ==
    /\ pc[r] \in {"patch", "load", "resume"}
    /\ Cardinality(cut) < MaxCut
    /\ cut' = cut \cup {target[r]}
    /\ Return(r)
    /\ UNCHANGED <<task, alive, agentVars, shown, serviceVars, told>>

(* The log normalizer adds the entry of a tool use, at any time relative to
   the control requests about it, and replaces it when the result of the tool
   use, which may be its denial, arrives. *)
ToolUseLogged(q) ==
    /\ ExecOf(q) \in alive /\ shown[q] = "none"
    /\ shown' = [shown EXCEPT ![q] = "created"]
    /\ UNCHANGED <<task, alive, agentVars, serviceVars, handlerVars>>

ToolFinished(q) ==
    /\ ExecOf(q) \in alive /\ shown[q] \notin {"none", "finished"}
    /\ use[q] \in {"allowed", "denied", "unasked", "hooked_unasked"}
    /\ shown' = [shown EXCEPT ![q] = "finished"]
    /\ UNCHANGED <<task, alive, agentVars, serviceVars, handlerVars>>

(* Stop or exit of an execution: the MsgStore leaves the map and the task is
   InReview.  Requests that are pending stay. *)
ExecutionEnds(e) ==
    /\ e \in alive
    /\ alive' = alive \ {e}
    /\ task' = "inreview"
    /\ UNCHANGED <<agentVars, shown, serviceVars, handlerVars>>

(* update_task: the user gives the task any status. *)
UserMovesTask(s) ==
    /\ task' = s
    /\ UNCHANGED <<alive, agentVars, shown, serviceVars, handlerVars>>

-----------------------------------------------------------------------------
Reader(e) ==
    \/ EnsureLoad(e) \/ EnsureInReview(e)
    \/ CreatePatch(e) \/ CreateInsert(e) \/ CreateUnmatched(e)
    \/ WaiterWakes(e)

Watcher(q) ==
    \/ WatchResolved(q) \/ WatchDeadline(q) \/ WatchRecord(q)
    \/ WatchExpire(q) \/ WatchTooLate(q) \/ WatchPatch(q)

Handler(r) ==
    \/ RespondMiss(r) \/ RespondSend(r)
    \/ RespondInvalid(r) \/ RespondPatch(r) \/ RespondNoDecision(r)
    \/ RespondLoad(r) \/ RespondNoResume(r) \/ RespondResume(r)

Next ==
    \/ \E e \in Exec, c \in Call :
          HookCallback(e, c) \/ AutoApprove(e, c) \/ CanUseTool(e, c)
    \/ \E e \in Exec : Reader(e) \/ ExecutionEnds(e)
    \/ \E q \in Request : Watcher(q) \/ ToolUseLogged(q) \/ ToolFinished(q)
    \/ \E r \in Responder, q \in Request, s \in Status : Respond(r, q, s)
    \/ \E r \in Responder : Handler(r) \/ Disconnect(r)
    \/ \E s \in TaskStatus : UserMovesTask(s)

Spec == Init /\ [][Next]_vars

(* Reader loops, watchers and handlers are polled whenever they are ready, and
   a deadline passes.  Nothing is assumed of the agent, the normalizer, the
   clients and the user. *)
Fairness ==
    /\ \A e \in Exec : WF_vars(Reader(e))
    /\ \A q \in Request : WF_vars(Watcher(q))
    /\ \A r \in Responder : WF_vars(Handler(r))

FairSpec == Spec /\ Fairness

-----------------------------------------------------------------------------
(* Properties *)

TypeOK ==
    /\ task \in TaskStatus
    /\ alive \in SUBSET Exec
    /\ use \in [Request -> {"new", "hooked", "asking", "allowed", "denied",
                            "unasked", "hooked_unasked"}]
    /\ slot \in [Exec -> Call \cup {NoCall}]
    /\ at \in [Exec -> {"read", "load", "review", "create", "insert", "wait"}]
    /\ about \in [Exec -> Call \cup {NoCall}]
    /\ via \in [Exec -> Call \cup {NoCall}]
    /\ shown \in [Request -> ToolStatus]
    /\ pending \in SUBSET Request
    /\ completed \in [Request -> Status \cup {"none"}]
    /\ outcome \in [Request -> Status \cup {"none", "open"}]
    /\ watch \in [Request -> {"off", "select", "record", "remove", "patch", "done"}]
    /\ pc \in [Responder -> {"idle", "send", "miss", "patch", "load", "resume"}]
    /\ target \in [Responder -> Request \cup {NoRequest}]
    /\ answer \in [Responder -> Status]
    /\ told \in [Request -> Status \cup {"none"}]
    /\ cut \in SUBSET Request

Answering(q, p) == \E r \in Responder : pc[r] \in p /\ target[r] = q
Inserting(q)    == at[ExecOf(q)] = "insert" /\ Via(ExecOf(q)) = q

(* A client whose answer was accepted is told what the agent is told, although
   other answers and the deadline compete for the request: the sender goes
   with the entry that respond or the watcher removes from pending. *)
AnswerReachesAgent ==
    \A q \in Request : told[q] # "none" => outcome[q] = told[q]

(* An agent never waits on a request that nobody can settle: while the waiter
   is open the request is being inserted, or it is pending under a watcher
   that has not given up, or a handler holds its sender. *)
OpenIsServed ==
    \A q \in Request :
        outcome[q] = "open" =>
            \/ Inserting(q)
            \/ q \in pending /\ watch[q] \in {"select", "record", "remove"}
            \/ Answering(q, {"send"})

(* A request that its watcher has taken out of pending is in completed, so a
   late answer gets AlreadyCompleted and not NotFound. *)
ExpiredIsRemembered ==
    \A q \in Request :
        watch[q] \in {"remove", "patch", "done"} => completed[q] # "none"

(* The conversation of a running execution asks for an approval only while
   the request is open or its outcome is about to be patched in; the
   exceptions are a dropped handler and an answer that is no answer. *)
ShownPendingIsOpen ==
    \A q \in Request :
        (shown[q] = "pending_approval" /\ ExecOf(q) \in alive) =>
            \/ outcome[q] = "open"
            \/ watch[q] = "patch"
            \/ Answering(q, {"patch"})
            \/ q \in cut \/ outcome[q] = "pending"

(* The service implements its abstract specification: one outcome per request,
   which is what an accepted answer reports, and every request is settled. *)
Promise ==
    INSTANCE ApprovalOutcome WITH Request <- Request, outcome <- outcome, told <- told
ImplementsOutcome == Promise!Spec

(* request_tool_approval returns: the agent is not left waiting. *)
AgentResumes == \A e \in Exec : at[e] = "wait" ~> at[e] = "read"

(* "Auto approve tools with no matching tool_use_id. This rare edge case
   happens if a tool call triggers no hook callback" (on_can_use_tool): a tool
   use whose hook callback arrived is not allowed without asking. *)
HookedIsAsked == \A q \in Request : use[q] # "hooked_unasked"

=============================================================================
