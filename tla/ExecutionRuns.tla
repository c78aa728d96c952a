---------------------------- MODULE ExecutionRuns ----------------------------
(***************************************************************************)
(* An execution run: an agent started in a worktree of its own, without a  *)
(* task (routes/execution_runs.rs, start_run and its helpers in            *)
(* services/container.rs and local-deployment/container.rs).               *)
(*                                                                         *)
(* A run has processes, numbered here in the order of created_at.  Unlike  *)
(* a task attempt, nothing stops a follow-up from starting beside a        *)
(* process that still runs, so several agents can share the worktree.      *)
(***************************************************************************)
EXTENDS Naturals, FiniteSets

CONSTANTS
    RunProcess,     \* the processes the run may have: 1 .. n
    Stopper,        \* handlers that stop an execution
    MaxRunFault     \* bound: crashes of the server and handlers dropped with
                    \* their connection

ASSUME ExecutionRunsBounds ==
    /\ IsFiniteSet(RunProcess) /\ RunProcess = 1 .. Cardinality(RunProcess)
    /\ RunProcess # {}
    /\ MaxRunFault \in Nat

VARIABLES
    run,            \* the row of execution_runs
    runRow,         \* status of each row of execution_processes
    agent,          \* each process's group, as the operating system has it
    childStore,     \* processes with a handle in child_store
    starting,       \* processes whose start_execution_for_run is awaited
    exitMonitor,    \* each exit monitor: where it is, what it will record
    stopping,       \* each stop handler: where it is, which process
    runBudget       \* what is left of MaxRunFault

runVars == <<run, runRow, agent, childStore, starting,
             exitMonitor, stopping, runBudget>>

NoMonitor == [at |-> "none", found |-> "none"]
NoStop == [at |-> "idle", proc |-> 0]

RunInit ==
    /\ run = "absent"
    /\ runRow = [p \in RunProcess |-> "Absent"]
    /\ agent = [p \in RunProcess |-> "none"]
    /\ childStore = {}
    /\ starting = {}
    /\ exitMonitor = [p \in RunProcess |-> NoMonitor]
    /\ stopping = [s \in Stopper |-> NoStop]
    /\ runBudget = MaxRunFault

Created == {p \in RunProcess : runRow[p] # "Absent"}
find_latest_by_execution_run == CHOOSE p \in Created : \A q \in Created : q <= p

-----------------------------------------------------------------------------
(* Starting *)

(* The row, with a branch named after the run; start_run is awaited. *)
create_execution_run ==
    /\ run = "absent"
    /\ run' = "creating"
    /\ UNCHANGED <<runRow, agent, childStore, starting,
                   exitMonitor, stopping, runBudget>>

(* The worktree is created and container_ref is set; on an error the run   *)
(* stays without, and the handler still answers with the row.              *)
create_for_run ==
    /\ run = "creating"
    /\ run' \in {"ready", "idle"}
    /\ UNCHANGED <<runRow, agent, childStore, starting,
                   exitMonitor, stopping, runBudget>>

(* start_execution_for_run: the rows of the process and of its session. *)
CreateRunProcess ==
    /\ Created # RunProcess
    /\ LET p == Cardinality(Created) + 1
       IN  /\ runRow' = [runRow EXCEPT ![p] = "Running"]
           /\ starting' = starting \cup {p}

start_run ==
    /\ run = "ready"
    /\ run' = "started"
    /\ CreateRunProcess
    /\ UNCHANGED <<agent, childStore, exitMonitor, stopping, runBudget>>

(* A follow-up takes the profile of the newest process; without a process  *)
(* there is none, and it is refused.  It continues the newest session that *)
(* was stored, if any.  Whether a process is running is not asked.         *)
run_follow_up ==
    /\ Created # {}
    /\ CreateRunProcess
    /\ UNCHANGED <<run, agent, childStore, exitMonitor, stopping,
                   runBudget>>

(* The child, its MsgStore, its handle and its exit monitor. *)
start_execution_inner_for_run(p) ==
    /\ p \in starting
    /\ starting' = starting \ {p}
    /\ agent' = [agent EXCEPT ![p] = "alive"]
    /\ childStore' = childStore \cup {p}
    /\ exitMonitor' = [exitMonitor EXCEPT ![p].at = "watch"]
    /\ UNCHANGED <<run, runRow, stopping, runBudget>>

(* The executor cannot be spawned: the row is Failed, the log says why. *)
FailToStart(p) ==
    /\ p \in starting
    /\ starting' = starting \ {p}
    /\ runRow' = [runRow EXCEPT ![p] = "Failed"]
    /\ UNCHANGED <<run, agent, childStore, exitMonitor, stopping,
                   runBudget>>

-----------------------------------------------------------------------------
(* The agent, its log and its exit monitor *)

RunAgentEnds(p) ==
    /\ agent[p] = "alive"
    /\ \E e \in {"ok", "failed"} : agent' = [agent EXCEPT ![p] = e]
    /\ UNCHANGED <<run, runRow, childStore, starting, exitMonitor,
                   stopping, runBudget>>

(* Mutant: the exit signal is recorded and the group left alone. *)
SignalKeepsGroup(p) ==
    /\ exitMonitor[p].at = "watch"
    /\ agent[p] # "orphan"
    /\ exitMonitor' = [exitMonitor EXCEPT ![p] = [at |-> "check", found |-> "Completed"]]
    /\ UNCHANGED <<run, runRow, agent, childStore, starting,
                   stopping, runBudget>>

(* The executor signals that the agent is done: kill the group if its      *)
(* handle is there, and record success.                                    *)
RunExitSignal(p) ==
    /\ exitMonitor[p].at = "watch"
    /\ exitMonitor' = [exitMonitor EXCEPT ![p] = [at |-> "check", found |-> "Completed"]]
    /\ agent' = IF p \in childStore /\ agent[p] = "alive"
                THEN [agent EXCEPT ![p] = "failed"] ELSE agent
    /\ UNCHANGED <<run, runRow, childStore, starting, stopping,
                   runBudget>>

(* The watcher polls the child: it has exited, or its handle is gone, which *)
(* counts as a failure.                                                    *)
spawn_os_exit_watcher(p) ==
    /\ exitMonitor[p].at = "watch"
    /\ p \notin childStore \/ agent[p] \in {"ok", "failed"}
    /\ exitMonitor' = [exitMonitor EXCEPT ![p] =
            [at |-> "check",
             found |-> IF p \in childStore /\ agent[p] = "ok" THEN "Completed" ELSE "Failed"]]
    /\ UNCHANGED <<run, runRow, agent, childStore, starting,
                   stopping, runBudget>>

run_was_stopped(p) == runRow[p] \in {"Killed", "Completed"}

(* was_stopped and update_completion are two statements. *)
RunCheckStopped(p) ==
    /\ exitMonitor[p].at = "check"
    /\ exitMonitor' = [exitMonitor EXCEPT ![p].at = IF run_was_stopped(p) THEN "clean" ELSE "write"]
    /\ UNCHANGED <<run, runRow, agent, childStore, starting,
                   stopping, runBudget>>

RunWriteCompletion(p) ==
    /\ exitMonitor[p].at = "write"
    /\ runRow' = [runRow EXCEPT ![p] = exitMonitor[p].found]
    /\ exitMonitor' = [exitMonitor EXCEPT ![p].at = "clean"]
    /\ UNCHANGED <<run, agent, childStore, starting, stopping,
                   runBudget>>

(* Mutant: the monitor leaves the handle in the map. *)
KeepsHandle(p) ==
    /\ exitMonitor[p].at = "clean"
    /\ exitMonitor' = [exitMonitor EXCEPT ![p] = NoMonitor]
    /\ UNCHANGED <<run, runRow, agent, childStore, starting, stopping, runBudget>>

(* Summary and after-head commit are best effort; then the store and the   *)
(* handle go.                                                              *)
RunCleanUp(p) ==
    /\ exitMonitor[p].at = "clean"
    /\ childStore' = childStore \ {p}
    /\ exitMonitor' = [exitMonitor EXCEPT ![p] = NoMonitor]
    /\ UNCHANGED <<run, runRow, agent, starting, stopping,
                   runBudget>>

(* What the monitor does by itself; the exit signal is the agent's. *)
RunMonitorStep(p) ==
    \/ spawn_os_exit_watcher(p)
    \/ RunCheckStopped(p) \/ RunWriteCompletion(p) \/ RunCleanUp(p)

spawn_exit_monitor_for_run(p) == RunExitSignal(p) \/ RunMonitorStep(p)

-----------------------------------------------------------------------------
(* Stopping *)

(* get_child_from_store: without a handle the stop is an error. *)
StopExecution(s, p) ==
    /\ stopping' = [stopping EXCEPT ![s] =
                        IF p \in childStore THEN [at |-> "update", proc |-> p] ELSE NoStop]
    /\ UNCHANGED <<run, runRow, agent, childStore, starting,
                   exitMonitor, runBudget>>

(* The run's own route stops its newest process, whatever its status. *)
stop_execution_run(s) ==
    /\ stopping[s].at = "idle"
    /\ Created # {}
    /\ StopExecution(s, find_latest_by_execution_run)

(* The route of a process stops that one. *)
stop_execution_process(s) ==
    /\ stopping[s].at = "idle"
    /\ \E p \in Created : stopping' = [stopping EXCEPT ![s] =
            IF p \in childStore THEN [at |-> "update", proc |-> p] ELSE NoStop]
    /\ UNCHANGED <<run, runRow, agent, childStore, starting,
                   exitMonitor, runBudget>>

RunStopUpdate(s) ==
    /\ stopping[s].at = "update"
    /\ runRow' = [runRow EXCEPT ![stopping[s].proc] = "Killed"]
    /\ stopping' = [stopping EXCEPT ![s].at = "kill"]
    /\ UNCHANGED <<run, agent, childStore, starting, exitMonitor,
                   runBudget>>

(* kill_process_group fails only on a child that was reaped already; then  *)
(* the handler returns and leaves the handle where it is.                  *)
RunStopKill(s) ==
    /\ stopping[s].at = "kill"
    /\ LET p == stopping[s].proc
       IN  \/ /\ agent[p] = "alive"
              /\ agent' = [agent EXCEPT ![p] = "failed"]
              /\ stopping' = [stopping EXCEPT ![s].at = "release"]
           \/ /\ agent[p] # "alive"
              /\ \/ stopping' = [stopping EXCEPT ![s].at = "release"]
                 \/ stopping' = [stopping EXCEPT ![s] = NoStop]
              /\ UNCHANGED agent
    /\ UNCHANGED <<run, runRow, childStore, starting, exitMonitor,
                   runBudget>>

(* The handle and the store go; there is no task to move to InReview. *)
RunStopRelease(s) ==
    /\ stopping[s].at = "release"
    /\ childStore' = childStore \ {stopping[s].proc}
    /\ stopping' = [stopping EXCEPT ![s] = NoStop]
    /\ UNCHANGED <<run, runRow, agent, starting, exitMonitor,
                   runBudget>>

-----------------------------------------------------------------------------
(* The client goes away, and the web server drops the handler it awaited. *)
RunDisconnect ==
    /\ runBudget > 0
    /\ runBudget' = runBudget - 1
    /\ \/ /\ run \in {"creating", "ready"}
          /\ run' = "idle"
          /\ UNCHANGED <<starting, stopping>>
       \/ /\ \E p \in starting : starting' = starting \ {p}
          /\ UNCHANGED <<run, stopping>>
       \/ /\ \E s \in Stopper : /\ stopping[s].at # "idle"
                                /\ stopping' = [stopping EXCEPT ![s] = NoStop]
          /\ UNCHANGED <<run, starting>>
    /\ UNCHANGED <<runRow, agent, childStore, exitMonitor>>

(* The server crashes and starts again: what is in memory is lost, the     *)
(* agents outlive it, and cleanup_orphan_executions, before anything is    *)
(* served, makes every running row Failed.                                 *)
RunServerRestarts ==
    /\ runBudget > 0
    /\ runBudget' = runBudget - 1
    /\ run' = IF run \in {"creating", "ready"} THEN "idle" ELSE run
    /\ runRow' = [p \in RunProcess |-> IF runRow[p] = "Running" THEN "Failed" ELSE runRow[p]]
    /\ agent' = [p \in RunProcess |-> IF agent[p] = "alive" THEN "orphan" ELSE agent[p]]
    /\ childStore' = {}
    /\ starting' = {}
    /\ exitMonitor' = [p \in RunProcess |-> NoMonitor]
    /\ stopping' = [s \in Stopper |-> NoStop]

-----------------------------------------------------------------------------
RunNext ==
    \/ create_execution_run \/ create_for_run \/ start_run \/ run_follow_up
    \/ \E p \in RunProcess : \/ start_execution_inner_for_run(p) \/ FailToStart(p)
                             \/ RunAgentEnds(p)
                             \/ spawn_exit_monitor_for_run(p)
    \/ \E s \in Stopper : \/ stop_execution_run(s) \/ stop_execution_process(s)
                          \/ RunStopUpdate(s) \/ RunStopKill(s) \/ RunStopRelease(s)
    \/ RunDisconnect
    \/ RunServerRestarts

RunSpec == RunInit /\ [][RunNext]_runVars

(* The monitors are tasks of the server and run on; nothing obliges an     *)
(* agent to end or to signal.                                              *)
RunFairness == \A p \in RunProcess : WF_runVars(RunMonitorStep(p))

-----------------------------------------------------------------------------
(* No agent of a run is lost from sight: one that is alive has a handle to *)
(* stop it by and a monitor that will record its end, also where several   *)
(* share the run, where a stop was dropped half way and where stop and     *)
(* monitor race for the handle.  (Agents that outlived a crash of the      *)
(* server are not; see cleanup_orphan_executions.)                         *)
RunAgentIsHeld ==
    \A p \in RunProcess : agent[p] = "alive" => p \in childStore /\ exitMonitor[p].at = "watch"

(* An agent that has ended does not stay Running in the database, and its  *)
(* handle is released: the monitor, a stop or the next start-up sees to it. *)
RunEndIsRecorded ==
    \A p \in RunProcess :
        agent[p] \in {"ok", "failed"} ~> (runRow[p] # "Running" /\ p \notin childStore)

=============================================================================
