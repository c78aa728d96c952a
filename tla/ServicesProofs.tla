--------------------------- MODULE ServicesProofs ---------------------------
(***************************************************************************)
(* Proofs about two of the components that MCServices checks together.     *)
(* Of ExecutionRuns, for every number of processes and of stop handlers,   *)
(* and for every number of faults; of LogStream, for every number of       *)
(* lines, every length of the history and every capacity of the channel.   *)
(***************************************************************************)
EXTENDS ExecutionRuns, LogStream, FiniteSetTheorems, SequenceTheorems, TLAPS

-----------------------------------------------------------------------------
(* Runs: the rows, the children, the monitors and the stop handlers.       *)

RunTypeOK ==
    /\ run \in {"absent", "creating", "ready", "idle", "started"}
    /\ runRow \in [RunProcess -> {"Absent", "Running", "Completed", "Failed", "Killed"}]
    /\ agent \in [RunProcess -> {"none", "alive", "ok", "failed", "orphan"}]
    /\ childStore \subseteq RunProcess
    /\ starting \subseteq RunProcess
    /\ exitMonitor \in [RunProcess -> [at : {"none", "watch", "check", "write", "clean"},
                                       found : {"none", "Completed", "Failed"}]]
    /\ stopping \in [Stopper -> [at : {"idle", "update", "kill", "release"},
                                 proc : RunProcess \cup {0}]]
    /\ runBudget \in Nat

(* The rows are created in order, so the next one has not been created. *)
RowsInOrder == \E k \in Nat : Created = 1 .. k

(* No child, handle, monitor or stop of process p. *)
Untouched(p) ==
    /\ agent[p] = "none"
    /\ p \notin childStore
    /\ exitMonitor[p].at = "none"
    /\ \A s \in Stopper : stopping[s].at # "idle" => stopping[s].proc # p

(* A process without a row is unknown to everybody; one whose start is
   awaited has its row and nothing else yet. *)
FreshIsUntouched ==
    \A p \in RunProcess : runRow[p] = "Absent" => Untouched(p) /\ p \notin starting
StartingIsUntouched ==
    \A p \in starting : Untouched(p)

(* A stop handler under way has a process; once it has killed the group, that
   process is not alive, and it will not come to life again. *)
StopHasProcess ==
    \A s \in Stopper :
        /\ stopping[s].at # "idle" => stopping[s].proc \in RunProcess
        /\ stopping[s].at = "release" => agent[stopping[s].proc] # "alive"

(* A monitor that has seen the end knows what to record. *)
MonitorHasVerdict ==
    \A p \in RunProcess : exitMonitor[p].at \in {"check", "write"} => exitMonitor[p].found # "none"

(* The inductive invariant. *)
RunInv ==
    /\ RunTypeOK /\ RowsInOrder /\ MonitorHasVerdict
    /\ FreshIsUntouched /\ StartingIsUntouched /\ StopHasProcess
    /\ RunAgentIsHeld

-----------------------------------------------------------------------------
(* What start_execution_for_run creates: a row of the run that was not there,
   and that keeps the rows in the order of created_at. *)
LEMMA NextRow ==
    ASSUME RunInv, CreateRunProcess
    PROVE  \E p \in RunProcess :
               /\ runRow[p] = "Absent"
               /\ runRow' = [runRow EXCEPT ![p] = "Running"]
               /\ starting' = starting \cup {p}
               /\ RowsInOrder'
<1>1. PICK k \in Nat : Created = 1 .. k
    BY DEF RunInv, RowsInOrder
<1>2. Cardinality(Created) = k
    BY <1>1, FS_Interval, k - 1 + 1 = k
<1>3. IsFiniteSet(RunProcess) /\ Cardinality(RunProcess) \in Nat
    BY ExecutionRunsBounds, FS_CardinalityType
<1>4. RunProcess = 1 .. Cardinality(RunProcess)
    BY ExecutionRunsBounds
<1>5. Created \subseteq RunProcess /\ Created # RunProcess
    BY DEF Created, CreateRunProcess
<1>6. k < Cardinality(RunProcess)
  <2>1. k <= Cardinality(RunProcess)
    <3>1. CASE k = 0
      BY <3>1, <1>3
    <3>2. CASE k # 0
      <4>1. k \in 1 .. k
        BY <3>2
      <4>2. k \in 1 .. Cardinality(RunProcess)
        BY <4>1, <1>1, <1>4, <1>5
      <4>. QED  BY <4>2, <1>3
    <3>. QED  BY <3>1, <3>2
  <2>2. k # Cardinality(RunProcess)
    BY <1>1, <1>4, <1>5
  <2>. QED  BY <2>1, <2>2, <1>3
<1>7. k + 1 \in RunProcess
    BY <1>3, <1>4, <1>6
<1>8. k + 1 \notin Created
    BY <1>1
<1>9. runRow[k + 1] = "Absent"
    BY <1>7, <1>8 DEF Created
<1>10. /\ runRow' = [runRow EXCEPT ![k + 1] = "Running"]
       /\ starting' = starting \cup {k + 1}
    BY <1>2 DEF CreateRunProcess
<1>11. Created' = 1 .. (k + 1)
  <2>1. Created' = Created \cup {k + 1}
    BY <1>7, <1>10 DEF Created, RunInv, RunTypeOK
  <2>. QED  BY <2>1, <1>1
<1>12. RowsInOrder'
    BY <1>11, k + 1 \in Nat DEF RowsInOrder
<1>. QED
    BY <1>7, <1>9, <1>10, <1>12

(* A step that leaves the set of created rows alone keeps them in order. *)
LEMMA SameRows ==
    ASSUME RowsInOrder, Created' = Created
    PROVE  RowsInOrder'
    BY DEF RowsInOrder

(* Starting a process, for a new run or as a follow-up. *)
LEMMA CreateStep ==
    ASSUME RunInv, CreateRunProcess,
           run' \in {run, "started"},
           UNCHANGED <<agent, childStore, exitMonitor, stopping, runBudget>>
    PROVE  RunInv'
<1>1. PICK p \in RunProcess :
               /\ runRow[p] = "Absent"
               /\ runRow' = [runRow EXCEPT ![p] = "Running"]
               /\ starting' = starting \cup {p}
               /\ RowsInOrder'
    BY NextRow
<1>2. RunTypeOK'
    BY <1>1 DEF RunInv, RunTypeOK
<1>3. FreshIsUntouched'
    BY <1>1 DEF RunInv, RunTypeOK, FreshIsUntouched, Untouched
<1>4. StartingIsUntouched'
    BY <1>1 DEF RunInv, FreshIsUntouched, StartingIsUntouched, Untouched
<1>5. (StopHasProcess /\ RunAgentIsHeld /\ MonitorHasVerdict)'
    BY DEF RunInv, StopHasProcess, RunAgentIsHeld, MonitorHasVerdict
<1>. QED
    BY <1>1, <1>2, <1>3, <1>4, <1>5 DEF RunInv

(* Creating the run and its worktree. *)
LEMMA CreateRunStep ==
    ASSUME RunInv, create_execution_run \/ create_for_run
    PROVE  RunInv'
<1>1. /\ run' \in {"absent", "creating", "ready", "idle", "started"}
      /\ UNCHANGED <<runRow, agent, childStore, starting, exitMonitor, stopping, runBudget>>
    BY DEF create_execution_run, create_for_run
<1>2. RunTypeOK'
    BY <1>1 DEF RunInv, RunTypeOK
<1>3. RowsInOrder'
    BY <1>1, SameRows DEF RunInv, Created
<1>4. (FreshIsUntouched /\ StartingIsUntouched)'
    BY <1>1 DEF RunInv, FreshIsUntouched, StartingIsUntouched, Untouched
<1>5. (StopHasProcess /\ RunAgentIsHeld /\ MonitorHasVerdict)'
    BY <1>1 DEF RunInv, StopHasProcess, RunAgentIsHeld, MonitorHasVerdict
<1>. QED
    BY <1>2, <1>3, <1>4, <1>5 DEF RunInv

(* The child is spawned: only now may it be alive, and it has its handle and
   its monitor at once. *)
LEMMA StartInnerStep ==
    ASSUME RunInv, NEW p \in RunProcess, start_execution_inner_for_run(p)
    PROVE  RunInv'
<1>1. RunTypeOK'
    BY DEF RunInv, RunTypeOK, start_execution_inner_for_run
<1>2. RowsInOrder'
    BY SameRows DEF RunInv, Created, start_execution_inner_for_run
<1>3. FreshIsUntouched'
    BY DEF RunInv, RunTypeOK, FreshIsUntouched, Untouched, start_execution_inner_for_run
<1>4. StartingIsUntouched'
    BY DEF RunInv, RunTypeOK, StartingIsUntouched, Untouched, start_execution_inner_for_run
<1>5. StopHasProcess'
    BY DEF RunInv, RunTypeOK, StopHasProcess, StartingIsUntouched, Untouched,
        start_execution_inner_for_run
<1>6. (RunAgentIsHeld /\ MonitorHasVerdict)'
    BY DEF RunInv, RunTypeOK, RunAgentIsHeld, MonitorHasVerdict, start_execution_inner_for_run
<1>. QED
    BY <1>1, <1>2, <1>3, <1>4, <1>5, <1>6 DEF RunInv

LEMMA FailToStartStep ==
    ASSUME RunInv, NEW p \in RunProcess, FailToStart(p)
    PROVE  RunInv'
<1>1. RunTypeOK'
    BY DEF RunInv, RunTypeOK, FailToStart
<1>2. RowsInOrder'
  <2>1. Created' = Created
    BY DEF RunInv, RunTypeOK, FreshIsUntouched, Created, FailToStart
  <2>. QED  BY <2>1, SameRows DEF RunInv
<1>3. (FreshIsUntouched /\ StartingIsUntouched)'
    BY DEF RunInv, RunTypeOK, FreshIsUntouched, StartingIsUntouched, Untouched, FailToStart
<1>4. (StopHasProcess /\ RunAgentIsHeld /\ MonitorHasVerdict)'
    BY DEF RunInv, StopHasProcess, RunAgentIsHeld, MonitorHasVerdict, FailToStart
<1>. QED
    BY <1>1, <1>2, <1>3, <1>4 DEF RunInv

LEMMA AgentEndsStep ==
    ASSUME RunInv, NEW p \in RunProcess, RunAgentEnds(p)
    PROVE  RunInv'
<1>1. RunTypeOK'
    BY DEF RunInv, RunTypeOK, RunAgentEnds
<1>2. RowsInOrder'
    BY SameRows DEF RunInv, Created, RunAgentEnds
<1>3. (FreshIsUntouched /\ StartingIsUntouched)'
    BY DEF RunInv, RunTypeOK, FreshIsUntouched, StartingIsUntouched, Untouched, RunAgentEnds
<1>4. (StopHasProcess /\ RunAgentIsHeld /\ MonitorHasVerdict)'
    BY DEF RunInv, RunTypeOK, StopHasProcess, RunAgentIsHeld, MonitorHasVerdict,
        RunAgentEnds
<1>. QED
    BY <1>1, <1>2, <1>3, <1>4 DEF RunInv

-----------------------------------------------------------------------------
(* The exit monitor.  It leaves "watch" only when the agent is not alive: the
   exit signal kills the group, and because a living agent has a handle, the
   watcher takes a missing handle for an exit only where there was one. *)
LEMMA ExitSignalStep ==
    ASSUME RunInv, NEW p \in RunProcess, RunExitSignal(p)
    PROVE  RunInv'
<1>1. RunTypeOK'
    BY DEF RunInv, RunTypeOK, RunExitSignal
<1>2. RowsInOrder'
    BY SameRows DEF RunInv, Created, RunExitSignal
<1>3. (FreshIsUntouched /\ StartingIsUntouched)'
    BY DEF RunInv, RunTypeOK, FreshIsUntouched, StartingIsUntouched, Untouched, RunExitSignal
<1>4. StopHasProcess'
    BY DEF RunInv, RunTypeOK, StopHasProcess, RunExitSignal
<1>5. (RunAgentIsHeld /\ MonitorHasVerdict)'
    BY DEF RunInv, RunTypeOK, RunAgentIsHeld, MonitorHasVerdict, RunExitSignal
<1>. QED
    BY <1>1, <1>2, <1>3, <1>4, <1>5 DEF RunInv

LEMMA ExitWatcherStep ==
    ASSUME RunInv, NEW p \in RunProcess, spawn_os_exit_watcher(p)
    PROVE  RunInv'
<1>1. RunTypeOK'
    BY DEF RunInv, RunTypeOK, spawn_os_exit_watcher
<1>2. RowsInOrder'
    BY SameRows DEF RunInv, Created, spawn_os_exit_watcher
<1>3. (FreshIsUntouched /\ StartingIsUntouched)'
    BY DEF RunInv, RunTypeOK, FreshIsUntouched, StartingIsUntouched, Untouched,
        spawn_os_exit_watcher
<1>4. StopHasProcess'
    BY DEF RunInv, StopHasProcess, spawn_os_exit_watcher
<1>5. (RunAgentIsHeld /\ MonitorHasVerdict)'
    BY DEF RunInv, RunTypeOK, RunAgentIsHeld, MonitorHasVerdict, spawn_os_exit_watcher
<1>. QED
    BY <1>1, <1>2, <1>3, <1>4, <1>5 DEF RunInv

LEMMA CheckStoppedStep ==
    ASSUME RunInv, NEW p \in RunProcess, RunCheckStopped(p)
    PROVE  RunInv'
<1>1. RunTypeOK'
    BY DEF RunInv, RunTypeOK, RunCheckStopped
<1>2. RowsInOrder'
    BY SameRows DEF RunInv, Created, RunCheckStopped
<1>3. (FreshIsUntouched /\ StartingIsUntouched)'
    BY DEF RunInv, RunTypeOK, FreshIsUntouched, StartingIsUntouched, Untouched, RunCheckStopped
<1>4. (StopHasProcess /\ RunAgentIsHeld /\ MonitorHasVerdict)'
    BY DEF RunInv, RunTypeOK, StopHasProcess, RunAgentIsHeld, MonitorHasVerdict,
        RunCheckStopped
<1>. QED
    BY <1>1, <1>2, <1>3, <1>4 DEF RunInv

LEMMA WriteCompletionStep ==
    ASSUME RunInv, NEW p \in RunProcess, RunWriteCompletion(p)
    PROVE  RunInv'
<1>1. RunTypeOK'
    BY DEF RunInv, RunTypeOK, MonitorHasVerdict, RunWriteCompletion
<1>2. RowsInOrder'
  <2>1. Created' = Created
    BY DEF RunInv, RunTypeOK, FreshIsUntouched, Untouched, Created, RunWriteCompletion
  <2>. QED  BY <2>1, SameRows DEF RunInv
<1>3. (FreshIsUntouched /\ StartingIsUntouched)'
    BY DEF RunInv, RunTypeOK, FreshIsUntouched, StartingIsUntouched, Untouched,
        RunWriteCompletion
<1>4. (StopHasProcess /\ RunAgentIsHeld /\ MonitorHasVerdict)'
    BY DEF RunInv, RunTypeOK, StopHasProcess, RunAgentIsHeld, MonitorHasVerdict,
        RunWriteCompletion
<1>. QED
    BY <1>1, <1>2, <1>3, <1>4 DEF RunInv

LEMMA CleanUpStep ==
    ASSUME RunInv, NEW p \in RunProcess, RunCleanUp(p)
    PROVE  RunInv'
<1>1. RunTypeOK'
    BY DEF RunInv, RunTypeOK, RunCleanUp, NoMonitor
<1>2. RowsInOrder'
    BY SameRows DEF RunInv, Created, RunCleanUp
<1>3. (FreshIsUntouched /\ StartingIsUntouched)'
    BY DEF RunInv, RunTypeOK, FreshIsUntouched, StartingIsUntouched, Untouched,
        RunCleanUp, NoMonitor
<1>4. (StopHasProcess /\ RunAgentIsHeld /\ MonitorHasVerdict)'
    BY DEF RunInv, RunTypeOK, StopHasProcess, RunAgentIsHeld, MonitorHasVerdict,
        RunCleanUp, NoMonitor
<1>. QED
    BY <1>1, <1>2, <1>3, <1>4 DEF RunInv
-----------------------------------------------------------------------------
(* Stopping. *)

(* A stop begins only for a process with a handle: one that has its row and
   whose start is over. *)
LEMMA StopBeginsStep ==
    ASSUME RunInv, NEW s \in Stopper,
           stop_execution_run(s) \/ stop_execution_process(s)
    PROVE  RunInv'
<1>1. PICK p : stopping' = [stopping EXCEPT ![s] =
                   IF p \in childStore THEN [at |-> "update", proc |-> p] ELSE NoStop]
    BY DEF stop_execution_run, stop_execution_process, StopExecution
<1>2. UNCHANGED <<run, runRow, agent, childStore, starting, exitMonitor, runBudget>>
    BY DEF stop_execution_run, stop_execution_process, StopExecution
<1>3. RunTypeOK'
    BY <1>1, <1>2 DEF RunInv, RunTypeOK, NoStop
<1>4. RowsInOrder'
    BY <1>2, SameRows DEF RunInv, Created
<1>5. (FreshIsUntouched /\ StartingIsUntouched)'
    BY <1>1, <1>2 DEF RunInv, RunTypeOK, FreshIsUntouched, StartingIsUntouched, Untouched, NoStop
<1>6. StopHasProcess'
    BY <1>1, <1>2 DEF RunInv, RunTypeOK, StopHasProcess, NoStop
<1>7. (RunAgentIsHeld /\ MonitorHasVerdict)'
    BY <1>2 DEF RunInv, RunAgentIsHeld, MonitorHasVerdict
<1>. QED
    BY <1>3, <1>4, <1>5, <1>6, <1>7 DEF RunInv

LEMMA StopUpdateStep ==
    ASSUME RunInv, NEW s \in Stopper, RunStopUpdate(s)
    PROVE  RunInv'
<1>1. RunTypeOK'
    BY DEF RunInv, RunTypeOK, StopHasProcess, RunStopUpdate
<1>2. RowsInOrder'
  <2>1. Created' = Created
    BY DEF RunInv, RunTypeOK, FreshIsUntouched, StopHasProcess, Untouched, Created, RunStopUpdate
  <2>. QED  BY <2>1, SameRows DEF RunInv
<1>3. (FreshIsUntouched /\ StartingIsUntouched)'
    BY DEF RunInv, RunTypeOK, FreshIsUntouched, StartingIsUntouched, StopHasProcess, Untouched,
        RunStopUpdate
<1>4. (StopHasProcess /\ RunAgentIsHeld /\ MonitorHasVerdict)'
    BY DEF RunInv, RunTypeOK, StopHasProcess, RunAgentIsHeld, MonitorHasVerdict, RunStopUpdate
<1>. QED
    BY <1>1, <1>2, <1>3, <1>4 DEF RunInv

LEMMA StopKillStep ==
    ASSUME RunInv, NEW s \in Stopper, RunStopKill(s)
    PROVE  RunInv'
<1>1. RunTypeOK'
  <2>1. RunTypeOK /\ stopping[s].proc \in RunProcess
    BY DEF RunInv, StopHasProcess, RunStopKill
  <2>2. agent' \in [RunProcess -> {"none", "alive", "ok", "failed", "orphan"}]
    BY <2>1 DEF RunTypeOK, RunStopKill
  <2>3. stopping' \in [Stopper -> [at : {"idle", "update", "kill", "release"}, proc : RunProcess \cup {0}]]
    BY <2>1 DEF RunTypeOK, RunStopKill, NoStop
  <2>. QED  BY <2>1, <2>2, <2>3 DEF RunTypeOK, RunStopKill
<1>2. RowsInOrder'
    BY SameRows DEF RunInv, Created, RunStopKill
<1>3. /\ \A p \in RunProcess : agent'[p] # agent[p] => p = stopping[s].proc
      /\ \A t \in Stopper : stopping'[t].at # "idle" =>
            stopping[t].at # "idle" /\ stopping'[t].proc = stopping[t].proc
      /\ stopping[s].at # "idle"
      /\ UNCHANGED <<runRow, childStore, starting, exitMonitor>>
    BY DEF RunInv, RunTypeOK, StopHasProcess, RunStopKill, NoStop
<1>4. FreshIsUntouched'
    BY <1>3 DEF RunInv, FreshIsUntouched, Untouched
<1>5. StartingIsUntouched'
    BY <1>3 DEF RunInv, RunTypeOK, StartingIsUntouched, Untouched
<1>6. StopHasProcess'
    BY DEF RunInv, RunTypeOK, StopHasProcess, RunStopKill, NoStop
<1>7. (RunAgentIsHeld /\ MonitorHasVerdict)'
    BY DEF RunInv, RunTypeOK, StopHasProcess, RunAgentIsHeld, MonitorHasVerdict, RunStopKill
<1>. QED
    BY <1>1, <1>2, <1>4, <1>5, <1>6, <1>7 DEF RunInv

(* The handle that is released is that of an agent that is not alive. *)
LEMMA StopReleaseStep ==
    ASSUME RunInv, NEW s \in Stopper, RunStopRelease(s)
    PROVE  RunInv'
<1>1. RunTypeOK'
    BY DEF RunInv, RunTypeOK, RunStopRelease, NoStop
<1>2. RowsInOrder'
    BY SameRows DEF RunInv, Created, RunStopRelease
<1>3. (FreshIsUntouched /\ StartingIsUntouched)'
    BY DEF RunInv, RunTypeOK, FreshIsUntouched, StartingIsUntouched, Untouched,
        RunStopRelease, NoStop
<1>4. StopHasProcess'
    BY DEF RunInv, RunTypeOK, StopHasProcess, RunStopRelease, NoStop
<1>5. (RunAgentIsHeld /\ MonitorHasVerdict)'
    BY DEF RunInv, RunTypeOK, StopHasProcess, RunAgentIsHeld, MonitorHasVerdict, RunStopRelease
<1>. QED
    BY <1>1, <1>2, <1>3, <1>4, <1>5 DEF RunInv

-----------------------------------------------------------------------------
(* Faults. *)

(* A handler that is dropped with its connection leaves its process where it
   was: a start that is dropped has created no child. *)
LEMMA DisconnectStep ==
    ASSUME RunInv, RunDisconnect
    PROVE  RunInv'
<1>1. RunTypeOK'
    BY DEF RunInv, RunTypeOK, RunDisconnect, NoStop
<1>2. RowsInOrder'
    BY SameRows DEF RunInv, Created, RunDisconnect
<1>3. starting' \subseteq starting
    BY DEF RunDisconnect
<1>4. \A s \in Stopper : stopping'[s] \in {stopping[s], NoStop}
    BY DEF RunInv, RunTypeOK, RunDisconnect
<1>5. (FreshIsUntouched /\ StartingIsUntouched)'
    BY <1>3, <1>4 DEF RunInv, FreshIsUntouched, StartingIsUntouched, Untouched,
        RunDisconnect, NoStop
<1>6. StopHasProcess'
    BY <1>4 DEF RunInv, StopHasProcess, RunDisconnect, NoStop
<1>7. (RunAgentIsHeld /\ MonitorHasVerdict)'
    BY DEF RunInv, RunAgentIsHeld, MonitorHasVerdict, RunDisconnect
<1>. QED
    BY <1>1, <1>2, <1>5, <1>6, <1>7 DEF RunInv

LEMMA RestartStep ==
    ASSUME RunInv, RunServerRestarts
    PROVE  RunInv'
<1>1. RunTypeOK'
    BY DEF RunInv, RunTypeOK, RunServerRestarts, NoStop, NoMonitor
<1>2. RowsInOrder'
  <2>1. Created' = Created
    BY DEF RunInv, RunTypeOK, Created, RunServerRestarts
  <2>. QED  BY <2>1, SameRows DEF RunInv
<1>3. (FreshIsUntouched /\ StartingIsUntouched)'
    BY DEF RunInv, RunTypeOK, FreshIsUntouched, StartingIsUntouched, Untouched,
        RunServerRestarts, NoStop, NoMonitor
<1>4. (StopHasProcess /\ RunAgentIsHeld /\ MonitorHasVerdict)'
    BY DEF RunInv, RunTypeOK, StopHasProcess, RunAgentIsHeld, MonitorHasVerdict,
        RunServerRestarts, NoStop, NoMonitor
<1>. QED
    BY <1>1, <1>2, <1>3, <1>4 DEF RunInv

-----------------------------------------------------------------------------
(* Before the run is created nothing exists. *)
LEMMA RunInitInv == RunInit => RunInv
<1>. SUFFICES ASSUME RunInit PROVE RunInv
    OBVIOUS
<1>1. RunTypeOK
    BY ExecutionRunsBounds DEF RunInit, RunTypeOK, NoStop, NoMonitor
<1>2. RowsInOrder
  <2>1. Created = {}
    BY DEF RunInit, Created
  <2>2. 1 .. 0 = {}
    OBVIOUS
  <2>. QED  BY <2>1, <2>2 DEF RowsInOrder
<1>3. FreshIsUntouched /\ StartingIsUntouched
    BY DEF RunInit, FreshIsUntouched, StartingIsUntouched, Untouched, NoStop, NoMonitor
<1>4. StopHasProcess /\ RunAgentIsHeld /\ MonitorHasVerdict
    BY DEF RunInit, StopHasProcess, RunAgentIsHeld, MonitorHasVerdict, NoStop, NoMonitor
<1>. QED
    BY <1>1, <1>2, <1>3, <1>4 DEF RunInv

LEMMA RunStepInv == RunInv /\ [RunNext]_runVars => RunInv'
<1>. SUFFICES ASSUME RunInv, [RunNext]_runVars PROVE RunInv'
    OBVIOUS
<1>1. CASE create_execution_run \/ create_for_run
    BY <1>1, CreateRunStep
<1>2. CASE start_run
    BY <1>2, CreateStep DEF start_run
<1>3. CASE run_follow_up
    BY <1>3, CreateStep DEF run_follow_up
<1>4. ASSUME NEW p \in RunProcess,
             start_execution_inner_for_run(p) \/ FailToStart(p) \/ RunAgentEnds(p)
      PROVE  RunInv'
    BY <1>4, StartInnerStep, FailToStartStep, AgentEndsStep
<1>5. ASSUME NEW p \in RunProcess, spawn_exit_monitor_for_run(p)
      PROVE  RunInv'
    BY <1>5, ExitSignalStep, ExitWatcherStep, CheckStoppedStep, WriteCompletionStep,
        CleanUpStep DEF spawn_exit_monitor_for_run, RunMonitorStep
<1>6. ASSUME NEW s \in Stopper, stop_execution_run(s) \/ stop_execution_process(s)
      PROVE  RunInv'
    BY <1>6, StopBeginsStep
<1>7. ASSUME NEW s \in Stopper, RunStopUpdate(s) \/ RunStopKill(s) \/ RunStopRelease(s)
      PROVE  RunInv'
    BY <1>7, StopUpdateStep, StopKillStep, StopReleaseStep
<1>8. CASE RunDisconnect
    BY <1>8, DisconnectStep
<1>9. CASE RunServerRestarts
    BY <1>9, RestartStep
<1>10. CASE UNCHANGED runVars
    BY <1>10 DEF runVars, RunInv, RunTypeOK, RowsInOrder, Created, FreshIsUntouched,
        StartingIsUntouched, Untouched, StopHasProcess, RunAgentIsHeld, MonitorHasVerdict
<1>. QED
    BY <1>1, <1>2, <1>3, <1>4, <1>5, <1>6, <1>7, <1>8, <1>9, <1>10 DEF RunNext

(* The variables keep their types, the rows of a run are created in order, and
   nobody holds a process whose start is still awaited. *)
THEOREM RunInvariant == RunSpec => []RunInv
    BY RunInitInv, RunStepInv, PTL DEF RunSpec

(* However many follow-ups share a run and however their stops, exits and
   dropped handlers interleave, an agent that is alive and was started by this
   server has its handle in child_store and a monitor that watches it. *)
THEOREM RunAgentStaysHeld == RunSpec => []RunAgentIsHeld
<1>1. RunInv => RunAgentIsHeld
    BY DEF RunInv
<1>. QED
    BY <1>1, RunInvariant, PTL

-----------------------------------------------------------------------------
(* Logs: the lines, the store, its readers and the rows that are kept.     *)

Message == [kind : {"line", "patch", "session", "finished", "none"}, n : Nat]

(* The messages of a sequence, and the rows of a log. *)
Msgs(s) == {s[i] : i \in 1 .. Len(s)}

(* The messages of one kind are in order. *)
Ordered(s, k) ==
    \A i, j \in 1 .. Len(s) :
        i < j /\ s[i].kind = k /\ s[j].kind = k => s[i].n < s[j].n

(* The rows of a log are in order, not only each with the next. *)
Ascending(s) == \A i, j \in 1 .. Len(s) : i < j => s[i] < s[j]

(* Every message of kind k in S comes before every message of kind l in T. *)
Before(S, k, T, l) == \A x \in S, y \in T : x.kind = k /\ y.kind = l => x.n < y.n

(* The lines in a queue that are not behind a Finished. *)
Ahead(q) ==
    {q[i].n : i \in {i \in 1 .. Len(q) :
                        q[i].kind = "line" /\ \A j \in 1 .. i : q[j].kind # "finished"}}

-----------------------------------------------------------------------------
(* What waits for a reader, and every message there is. *)
Holding(st) == Msgs(st.past) \cup Msgs(st.queue)
Waiting(r) == Holding(reader[r])
Everywhere ==
    Msgs(history) \cup {pushing[p] : p \in Pusher} \cup UNION {Waiting(r) : r \in Reader}

Phase == {"none", "store", "history", "live", "ended"}
ReaderState == [phase : Phase, past : Seq(Message), queue : Seq(Message)]
Early == {"none", "store", "history"}       \* nothing has been taken yet

LogTypeOK ==
    /\ script \in BOOLEAN /\ agentRuns \in BOOLEAN /\ inMap \in BOOLEAN
    /\ finished \in BOOLEAN /\ session \in BOOLEAN /\ lagged \in BOOLEAN
    /\ written \in Nat /\ forwarded \in Nat
    /\ history \in Seq(Message)
    /\ pushing \in [Pusher -> Message]
    /\ reader \in [Reader -> ReaderState]
    /\ spawned \in {"monitor", "normaliser", "done"}
    /\ logs \in Seq(Nat)
    /\ viewer \in [kind : {"none", "raw", "normalized"}, shown : Seq(Nat), told : BOOLEAN]
    /\ owed \subseteq Nat

(* What each pusher pushes, and that it is newer than what the history holds of
   the same kind: it was sent to the receivers after all of that was inserted. *)
PushedIsNew ==
    /\ pushing["forwarder"].kind \in {"none", "line"}
    /\ pushing["normaliser"].kind \in {"none", "session", "patch"}
    /\ pushing["closer"].kind \in {"none", "finished"}
    /\ Before(Msgs(history), "line", {pushing["forwarder"]}, "line")
    /\ Before(Msgs(history), "patch", {pushing["normaliser"]}, "patch")

(* Lines and patches are in order in the history and in every reader's stream,
   in which the channel comes after the history. *)
StreamInOrder(st) ==
    \A k \in {"line", "patch"} :
        /\ Ordered(st.past, k)
        /\ Ordered(st.queue, k)
        /\ Before(Msgs(st.past), k, Msgs(st.queue), k)
InOrder ==
    /\ \A k \in {"line", "patch"} : Ordered(history, k)
    /\ \A r \in Reader : StreamInOrder(reader[r])

(* Nothing is numbered beyond what the forwarder has taken from the pipe. *)
Bounded == \A m \in Everywhere : m.n <= forwarded

(* A reader has nothing of the channel before it has subscribed, nothing of the
   history before it has read it, and nothing when it has left. *)
HoldsByPhase(st) ==
    /\ st.phase # "live" => st.queue = <<>>
    /\ st.phase \in {"none", "store", "ended"} => st.past = <<>>
NothingYet ==
    /\ \A r \in Reader : HoldsByPhase(reader[r])
    /\ spawned = "monitor" => reader["normaliser"].phase = "none"
    /\ spawned # "done" => reader["persister"].phase = "none"

(* A patch comes from a line that the normaliser has taken, so it is older than
   every line that waits for the normaliser. *)
PatchesAreTaken ==
    /\ reader["normaliser"].phase \in Early => \A m \in Everywhere : m.kind # "patch"
    /\ Before(Everywhere, "patch", Waiting("normaliser"), "line")

(* The log: in order, and older than the lines that wait for the persister. *)
LogIsOld ==
    /\ Ascending(logs)
    /\ reader["persister"].phase \in Early => logs = <<>>
    /\ \A x \in Msgs(logs) : x <= forwarded
    /\ \A m \in Waiting("persister") : m.kind = "line" => \A x \in Msgs(logs) : x < m.n

(* What the browser shows: the same for the kind of message it follows. *)
Follows == IF viewer.kind = "raw" THEN "line" ELSE "patch"
ShownIsOld ==
    /\ Ascending(viewer.shown)
    /\ viewer.kind = "none" => reader["viewer"].phase = "none"
    /\ reader["viewer"].phase \in Early => viewer.shown = <<>>
    /\ reader["viewer"].phase # "ended" =>
        \A x \in Msgs(viewer.shown) :
            /\ x <= forwarded
            /\ \A m \in Waiting("viewer") : m.kind = Follows => x < m.n
            /\ viewer.kind # "raw" =>
                  /\ reader["normaliser"].phase \notin Early
                  /\ \A m \in Waiting("normaliser") : m.kind = "line" => x < m.n

(* The inductive invariant for the order of the lines. *)
OrderInv ==
    /\ LogTypeOK /\ PushedIsNew /\ InOrder /\ Bounded /\ NothingYet
    /\ PatchesAreTaken /\ LogIsOld /\ ShownIsOld

(* Finished is nowhere before it is sent; a persister that read it in the
   history subscribed too late to be owed anything; unless it lagged, what it is
   owed is stored, or waits for it ahead of Finished. *)
OwedIsKept ==
    /\ ~finished => \A m \in Everywhere : m.kind # "finished"
    /\ reader["persister"].phase \in Early => owed = {}
    /\ (\E m \in Msgs(reader["persister"].past) : m.kind = "finished") => finished /\ owed = {}
    /\ ~lagged => owed \subseteq Msgs(logs) \cup Ahead(reader["persister"].queue)

-----------------------------------------------------------------------------
(* What Append and Tail do to them. *)

LEMMA OfNothing ==
    /\ Msgs(<<>>) = {}
    /\ \A k : Ordered(<<>>, k)
    /\ Ascending(<<>>)
    /\ Ahead(<<>>) = {}
<1>1. 1 .. Len(<<>>) = {}
    OBVIOUS
<1>2. Msgs(<<>>) = {}
    BY <1>1 DEF Msgs
<1>3. Ahead(<<>>) = {}
    BY <1>1 DEF Ahead
<1>4. Ascending(<<>>) /\ \A k : Ordered(<<>>, k)
    BY <1>1 DEF Ascending, Ordered
<1>. QED
    BY <1>2, <1>3, <1>4

LEMMA MsgsAppend ==
    ASSUME NEW S, NEW s \in Seq(S), NEW m \in S
    PROVE  /\ Append(s, m) \in Seq(S)
           /\ Msgs(Append(s, m)) = Msgs(s) \cup {m}
<1>1. Append(s, m) \in Seq(S) /\ Len(Append(s, m)) = Len(s) + 1 /\ Len(s) \in Nat
    OBVIOUS
<1>2. \A i \in 1 .. Len(s) : Append(s, m)[i] = s[i]
    OBVIOUS
<1>3. Append(s, m)[Len(s) + 1] = m
    OBVIOUS
<1>4. ASSUME NEW x \in Msgs(Append(s, m)) PROVE x \in Msgs(s) \cup {m}
  <2>1. PICK i \in 1 .. Len(s) + 1 : x = Append(s, m)[i]
    BY <1>1 DEF Msgs
  <2>2. CASE i = Len(s) + 1
    BY <1>3, <2>1, <2>2
  <2>3. CASE i # Len(s) + 1
    <3>1. i \in 1 .. Len(s)
      BY <1>1, <2>3
    <3>. QED  BY <1>2, <2>1, <3>1 DEF Msgs
  <2>. QED  BY <2>2, <2>3
<1>5. ASSUME NEW x \in Msgs(s) \cup {m} PROVE x \in Msgs(Append(s, m))
  <2>1. CASE x = m
    BY <1>1, <1>3, <2>1, Len(s) + 1 \in 1 .. Len(s) + 1 DEF Msgs
  <2>2. CASE x \in Msgs(s)
    <3>1. PICK i \in 1 .. Len(s) : x = s[i]
      BY <2>2 DEF Msgs
    <3>2. i \in 1 .. Len(Append(s, m))
      BY <1>1
    <3>. QED  BY <1>2, <3>1, <3>2 DEF Msgs
  <2>. QED  BY <2>1, <2>2
<1>. QED
    BY <1>1, <1>4, <1>5

LEMMA MsgsTail ==
    ASSUME NEW S, NEW s \in Seq(S), s # <<>>
    PROVE  /\ Tail(s) \in Seq(S)
           /\ Head(s) \in S
           /\ Msgs(s) = {Head(s)} \cup Msgs(Tail(s))
<1>1. Tail(s) \in Seq(S) /\ Len(Tail(s)) = Len(s) - 1 /\ Len(s) \in Nat \ {0}
    OBVIOUS
<1>2. \A i \in 1 .. Len(s) - 1 : Tail(s)[i] = s[i + 1]
    OBVIOUS
<1>3. Head(s) = s[1] /\ Head(s) \in S
    OBVIOUS
<1>4. ASSUME NEW x \in Msgs(s) PROVE x \in {Head(s)} \cup Msgs(Tail(s))
  <2>1. PICK i \in 1 .. Len(s) : x = s[i]
    BY DEF Msgs
  <2>2. CASE i = 1
    BY <1>3, <2>1, <2>2
  <2>3. CASE i # 1
    <3>1. i - 1 \in 1 .. Len(s) - 1 /\ (i - 1) + 1 = i
      BY <1>1, <2>3
    <3>2. x = Tail(s)[i - 1]
      BY <1>2, <2>1, <3>1
    <3>. QED  BY <1>1, <3>1, <3>2 DEF Msgs
  <2>. QED  BY <2>2, <2>3
<1>5. ASSUME NEW x \in {Head(s)} \cup Msgs(Tail(s)) PROVE x \in Msgs(s)
  <2>1. CASE x = Head(s)
    BY <1>1, <1>3, <2>1, 1 \in 1 .. Len(s) DEF Msgs
  <2>2. CASE x \in Msgs(Tail(s))
    <3>1. PICK i \in 1 .. Len(s) - 1 : x = Tail(s)[i]
      BY <1>1, <2>2 DEF Msgs
    <3>2. i + 1 \in 1 .. Len(s)
      BY <1>1
    <3>. QED  BY <1>2, <3>1, <3>2 DEF Msgs
  <2>. QED  BY <2>1, <2>2
<1>. QED
    BY <1>1, <1>3, <1>4, <1>5

(* A queue that grows, and loses its oldest message when it is full. *)
LEMMA MsgsPush ==
    ASSUME NEW S, NEW s \in Seq(S), NEW m \in S, NEW t,
           t = Append(s, m) \/ (s # <<>> /\ t = Append(Tail(s), m))
    PROVE  Msgs(t) \subseteq Msgs(s) \cup {m}
<1>1. PICK u \in Seq(S) : t = Append(u, m) /\ Msgs(u) \subseteq Msgs(s)
  <2>1. CASE t = Append(s, m)
    BY <2>1
  <2>2. CASE s # <<>> /\ t = Append(Tail(s), m)
    <3>1. Tail(s) \in Seq(S) /\ Msgs(Tail(s)) \subseteq Msgs(s)
      BY <2>2, MsgsTail
    <3>. QED  BY <2>2, <3>1
  <2>. QED  BY <2>1, <2>2
<1>. QED
    BY <1>1, MsgsAppend

LEMMA MsgsType ==
    ASSUME NEW S, NEW s \in Seq(S)
    PROVE  Msgs(s) \subseteq S
    BY DEF Msgs

(* A message that comes after those of its kind may be appended. *)
LEMMA OrderedAppend ==
    ASSUME NEW s \in Seq(Message), NEW m \in Message, NEW k, Ordered(s, k),
           Before(Msgs(s), k, {m}, k)
    PROVE  Ordered(Append(s, m), k)
<1>1. Len(Append(s, m)) = Len(s) + 1 /\ Len(s) \in Nat
    OBVIOUS
<1>2. \A i \in 1 .. Len(s) : Append(s, m)[i] = s[i] /\ s[i] \in Msgs(s)
    BY DEF Msgs
<1>3. Append(s, m)[Len(s) + 1] = m
    OBVIOUS
<1>. SUFFICES ASSUME NEW i \in 1 .. Len(s) + 1, NEW j \in 1 .. Len(s) + 1, i < j,
                     Append(s, m)[i].kind = k, Append(s, m)[j].kind = k
              PROVE  Append(s, m)[i].n < Append(s, m)[j].n
    BY <1>1 DEF Ordered
<1>4. i \in 1 .. Len(s)
    BY <1>1
<1>5. CASE j = Len(s) + 1
    BY <1>2, <1>3, <1>4, <1>5 DEF Before
<1>6. CASE j # Len(s) + 1
  <2>1. j \in 1 .. Len(s)
    BY <1>1, <1>6
  <2>. QED  BY <1>2, <1>4, <2>1 DEF Ordered
<1>. QED
    BY <1>5, <1>6

(* What is left when the first message is taken is in order and comes after it. *)
LEMMA OrderedTail ==
    ASSUME NEW s \in Seq(Message), s # <<>>, NEW k, Ordered(s, k)
    PROVE  /\ Ordered(Tail(s), k)
           /\ Before({Head(s)}, k, Msgs(Tail(s)), k)
<1>1. Tail(s) \in Seq(Message) /\ Len(Tail(s)) = Len(s) - 1 /\ Len(s) \in Nat \ {0}
    OBVIOUS
<1>2. \A i \in 1 .. Len(s) - 1 : Tail(s)[i] = s[i + 1] /\ i + 1 \in 1 .. Len(s)
    BY <1>1
<1>3. Head(s) = s[1]
    OBVIOUS
<1>4. ASSUME NEW i \in 1 .. Len(s) - 1, NEW j \in 1 .. Len(s) - 1, i < j,
             Tail(s)[i].kind = k, Tail(s)[j].kind = k
      PROVE  Tail(s)[i].n < Tail(s)[j].n
    BY <1>1, <1>2, <1>4, i + 1 < j + 1 DEF Ordered
<1>5. ASSUME NEW y \in Msgs(Tail(s)), Head(s).kind = k, y.kind = k
      PROVE  Head(s).n < y.n
  <2>1. PICK i \in 1 .. Len(s) - 1 : y = Tail(s)[i]
    BY <1>1 DEF Msgs
  <2>2. i + 1 \in 1 .. Len(s) /\ 1 \in 1 .. Len(s) /\ 1 < i + 1
    BY <1>1
  <2>. QED  BY <1>2, <1>3, <1>5, <2>1, <2>2 DEF Ordered
<1>. QED
    BY <1>1, <1>4, <1>5 DEF Ordered, Before

(* A log stays in order when a later row is appended. *)
LEMMA AscendingAppend ==
    ASSUME NEW s \in Seq(Nat), NEW m \in Nat, Ascending(s), \A x \in Msgs(s) : x < m
    PROVE  Ascending(Append(s, m))
<1>1. Len(Append(s, m)) = Len(s) + 1 /\ Len(s) \in Nat
    OBVIOUS
<1>2. \A i \in 1 .. Len(s) : Append(s, m)[i] = s[i] /\ s[i] \in Msgs(s)
    BY DEF Msgs
<1>3. Append(s, m)[Len(s) + 1] = m
    OBVIOUS
<1>. SUFFICES ASSUME NEW i \in 1 .. Len(s) + 1, NEW j \in 1 .. Len(s) + 1, i < j
              PROVE  Append(s, m)[i] < Append(s, m)[j]
    BY <1>1 DEF Ascending
<1>4. i \in 1 .. Len(s)
    BY <1>1
<1>5. CASE j = Len(s) + 1
    BY <1>2, <1>3, <1>4, <1>5
<1>6. CASE j # Len(s) + 1
  <2>1. j \in 1 .. Len(s)
    BY <1>1, <1>6
  <2>. QED  BY <1>2, <1>4, <2>1 DEF Ascending
<1>. QED
    BY <1>5, <1>6

(* The beginning and the end of a log, without what is between them. *)
LEMMA AscendingCut ==
    ASSUME NEW s \in Seq(Nat), Ascending(s), NEW h \in 0 .. Len(s), NEW e \in h .. Len(s)
    PROVE  LET c == SubSeq(s, 1, h) \o SubSeq(s, e + 1, Len(s))
           IN  c \in Seq(Nat) /\ Ascending(c)
<1>. DEFINE a == SubSeq(s, 1, h)
            b == SubSeq(s, e + 1, Len(s))
            c == a \o b
<1>0. Len(s) \in Nat /\ h \in Nat /\ e \in Nat /\ h <= e /\ e <= Len(s)
    OBVIOUS
<1>1. a \in Seq(Nat) /\ Len(a) = h /\ \A i \in 1 .. h : a[i] = s[i]
    BY <1>0
<1>2. b \in Seq(Nat) /\ Len(b) = Len(s) - e /\ \A i \in 1 .. Len(s) - e : b[i] = s[e + i]
  <2>1. b \in Seq(Nat)
    BY <1>0
  <2>2. Len(b) = Len(s) - e
    BY <1>0
  <2>3. \A i \in 1 .. Len(s) - e : b[i] = s[e + i]
    BY <1>0
  <2>. QED  BY <2>1, <2>2, <2>3
<1>. HIDE DEF a, b
<1>3. c \in Seq(Nat) /\ Len(c) = h + (Len(s) - e)
    BY <1>1, <1>2, ConcatProperties
<1>4. \A i \in 1 .. Len(c) : c[i] = IF i <= h THEN a[i] ELSE b[i - h]
  <2>1. \A i \in 1 .. Len(a) + Len(b) : (a \o b)[i] = IF i <= Len(a) THEN a[i] ELSE b[i - Len(a)]
    BY <1>1, <1>2, ConcatProperties, Zenon
  <2>. QED  BY <1>1, <1>2, <1>3, <2>1
<1>5. \A i \in 1 .. h : c[i] = s[i]
    BY <1>0, <1>1, <1>3, <1>4
<1>6. \A i \in 1 .. Len(c) : i > h => c[i] = s[e + (i - h)] /\ e + (i - h) \in 1 .. Len(s)
  <2>. SUFFICES ASSUME NEW i \in 1 .. Len(c), i > h
                PROVE  c[i] = s[e + (i - h)] /\ e + (i - h) \in 1 .. Len(s)
    OBVIOUS
  <2>1. i - h \in 1 .. Len(s) - e
    BY <1>0, <1>3
  <2>2. c[i] = b[i - h]
    BY <1>0, <1>3, <1>4
  <2>3. b[i - h] = s[e + (i - h)]
    BY <1>2, <2>1
  <2>4. e + (i - h) \in 1 .. Len(s)
    BY <1>0, <2>1
  <2>. QED  BY <2>2, <2>3, <2>4
<1>. HIDE DEF c
<1>7. Ascending(c)
  <2>. SUFFICES ASSUME NEW i \in 1 .. Len(c), NEW j \in 1 .. Len(c), i < j
                PROVE  c[i] < c[j]
    BY DEF Ascending
  <2>1. CASE j <= h
    <3>1. i \in 1 .. Len(s) /\ j \in 1 .. Len(s) /\ i \in 1 .. h /\ j \in 1 .. h
      BY <1>0, <1>3, <2>1
    <3>. QED  BY <1>5, <3>1 DEF Ascending
  <2>2. CASE j > h /\ i <= h
    <3>1. i \in 1 .. h /\ i \in 1 .. Len(s) /\ i < e + (j - h)
      BY <1>0, <1>3, <2>2
    <3>. QED  BY <1>5, <1>6, <2>2, <3>1 DEF Ascending
  <2>3. CASE i > h
    <3>1. j > h /\ e + (i - h) < e + (j - h)
      BY <1>0, <1>3, <2>3
    <3>. QED  BY <1>6, <2>3, <3>1 DEF Ascending
  <2>. QED  BY <1>0, <1>3, <2>1, <2>2, <2>3
<1>. QED
    BY <1>3, <1>7 DEF a, b, c

(* What waits in a queue ahead of Finished stays there when more is sent; a line
   that is sent before Finished is ahead of it. *)
LEMMA AheadAppend ==
    ASSUME NEW q \in Seq(Message), NEW m \in Message
    PROVE  /\ Ahead(q) \subseteq Ahead(Append(q, m))
           /\ m.kind = "line" /\ (\A x \in Msgs(q) : x.kind # "finished")
                => m.n \in Ahead(Append(q, m))
<1>1. Len(Append(q, m)) = Len(q) + 1 /\ Len(q) \in Nat
    OBVIOUS
<1>2. \A i \in 1 .. Len(q) : Append(q, m)[i] = q[i] /\ q[i] \in Msgs(q)
    BY DEF Msgs
<1>3. Append(q, m)[Len(q) + 1] = m
    OBVIOUS
<1>4. ASSUME NEW n \in Ahead(q) PROVE n \in Ahead(Append(q, m))
  <2>1. PICK i \in 1 .. Len(q) : /\ n = q[i].n /\ q[i].kind = "line"
                                 /\ \A j \in 1 .. i : q[j].kind # "finished"
    BY DEF Ahead
  <2>2. i \in 1 .. Len(Append(q, m)) /\ \A j \in 1 .. i : j \in 1 .. Len(q)
    BY <1>1
  <2>. QED  BY <1>2, <2>1, <2>2 DEF Ahead
<1>5. ASSUME m.kind = "line", \A x \in Msgs(q) : x.kind # "finished"
      PROVE  m.n \in Ahead(Append(q, m))
  <2>1. Len(q) + 1 \in 1 .. Len(Append(q, m))
    BY <1>1
  <2>2. ASSUME NEW j \in 1 .. Len(q) + 1 PROVE Append(q, m)[j].kind # "finished"
    <3>1. CASE j = Len(q) + 1
      BY <1>3, <1>5, <3>1
    <3>2. CASE j # Len(q) + 1
      <4>1. j \in 1 .. Len(q)
        BY <1>1, <3>2
      <4>. QED  BY <1>2, <1>5, <4>1
    <3>. QED  BY <3>1, <3>2
  <2>. QED  BY <1>3, <1>5, <2>1, <2>2 DEF Ahead
<1>. QED
    BY <1>4, <1>5

(* Taking a message takes a line that was ahead, or nothing was ahead. *)
LEMMA AheadTail ==
    ASSUME NEW q \in Seq(Message), q # <<>>
    PROVE  /\ Head(q).kind = "finished" => Ahead(q) = {}
           /\ \A n \in Ahead(q) : \/ n \in Ahead(Tail(q))
                                  \/ Head(q).kind = "line" /\ n = Head(q).n
<1>1. Tail(q) \in Seq(Message) /\ Len(Tail(q)) = Len(q) - 1 /\ Len(q) \in Nat \ {0}
    OBVIOUS
<1>2. \A i \in 1 .. Len(q) - 1 : Tail(q)[i] = q[i + 1] /\ i + 1 \in 1 .. Len(q)
    BY <1>1
<1>3. Head(q) = q[1]
    OBVIOUS
<1>4. ASSUME NEW n \in Ahead(q)
      PROVE  /\ Head(q).kind # "finished"
             /\ \/ n \in Ahead(Tail(q))
                \/ Head(q).kind = "line" /\ n = Head(q).n
  <2>1. PICK i \in 1 .. Len(q) : /\ n = q[i].n /\ q[i].kind = "line"
                                 /\ \A j \in 1 .. i : q[j].kind # "finished"
    BY DEF Ahead
  <2>2. Head(q).kind # "finished"
    BY <1>1, <1>3, <2>1, 1 \in 1 .. i
  <2>3. CASE i = 1
    BY <1>3, <2>1, <2>2, <2>3
  <2>4. CASE i # 1
    <3>1. i - 1 \in 1 .. Len(q) - 1 /\ (i - 1) + 1 = i
      BY <1>1, <2>4
    <3>2. ASSUME NEW j \in 1 .. i - 1 PROVE Tail(q)[j].kind # "finished"
      <4>1. j \in 1 .. Len(q) - 1 /\ j + 1 \in 1 .. i
        BY <1>1, <3>1
      <4>. QED  BY <1>2, <2>1, <4>1
    <3>3. Tail(q)[i - 1] = q[i]
      BY <1>2, <3>1
    <3>4. n \in Ahead(Tail(q))
      BY <1>1, <2>1, <3>1, <3>2, <3>3 DEF Ahead
    <3>. QED  BY <2>2, <3>4
  <2>. QED  BY <2>3, <2>4
<1>. QED
    BY <1>4

-----------------------------------------------------------------------------
(* The messages of LogMsg and the start of a reader. *)
LEMMA Constants ==
    /\ \A n \in Nat : Line(n) \in Message /\ Line(n).kind = "line" /\ Line(n).n = n
    /\ \A n \in Nat : JsonPatch(n) \in Message /\ JsonPatch(n).kind = "patch" /\ JsonPatch(n).n = n
    /\ SessionId \in Message /\ SessionId.kind = "session" /\ SessionId.n = 0
    /\ Finished \in Message /\ Finished.kind = "finished" /\ Finished.n = 0
    /\ NoMsg \in Message /\ NoMsg.kind = "none" /\ NoMsg.n = 0
    BY DEF Line, JsonPatch, SessionId, Finished, NoMsg, Message

LEMMA EmptyReader ==
    ASSUME NEW st \in ReaderState, st.past = <<>>, st.queue = <<>>
    PROVE  StreamInOrder(st) /\ Holding(st) = {} /\ HoldsByPhase(st)
    BY OfNothing DEF StreamInOrder, Holding, HoldsByPhase, Before

(* The live half of push: only live readers get the message, behind what they
   have, of which they may lose the oldest. *)
LEMMA SendIs ==
    ASSUME NEW rs \in [Reader -> ReaderState], NEW m \in Message, Send(rs, m), lagged \in BOOLEAN
    PROVE  /\ reader' \in [Reader -> ReaderState]
           /\ lagged' \in BOOLEAN
           /\ ~lagged' => ~lagged
           /\ \A r \in Reader :
                /\ reader'[r].phase = rs[r].phase
                /\ reader'[r].past = rs[r].past
                /\ rs[r].phase # "live" => reader'[r] = rs[r]
                /\ rs[r].phase = "live" =>
                     /\ \/ reader'[r].queue = Append(rs[r].queue, m)
                        \/ rs[r].queue # <<>> /\ reader'[r].queue = Append(Tail(rs[r].queue), m)
                     /\ ~lagged' => reader'[r].queue = Append(rs[r].queue, m)
<1>. DEFINE Live == {r \in Reader : rs[r].phase = "live"}
            Full == {r \in Live : Len(rs[r].queue) >= LagLimit}
            Grown(r) == Append(IF r \in Full THEN Tail(rs[r].queue) ELSE rs[r].queue, m)
<1>1. /\ reader' = [r \in Reader |-> IF r \notin Live THEN rs[r]
                                     ELSE [rs[r] EXCEPT !.queue = Grown(r)]]
      /\ lagged' = (lagged \/ Full # {})
    BY DEF Send
<1>2. lagged' \in BOOLEAN
    BY <1>1
<1>3. ~lagged' => ~lagged /\ Full = {}
    BY <1>1
<1>4. \A r \in Reader : /\ rs[r] \in ReaderState
                        /\ rs[r].queue \in Seq(Message)
                        /\ rs[r].past \in Seq(Message)
                        /\ rs[r].phase \in Phase
    BY DEF ReaderState
<1>5. \A r \in Full : rs[r].queue # <<>>
  <2>. SUFFICES ASSUME NEW r \in Full, rs[r].queue = <<>> PROVE FALSE
    OBVIOUS
  <2>1. Len(rs[r].queue) >= LagLimit /\ LagLimit \in Nat \ {0}
    BY LogStreamBounds
  <2>. QED  BY <2>1
<1>6. \A r \in Reader : Grown(r) \in Seq(Message)
  <2>. SUFFICES ASSUME NEW r \in Reader PROVE Grown(r) \in Seq(Message)
    OBVIOUS
  <2>1. CASE r \in Full
    BY <1>4, <1>5, <2>1, MsgsTail
  <2>2. CASE r \notin Full
    BY <1>4, <2>2
  <2>. QED  BY <2>1, <2>2
<1>7. \A r \in Reader : \/ Grown(r) = Append(rs[r].queue, m)
                        \/ rs[r].queue # <<>> /\ Grown(r) = Append(Tail(rs[r].queue), m)
    BY <1>5
<1>8. \A r \in Reader : Full = {} => Grown(r) = Append(rs[r].queue, m)
    OBVIOUS
<1>. HIDE DEF Grown, Full
<1>9. \A r \in Reader : r \in Live => /\ reader'[r] = [rs[r] EXCEPT !.queue = Grown(r)]
                                      /\ reader'[r] \in ReaderState
                                      /\ reader'[r].queue = Grown(r)
                                      /\ reader'[r].phase = rs[r].phase
                                      /\ reader'[r].past = rs[r].past
    BY <1>1, <1>4, <1>6 DEF ReaderState
<1>10. \A r \in Reader : r \notin Live => reader'[r] = rs[r]
    BY <1>1
<1>11. reader' \in [Reader -> ReaderState]
    BY <1>1, <1>4, <1>9, <1>10
<1>. QED
    BY <1>2, <1>3, <1>7, <1>8, <1>9, <1>10, <1>11

(* What a message that is sent does to a stream that is in order. *)
LEMMA SentStream ==
    ASSUME NEW rs \in [Reader -> ReaderState], NEW m \in Message, Send(rs, m), lagged \in BOOLEAN,
           NEW r \in Reader, StreamInOrder(rs[r]), HoldsByPhase(rs[r]),
           \A k \in {"line", "patch"} : Before(Holding(rs[r]), k, {m}, k)
    PROVE  /\ StreamInOrder(reader'[r])
           /\ HoldsByPhase(reader'[r])
           /\ Holding(reader'[r]) \subseteq Holding(rs[r]) \cup {m}
           /\ rs[r].phase # "live" => Holding(reader'[r]) = Holding(rs[r])
<1>0. rs[r] \in ReaderState /\ rs[r].queue \in Seq(Message) /\ rs[r].past \in Seq(Message)
    BY DEF ReaderState
<1>1. CASE rs[r].phase # "live"
    BY <1>1, SendIs
<1>2. CASE rs[r].phase = "live"
  <2>1. PICK q \in Seq(Message) :
           /\ reader'[r].queue = Append(q, m)
           /\ Msgs(q) \subseteq Msgs(rs[r].queue)
           /\ \A k \in {"line", "patch"} : Ordered(q, k)
    <3>1. CASE reader'[r].queue = Append(rs[r].queue, m)
      BY <1>0, <3>1 DEF StreamInOrder
    <3>2. CASE rs[r].queue # <<>> /\ reader'[r].queue = Append(Tail(rs[r].queue), m)
      <4>1. Tail(rs[r].queue) \in Seq(Message) /\ Msgs(Tail(rs[r].queue)) \subseteq Msgs(rs[r].queue)
        BY <1>0, <3>2, MsgsTail
      <4>2. \A k \in {"line", "patch"} : Ordered(Tail(rs[r].queue), k)
        BY <1>0, <3>2, OrderedTail DEF StreamInOrder
      <4>. QED  BY <3>2, <4>1, <4>2
    <3>. QED  BY <1>2, <3>1, <3>2, SendIs
  <2>2. reader'[r].past = rs[r].past /\ reader'[r].phase = "live"
    BY <1>2, SendIs
  <2>3. Msgs(reader'[r].queue) = Msgs(q) \cup {m}
    BY <2>1, MsgsAppend
  <2>4. Holding(reader'[r]) \subseteq Holding(rs[r]) \cup {m}
    BY <2>1, <2>2, <2>3 DEF Holding
  <2>5. \A k \in {"line", "patch"} : Ordered(reader'[r].queue, k)
    <3>. SUFFICES ASSUME NEW k \in {"line", "patch"} PROVE Ordered(Append(q, m), k)
      BY <2>1
    <3>1. Before(Msgs(q), k, {m}, k)
      BY <2>1 DEF Before, Holding
    <3>. QED  BY <2>1, <3>1, OrderedAppend
  <2>6. \A k \in {"line", "patch"} : Before(Msgs(reader'[r].past), k, Msgs(reader'[r].queue), k)
    BY <2>1, <2>2, <2>3 DEF StreamInOrder, Before, Holding
  <2>7. \A k \in {"line", "patch"} : Ordered(reader'[r].past, k)
    BY <2>2 DEF StreamInOrder
  <2>8. StreamInOrder(reader'[r])
    BY <2>5, <2>6, <2>7 DEF StreamInOrder
  <2>9. HoldsByPhase(reader'[r])
    BY <2>2 DEF HoldsByPhase
  <2>. QED  BY <1>2, <2>4, <2>8, <2>9
<1>. QED
    BY <1>1, <1>2

(* Taking the next message: it is before the others of its kind, and they stay
   in order. *)
LEMMA RestIs ==
    ASSUME LogTypeOK, NEW r \in Reader, Taking(r), StreamInOrder(reader[r])
    PROVE  /\ Rest(r) \in [Reader -> ReaderState]
           /\ \A o \in Reader \ {r} : Rest(r)[o] = reader[o]
           /\ Rest(r)[r].phase = "live"
           /\ Taken(r) \in Message /\ Taken(r) \in Waiting(r)
           /\ Holding(Rest(r)[r]) \subseteq Waiting(r)
           /\ StreamInOrder(Rest(r)[r])
           /\ HoldsByPhase(Rest(r)[r])
           /\ \A k \in {"line", "patch"} : Before({Taken(r)}, k, Holding(Rest(r)[r]), k)
           /\ \/ /\ reader[r].past # <<>> /\ Taken(r) \in Msgs(reader[r].past)
                 /\ Msgs(Rest(r)[r].past) \subseteq Msgs(reader[r].past)
                 /\ Rest(r)[r].queue = reader[r].queue
              \/ /\ reader[r].past = <<>> /\ reader[r].queue # <<>>
                 /\ Taken(r) = Head(reader[r].queue)
                 /\ Rest(r)[r].past = <<>>
                 /\ Rest(r)[r].queue = Tail(reader[r].queue)
<1>0. /\ reader \in [Reader -> ReaderState] /\ reader[r] \in ReaderState
      /\ reader[r].past \in Seq(Message) /\ reader[r].queue \in Seq(Message)
      /\ reader[r].phase = "live"
    BY DEF LogTypeOK, ReaderState, Taking
<1>1. CASE reader[r].past # <<>>
  <2>1. Rest(r) = [reader EXCEPT ![r].past = Tail(@)] /\ Taken(r) = Head(reader[r].past)
    BY <1>1 DEF Rest, Taken
  <2>2. /\ Tail(reader[r].past) \in Seq(Message) /\ Head(reader[r].past) \in Message
        /\ Msgs(reader[r].past) = {Head(reader[r].past)} \cup Msgs(Tail(reader[r].past))
    BY <1>0, <1>1, MsgsTail
  <2>3. /\ Rest(r) \in [Reader -> ReaderState]
        /\ \A o \in Reader \ {r} : Rest(r)[o] = reader[o]
        /\ Rest(r)[r].phase = "live"
        /\ Rest(r)[r].past = Tail(reader[r].past)
        /\ Rest(r)[r].queue = reader[r].queue
    <3>1. [reader[r] EXCEPT !.past = Tail(reader[r].past)] \in ReaderState
      BY <1>0, <2>2 DEF ReaderState
    <3>2. Rest(r) = [reader EXCEPT ![r] = [reader[r] EXCEPT !.past = Tail(reader[r].past)]]
      BY <2>1
    <3>3. Rest(r)[r] = [reader[r] EXCEPT !.past = Tail(reader[r].past)]
      BY <1>0, <3>2
    <3>4. /\ Rest(r)[r].phase = "live" /\ Rest(r)[r].past = Tail(reader[r].past)
          /\ Rest(r)[r].queue = reader[r].queue
      BY <1>0, <3>3 DEF ReaderState
    <3>. QED  BY <1>0, <3>1, <3>2, <3>4
  <2>4. \A k \in {"line", "patch"} :
            /\ Ordered(Tail(reader[r].past), k)
            /\ Before({Head(reader[r].past)}, k, Msgs(Tail(reader[r].past)), k)
    BY <1>0, <1>1, OrderedTail DEF StreamInOrder
  <2>5. StreamInOrder(Rest(r)[r])
    BY <2>2, <2>3, <2>4 DEF StreamInOrder, Before
  <2>6. \A k \in {"line", "patch"} : Before({Taken(r)}, k, Holding(Rest(r)[r]), k)
    BY <2>1, <2>2, <2>3, <2>4 DEF StreamInOrder, Before, Holding
  <2>7. HoldsByPhase(Rest(r)[r])
    BY <2>3 DEF HoldsByPhase
  <2>8. Taken(r) \in Msgs(reader[r].past) /\ Taken(r) \in Message
    BY <2>1, <2>2
  <2>9. Msgs(Rest(r)[r].past) \subseteq Msgs(reader[r].past)
    BY <2>2, <2>3
  <2>10. Taken(r) \in Waiting(r) /\ Holding(Rest(r)[r]) \subseteq Waiting(r)
    BY <2>3, <2>8, <2>9 DEF Waiting, Holding
  <2>. QED  BY <1>1, <2>3, <2>5, <2>6, <2>7, <2>8, <2>9, <2>10
<1>2. CASE reader[r].past = <<>>
  <2>0. reader[r].queue # <<>>
    BY <1>2 DEF Taking
  <2>1. Rest(r) = [reader EXCEPT ![r].queue = Tail(@)] /\ Taken(r) = Head(reader[r].queue)
    BY <1>2 DEF Rest, Taken
  <2>2. /\ Tail(reader[r].queue) \in Seq(Message) /\ Head(reader[r].queue) \in Message
        /\ Msgs(reader[r].queue) = {Head(reader[r].queue)} \cup Msgs(Tail(reader[r].queue))
    BY <1>0, <2>0, MsgsTail
  <2>3. /\ Rest(r) \in [Reader -> ReaderState]
        /\ \A o \in Reader \ {r} : Rest(r)[o] = reader[o]
        /\ Rest(r)[r].phase = "live"
        /\ Rest(r)[r].past = <<>>
        /\ Rest(r)[r].queue = Tail(reader[r].queue)
    <3>1. /\ Rest(r) \in [Reader -> ReaderState]
          /\ \A o \in Reader \ {r} : Rest(r)[o] = reader[o]
          /\ Rest(r)[r].phase = "live"
          /\ Rest(r)[r].past = reader[r].past
          /\ Rest(r)[r].queue = Tail(reader[r].queue)
      <4>. DEFINE t == Tail(reader[r].queue)
                  st == [reader[r] EXCEPT !.queue = t]
      <4>1. t \in Seq(Message)
        BY <2>2
      <4>. HIDE DEF t
      <4>2. st \in ReaderState /\ st.phase = "live" /\ st.past = reader[r].past /\ st.queue = t
        BY <1>0, <4>1 DEF ReaderState
      <4>3. Rest(r) = [reader EXCEPT ![r] = st]
        BY <1>0, <2>1 DEF t
      <4>. HIDE DEF st
      <4>. QED  BY <1>0, <4>2, <4>3 DEF t
    <3>. QED  BY <1>2, <3>1
  <2>4. \A k \in {"line", "patch"} :
            /\ Ordered(Tail(reader[r].queue), k)
            /\ Before({Head(reader[r].queue)}, k, Msgs(Tail(reader[r].queue)), k)
    BY <1>0, <2>0, OrderedTail DEF StreamInOrder
  <2>5. StreamInOrder(Rest(r)[r])
    BY <2>3, <2>4, OfNothing DEF StreamInOrder, Before
  <2>6. \A k \in {"line", "patch"} : Before({Taken(r)}, k, Holding(Rest(r)[r]), k)
    BY <2>1, <2>3, <2>4, OfNothing DEF Before, Holding
  <2>7. HoldsByPhase(Rest(r)[r])
    BY <2>3 DEF HoldsByPhase
  <2>8. Taken(r) \in Waiting(r) /\ Taken(r) \in Message
    BY <2>1, <2>2 DEF Waiting, Holding
  <2>9. Holding(Rest(r)[r]) \subseteq Waiting(r)
    BY <2>2, <2>3, OfNothing DEF Waiting, Holding
  <2>. QED  BY <1>2, <2>0, <2>1, <2>3, <2>5, <2>6, <2>7, <2>8, <2>9
<1>. QED
    BY <1>1, <1>2

(* A reader that leaves its loop holds nothing any more. *)
LEMMA LeftIs ==
    ASSUME LogTypeOK, NEW r \in Reader
    PROVE  /\ Left(r) \in [Reader -> ReaderState]
           /\ \A o \in Reader \ {r} : Left(r)[o] = reader[o]
           /\ Left(r)[r].phase = "ended"
           /\ Left(r)[r].past = <<>> /\ Left(r)[r].queue = <<>>
<1>. DEFINE st == [phase |-> "ended", past |-> <<>>, queue |-> <<>>]
<1>1. [NewReader EXCEPT !.phase = "ended"] = st
    BY DEF NewReader
<1>2. st.phase = "ended" /\ st.past = <<>> /\ st.queue = <<>>
    OBVIOUS
<1>3. <<>> \in Seq(Message)
    OBVIOUS
<1>4. st \in ReaderState
    BY <1>3 DEF ReaderState, Phase
<1>5. Left(r) = [reader EXCEPT ![r] = st]
    BY <1>1 DEF Left
<1>. HIDE DEF st
<1>. QED
    BY <1>2, <1>4, <1>5 DEF LogTypeOK

(* A reader's phase is set by the task that starts it. *)
LEMMA PhaseIs ==
    ASSUME LogTypeOK, NEW r \in Reader, NEW phase \in Phase,
           reader' = [reader EXCEPT ![r].phase = phase]
    PROVE  /\ reader' \in [Reader -> ReaderState]
           /\ \A o \in Reader \ {r} : reader'[o] = reader[o]
           /\ reader'[r].phase = phase
           /\ reader'[r].past = reader[r].past /\ reader'[r].queue = reader[r].queue
    BY DEF LogTypeOK, ReaderState

-----------------------------------------------------------------------------
(* Steps that push nothing. *)

(* When readers only lose messages, what there is stays in order. *)
LEMMA FewerMessages ==
    ASSUME OrderInv, forwarded' \in Nat, forwarded' >= forwarded,
           UNCHANGED <<history, pushing>>,
           \A r \in Reader : /\ StreamInOrder(reader'[r])
                             /\ Holding(reader'[r]) \subseteq Holding(reader[r]),
           reader'["normaliser"].phase \in Early => reader["normaliser"].phase \in Early
    PROVE  (PushedIsNew /\ InOrder /\ Bounded /\ PatchesAreTaken)'
<1>1. \A r \in Reader : Waiting(r)' \subseteq Waiting(r)
    BY DEF Waiting
<1>2. Everywhere' \subseteq Everywhere
    BY <1>1 DEF Everywhere
<1>3. PushedIsNew' /\ InOrder'
    BY DEF OrderInv, PushedIsNew, InOrder
<1>4. Everywhere \subseteq Message
  <2>1. \A r \in Reader : Waiting(r) \subseteq Message
    BY MsgsType DEF OrderInv, LogTypeOK, ReaderState, Waiting, Holding
  <2>2. Msgs(history) \subseteq Message
    BY MsgsType DEF OrderInv, LogTypeOK
  <2>. QED  BY <2>1, <2>2 DEF Everywhere, OrderInv, LogTypeOK
<1>5. Bounded'
    BY <1>2, <1>4 DEF OrderInv, LogTypeOK, Bounded, Message
<1>6. PatchesAreTaken'
  <2>1. "normaliser" \in Reader
    BY DEF Reader
  <2>. QED  BY <1>1, <1>2, <2>1 DEF OrderInv, PatchesAreTaken, Before
<1>. QED
    BY <1>3, <1>5, <1>6

(* The log and what waits for the persister, when nothing is added to either. *)
LEMMA LogKept ==
    ASSUME OrderInv, UNCHANGED logs, forwarded' \in Nat, forwarded' >= forwarded,
           Waiting("persister")' \subseteq Waiting("persister"),
           reader'["persister"].phase \in Early => reader["persister"].phase \in Early
    PROVE  LogIsOld'
<1>1. Msgs(logs) \subseteq Nat
    BY MsgsType DEF OrderInv, LogTypeOK
<1>2. \A x \in Msgs(logs) : x <= forwarded'
    BY <1>1 DEF OrderInv, LogTypeOK, LogIsOld
<1>. QED
    BY <1>2 DEF OrderInv, LogIsOld

(* The same for what the browser shows. *)
LEMMA ShownKept ==
    ASSUME OrderInv, UNCHANGED viewer, forwarded' \in Nat, forwarded' >= forwarded,
           Waiting("viewer")' \subseteq Waiting("viewer"),
           Waiting("normaliser")' \subseteq Waiting("normaliser"),
           reader'["viewer"].phase # "ended" => reader["viewer"].phase # "ended",
           reader'["viewer"].phase \in Early => reader["viewer"].phase \in Early,
           viewer.kind = "none" => reader'["viewer"].phase = "none",
           reader'["normaliser"].phase \in Early => reader["normaliser"].phase \in Early
    PROVE  ShownIsOld'
<1>1. Msgs(viewer.shown) \subseteq Nat
    BY MsgsType DEF OrderInv, LogTypeOK
<1>2. Follows' = Follows
    BY DEF Follows
<1>3. reader'["viewer"].phase # "ended" => \A x \in Msgs(viewer.shown) : x <= forwarded'
    BY <1>1 DEF OrderInv, LogTypeOK, ShownIsOld
<1>. QED
    BY <1>2, <1>3 DEF OrderInv, ShownIsOld

LEMMA AgentExitsStep ==
    ASSUME OrderInv, AgentExits
    PROVE  OrderInv'
<1>1. LogTypeOK'
  <2>1. written' \in Nat
    BY DEF OrderInv, LogTypeOK, AgentExits
  <2>2. agentRuns' \in BOOLEAN
    BY DEF AgentExits
  <2>. QED  BY <2>1, <2>2 DEF OrderInv, LogTypeOK, AgentExits
<1>2. UNCHANGED <<reader, forwarded, history, pushing, spawned, logs, viewer>>
    BY DEF AgentExits
<1>3. (PushedIsNew /\ InOrder /\ Bounded /\ NothingYet /\ PatchesAreTaken)'
    BY <1>2 DEF OrderInv, PushedIsNew, InOrder, Bounded, NothingYet, PatchesAreTaken, Everywhere,
        Waiting
<1>4. (LogIsOld /\ ShownIsOld)'
    BY <1>2 DEF OrderInv, LogIsOld, ShownIsOld, Waiting, Follows
<1>. QED
    BY <1>1, <1>3, <1>4 DEF OrderInv

(* A task starts: it takes hold of the store, or finds it gone. *)
LEMMA StarterStep ==
    ASSUME OrderInv, Starter
    PROVE  OrderInv'
<1>0. LogTypeOK /\ Reader = {"normaliser", "persister", "viewer"}
    BY DEF OrderInv, Reader
<1>1. PICK r \in {"normaliser", "persister"}, phase \in {"store", "ended"} :
          /\ reader' = [reader EXCEPT ![r].phase = phase]
          /\ reader[r].phase = "none"
          /\ r = "normaliser" => spawned = "monitor" /\ spawned' = "normaliser"
          /\ r = "persister" => spawned' = "done"
    BY DEF Starter, normalize_logs, spawn_stream_raw_logs_to_db, OrderInv, NothingYet
<1>2. UNCHANGED <<script, agentRuns, written, forwarded, inMap, history, pushing, finished,
                  logs, session, viewer, lagged, owed>>
    BY DEF Starter, normalize_logs, spawn_stream_raw_logs_to_db
<1>3. /\ reader' \in [Reader -> ReaderState]
      /\ \A o \in Reader \ {r} : reader'[o] = reader[o]
      /\ reader'[r].phase = phase
      /\ reader'[r].past = <<>> /\ reader'[r].queue = <<>>
  <2>1. phase \in Phase /\ r \in Reader
    BY <1>0 DEF Phase
  <2>2. reader[r].past = <<>> /\ reader[r].queue = <<>>
    BY <1>1, <2>1 DEF OrderInv, NothingYet, HoldsByPhase
  <2>. QED  BY <1>0, <1>1, <2>1, <2>2, PhaseIs
<1>4. StreamInOrder(reader'[r]) /\ Holding(reader'[r]) = {} /\ HoldsByPhase(reader'[r])
    BY <1>0, <1>3, EmptyReader
<1>5. \A o \in Reader : /\ StreamInOrder(reader'[o]) /\ HoldsByPhase(reader'[o])
                        /\ Holding(reader'[o]) \subseteq Holding(reader[o])
    BY <1>3, <1>4 DEF OrderInv, InOrder, NothingYet
<1>6. LogTypeOK'
    BY <1>0, <1>1, <1>2, <1>3 DEF LogTypeOK
<1>7. NothingYet'
    BY <1>0, <1>1, <1>3, <1>5 DEF OrderInv, NothingYet
<1>8. \A o \in Reader : reader'[o].phase \in Early => reader[o].phase \in Early
    BY <1>1, <1>3 DEF Early
<1>9. (PushedIsNew /\ InOrder /\ Bounded /\ PatchesAreTaken)'
    BY <1>0, <1>2, <1>5, <1>8, FewerMessages DEF LogTypeOK
<1>10. \A o \in Reader : Waiting(o)' \subseteq Waiting(o)
    BY <1>5 DEF Waiting
<1>11. LogIsOld'
    BY <1>0, <1>2, <1>8, <1>10, LogKept DEF LogTypeOK
<1>12. ShownIsOld'
  <2>1. reader'["viewer"] = reader["viewer"]
    BY <1>0, <1>3
  <2>. QED  BY <1>0, <1>2, <1>8, <1>10, <2>1, ShownKept DEF LogTypeOK, OrderInv, ShownIsOld
<1>. QED
    BY <1>6, <1>7, <1>9, <1>11, <1>12 DEF OrderInv

(* The first half of history_plus_stream: the reader has taken nothing yet, so
   that whatever the history holds is new to it. *)
LEMMA GetHistoryStep ==
    ASSUME OrderInv, NEW r \in Reader, history_plus_stream(r), get_history(r)
    PROVE  OrderInv'
<1>0. LogTypeOK /\ Reader = {"normaliser", "persister", "viewer"}
    BY DEF OrderInv, Reader
<1>1. /\ reader[r].phase = "store"
      /\ reader' = [reader EXCEPT ![r] = [phase |-> "history", past |-> history, queue |-> <<>>]]
    BY DEF get_history
<1>2. UNCHANGED <<script, agentRuns, written, forwarded, inMap, history, pushing,
                   spawned, finished, logs, session, viewer, lagged, owed>>
    BY DEF history_plus_stream
<1>3. /\ reader' \in [Reader -> ReaderState]
      /\ \A o \in Reader \ {r} : reader'[o] = reader[o]
      /\ reader'[r].phase = "history" /\ reader'[r].past = history /\ reader'[r].queue = <<>>
  <2>1. <<>> \in Seq(Message)
    OBVIOUS
  <2>2. [phase |-> "history", past |-> history, queue |-> <<>>] \in ReaderState
    BY <1>0, <2>1 DEF LogTypeOK, ReaderState, Phase
  <2>. QED  BY <1>0, <1>1, <2>2 DEF LogTypeOK
<1>4. StreamInOrder(reader'[r]) /\ HoldsByPhase(reader'[r]) /\ Holding(reader'[r]) = Msgs(history)
    BY <1>3, OfNothing DEF OrderInv, InOrder, StreamInOrder, HoldsByPhase, Holding, Before
<1>5. \A o \in Reader : StreamInOrder(reader'[o]) /\ HoldsByPhase(reader'[o])
    BY <1>3, <1>4 DEF OrderInv, InOrder, NothingYet
<1>6. LogTypeOK'
    BY <1>0, <1>2, <1>3 DEF LogTypeOK
<1>7. NothingYet'
    BY <1>0, <1>1, <1>2, <1>3, <1>5 DEF OrderInv, NothingYet
<1>8. Everywhere' \subseteq Everywhere
  <2>1. \A o \in Reader : Waiting(o)' \subseteq Waiting(o) \cup Msgs(history)
    BY <1>3, <1>4 DEF Waiting
  <2>. QED  BY <1>2, <2>1 DEF Everywhere
<1>9. (PushedIsNew /\ InOrder /\ Bounded)'
    BY <1>2, <1>5, <1>8 DEF OrderInv, PushedIsNew, InOrder, Bounded
<1>10. PatchesAreTaken'
  <2>1. CASE r = "normaliser"
    <3>1. \A m \in Everywhere : m.kind # "patch"
      BY <1>1, <2>1 DEF OrderInv, PatchesAreTaken, Early
    <3>. QED  BY <1>8, <3>1 DEF PatchesAreTaken, Before
  <2>2. CASE r # "normaliser"
    <3>1. reader'["normaliser"] = reader["normaliser"]
      BY <1>0, <1>3, <2>2
    <3>. QED  BY <1>8, <3>1 DEF OrderInv, PatchesAreTaken, Before, Waiting
  <2>. QED  BY <2>1, <2>2
<1>11. LogIsOld'
  <2>1. CASE r = "persister"
    <3>1. logs' = <<>>
      BY <1>1, <1>2, <2>1 DEF OrderInv, LogIsOld, Early
    <3>. QED  BY <3>1, OfNothing DEF LogIsOld
  <2>2. CASE r # "persister"
    <3>1. reader'["persister"] = reader["persister"]
      BY <1>0, <1>3, <2>2
    <3>. QED  BY <1>2, <3>1 DEF OrderInv, LogIsOld, Waiting
  <2>. QED  BY <2>1, <2>2
<1>12. ShownIsOld'
  <2>1. CASE r = "viewer"
    <3>1. viewer'.shown = <<>> /\ viewer.kind # "none"
      BY <1>1, <1>2, <2>1 DEF OrderInv, ShownIsOld, Early
    <3>. QED  BY <1>2, <3>1, OfNothing DEF ShownIsOld
  <2>2. CASE r = "persister"
    <3>1. reader'["normaliser"] = reader["normaliser"] /\ reader'["viewer"] = reader["viewer"]
      BY <1>0, <1>3, <2>2
    <3>. QED  BY <1>2, <3>1 DEF OrderInv, ShownIsOld, Waiting, Follows
  <2>3. CASE r = "normaliser"
    <3>1. reader'["viewer"] = reader["viewer"]
      BY <1>0, <1>3, <2>3
    <3>2. reader["normaliser"].phase \in Early
      BY <1>1, <2>3 DEF Early
    <3>3. reader["viewer"].phase # "ended" /\ viewer.kind # "raw" => Msgs(viewer.shown) = {}
      BY <3>2 DEF OrderInv, ShownIsOld
    <3>. QED  BY <1>2, <3>1, <3>3 DEF OrderInv, ShownIsOld, Waiting, Follows
  <2>. QED  BY <1>0, <2>1, <2>2, <2>3
<1>. QED
    BY <1>6, <1>7, <1>9, <1>10, <1>11, <1>12 DEF OrderInv

LEMMA SubscribeStep ==
    ASSUME OrderInv, NEW r \in Reader, history_plus_stream(r), Subscribe(r)
    PROVE  OrderInv'
<1>0. LogTypeOK /\ Reader = {"normaliser", "persister", "viewer"}
    BY DEF OrderInv, Reader
<1>1. reader[r].phase = "history" /\ reader' = [reader EXCEPT ![r].phase = "live"]
    BY DEF Subscribe
<1>2. UNCHANGED <<script, agentRuns, written, forwarded, inMap, history, pushing,
                   spawned, finished, logs, session, viewer, lagged, owed>>
    BY DEF history_plus_stream
<1>3. /\ reader' \in [Reader -> ReaderState]
      /\ \A o \in Reader \ {r} : reader'[o] = reader[o]
      /\ reader'[r].phase = "live"
      /\ reader'[r].past = reader[r].past /\ reader'[r].queue = reader[r].queue
    BY <1>0, <1>1, PhaseIs DEF Phase
<1>4. \A o \in Reader : /\ StreamInOrder(reader'[o]) /\ HoldsByPhase(reader'[o])
                        /\ Holding(reader'[o]) = Holding(reader[o])
    BY <1>3 DEF OrderInv, InOrder, NothingYet, StreamInOrder, Holding, HoldsByPhase
<1>5. LogTypeOK'
    BY <1>0, <1>2, <1>3 DEF LogTypeOK
<1>6. NothingYet'
    BY <1>0, <1>1, <1>2, <1>3, <1>4 DEF OrderInv, NothingYet
<1>7. \A o \in Reader : /\ reader'[o].phase \in Early => reader[o].phase \in Early
                        /\ reader'[o].phase # "ended" => reader[o].phase # "ended"
                        /\ Waiting(o)' = Waiting(o)
    BY <1>1, <1>3, <1>4 DEF Early, Waiting
<1>8. (PushedIsNew /\ InOrder /\ Bounded /\ PatchesAreTaken)'
    BY <1>0, <1>2, <1>4, <1>7, FewerMessages DEF LogTypeOK
<1>9. LogIsOld'
    BY <1>0, <1>2, <1>7, LogKept DEF LogTypeOK
<1>10. ShownIsOld'
  <2>1. viewer.kind = "none" => reader'["viewer"].phase = "none"
    BY <1>0, <1>1, <1>3 DEF OrderInv, ShownIsOld
  <2>. QED  BY <1>0, <1>2, <1>7, <2>1, ShownKept DEF LogTypeOK
<1>. QED
    BY <1>5, <1>6, <1>8, <1>9, <1>10 DEF OrderInv

(* A reader takes a message, or leaves, without a push. *)
LEMMA TakeStep ==
    ASSUME OrderInv, NEW r \in Reader, LogTypeOK',
           \/ Taking(r) /\ reader' = Rest(r)
           \/ reader[r].phase = "live" /\ reader' = Left(r),
           UNCHANGED <<forwarded, history, pushing, spawned>>
    PROVE  /\ (PushedIsNew /\ InOrder /\ Bounded /\ NothingYet /\ PatchesAreTaken)'
           /\ \A o \in Reader \ {r} : reader'[o] = reader[o]
           /\ reader[r].phase = "live"
           /\ reader'[r].phase \in {"live", "ended"}
           /\ Waiting(r)' \subseteq Waiting(r)
<1>0. LogTypeOK /\ Reader = {"normaliser", "persister", "viewer"}
    BY DEF OrderInv, Reader
<1>1. reader[r].phase = "live"
    BY DEF Taking
<1>2. /\ \A o \in Reader \ {r} : reader'[o] = reader[o]
      /\ reader'[r].phase \in {"live", "ended"}
      /\ StreamInOrder(reader'[r]) /\ HoldsByPhase(reader'[r])
      /\ Holding(reader'[r]) \subseteq Holding(reader[r])
  <2>1. CASE Taking(r) /\ reader' = Rest(r)
    BY <1>0, <2>1, RestIs DEF OrderInv, InOrder, Waiting
  <2>2. CASE reader' = Left(r)
    BY <1>0, <2>2, LeftIs, EmptyReader
  <2>. QED  BY <2>1, <2>2
<1>3. \A o \in Reader : /\ StreamInOrder(reader'[o]) /\ HoldsByPhase(reader'[o])
                        /\ Holding(reader'[o]) \subseteq Holding(reader[o])
                        /\ reader'[o].phase \in Early => reader[o].phase \in Early
    BY <1>1, <1>2 DEF OrderInv, InOrder, NothingYet, Early
<1>4. NothingYet'
    BY <1>0, <1>1, <1>2, <1>3 DEF OrderInv, NothingYet
<1>5. (PushedIsNew /\ InOrder /\ Bounded /\ PatchesAreTaken)'
    BY <1>0, <1>3, FewerMessages DEF LogTypeOK
<1>. QED
    BY <1>1, <1>2, <1>4, <1>5 DEF Waiting

(* The persister appends a line that is later than what the log holds. *)
LEMMA PersistStep ==
    ASSUME OrderInv, Persist
    PROVE  OrderInv'
<1>. DEFINE m == Taken("persister")
<1>0. LogTypeOK /\ Reader = {"normaliser", "persister", "viewer"}
    BY DEF OrderInv, Reader
<1>1. /\ Taking("persister")
      /\ reader' = IF m.kind = "finished" THEN Left("persister") ELSE Rest("persister")
      /\ logs' = IF m.kind = "line" THEN Append(logs, m.n) ELSE logs
      /\ session' = (session \/ m.kind = "session")
    BY DEF Persist, append_log_line
<1>2. UNCHANGED <<script, agentRuns, written, forwarded, inMap, history, pushing, spawned,
                  finished, viewer, lagged, owed>>
    BY DEF Persist
<1>3. /\ Rest("persister") \in [Reader -> ReaderState]
      /\ m \in Message /\ m \in Waiting("persister")
      /\ Before({m}, "line", Holding(Rest("persister")["persister"]), "line")
    BY <1>0, <1>1, RestIs DEF OrderInv, InOrder
<1>4. reader' \in [Reader -> ReaderState]
    BY <1>0, <1>1, <1>3, LeftIs
<1>5. m.n \in Nat /\ m.n <= forwarded
  <2>1. m \in Everywhere
    BY <1>0, <1>3 DEF Everywhere
  <2>. QED  BY <1>3, <2>1 DEF OrderInv, Bounded, Message
<1>. HIDE DEF m
<1>6. logs' \in Seq(Nat)
    BY <1>0, <1>1, <1>5 DEF LogTypeOK
<1>7. session' \in BOOLEAN
    BY <1>1
<1>8. LogTypeOK'
    BY <1>0, <1>2, <1>4, <1>6, <1>7 DEF LogTypeOK
<1>9. /\ (PushedIsNew /\ InOrder /\ Bounded /\ NothingYet /\ PatchesAreTaken)'
      /\ \A o \in Reader \ {"persister"} : reader'[o] = reader[o]
      /\ reader["persister"].phase = "live"
      /\ reader'["persister"].phase \in {"live", "ended"}
      /\ Waiting("persister")' \subseteq Waiting("persister")
  <2>1. \/ Taking("persister") /\ reader' = Rest("persister")
        \/ reader["persister"].phase = "live" /\ reader' = Left("persister")
    BY <1>1 DEF Taking
  <2>. QED  BY <1>0, <1>2, <1>8, <2>1, TakeStep
<1>10. LogIsOld'
  <2>1. CASE m.kind = "line"
    <3>1. reader' = Rest("persister") /\ logs' = Append(logs, m.n)
      BY <1>1, <2>1
    <3>2. Msgs(logs') = Msgs(logs) \cup {m.n} /\ logs \in Seq(Nat)
      <4>1. logs \in Seq(Nat)
        BY <1>0 DEF LogTypeOK
      <4>2. Msgs(Append(logs, m.n)) = Msgs(logs) \cup {m.n}
        BY <1>5, <4>1, MsgsAppend
      <4>. QED  BY <3>1, <4>1, <4>2
    <3>3. \A x \in Msgs(logs) : x < m.n
      BY <1>3, <2>1 DEF OrderInv, LogIsOld
    <3>4. Ascending(logs')
      BY <1>5, <3>1, <3>2, <3>3, AscendingAppend DEF OrderInv, LogIsOld
    <3>5. \A y \in Waiting("persister")' : y.kind = "line" => m.n < y.n
      BY <1>3, <2>1, <3>1 DEF Waiting, Before
    <3>6. \A y \in Waiting("persister")' : y.kind = "line" => \A x \in Msgs(logs) : x < y.n
      BY <1>9 DEF OrderInv, LogIsOld
    <3>7. \A x \in Msgs(logs') : x <= forwarded'
      BY <1>2, <1>5, <3>2 DEF OrderInv, LogIsOld
    <3>8. reader'["persister"].phase \notin Early
      BY <1>9 DEF Early
    <3>. QED  BY <3>2, <3>4, <3>5, <3>6, <3>7, <3>8 DEF LogIsOld
  <2>2. CASE m.kind # "line"
    <3>1. logs' = logs
      BY <1>1, <2>2
    <3>2. reader'["persister"].phase \notin Early
      BY <1>9 DEF Early
    <3>. QED  BY <1>0, <1>2, <1>9, <3>1, <3>2, LogKept DEF LogTypeOK
  <2>. QED  BY <2>1, <2>2
<1>11. ShownIsOld'
  <2>1. reader'["viewer"] = reader["viewer"] /\ reader'["normaliser"] = reader["normaliser"]
    BY <1>0, <1>9
  <2>2. Waiting("viewer")' = Waiting("viewer") /\ Waiting("normaliser")' = Waiting("normaliser")
    BY <2>1 DEF Waiting
  <2>3. viewer.kind = "none" => reader'["viewer"].phase = "none"
    BY <2>1 DEF OrderInv, ShownIsOld
  <2>. QED  BY <1>0, <1>2, <2>1, <2>2, <2>3, ShownKept DEF LogTypeOK
<1>. QED
    BY <1>8, <1>9, <1>10, <1>11 DEF OrderInv

(* The normaliser skips a message, or leaves at Finished. *)
LEMMA SkipStep ==
    ASSUME OrderInv, Taking("normaliser"),
           reader' = Rest("normaliser") \/ reader' = Left("normaliser"),
           UNCHANGED <<script, agentRuns, written, forwarded, inMap, history, pushing, spawned,
                       finished, logs, session, viewer, lagged, owed>>
    PROVE  OrderInv'
<1>0. LogTypeOK /\ Reader = {"normaliser", "persister", "viewer"}
    BY DEF OrderInv, Reader
<1>1. reader' \in [Reader -> ReaderState]
    BY <1>0, RestIs, LeftIs DEF OrderInv, InOrder
<1>2. LogTypeOK'
    BY <1>0, <1>1 DEF LogTypeOK
<1>3. /\ (PushedIsNew /\ InOrder /\ Bounded /\ NothingYet /\ PatchesAreTaken)'
      /\ \A o \in Reader \ {"normaliser"} : reader'[o] = reader[o]
      /\ reader["normaliser"].phase = "live"
      /\ reader'["normaliser"].phase \in {"live", "ended"}
      /\ Waiting("normaliser")' \subseteq Waiting("normaliser")
  <2>1. \/ Taking("normaliser") /\ reader' = Rest("normaliser")
        \/ reader["normaliser"].phase = "live" /\ reader' = Left("normaliser")
    BY DEF Taking
  <2>. QED  BY <1>0, <1>2, <2>1, TakeStep
<1>4. reader'["viewer"] = reader["viewer"] /\ reader'["persister"] = reader["persister"]
    BY <1>0, <1>3
<1>5. Waiting("viewer")' = Waiting("viewer") /\ Waiting("persister")' = Waiting("persister")
    BY <1>4 DEF Waiting
<1>6. reader'["normaliser"].phase \notin Early
    BY <1>3 DEF Early
<1>7. LogIsOld'
    BY <1>0, <1>4, <1>5, LogKept DEF LogTypeOK
<1>8. ShownIsOld'
  <2>1. viewer.kind = "none" => reader'["viewer"].phase = "none"
    BY <1>4 DEF OrderInv, ShownIsOld
  <2>. QED  BY <1>0, <1>3, <1>4, <1>5, <1>6, <2>1, ShownKept DEF LogTypeOK
<1>. QED
    BY <1>2, <1>3, <1>7, <1>8 DEF OrderInv

(* The socket passes a message on that is later than what the browser shows. *)
LEMMA ForwardStep ==
    ASSUME OrderInv, ForwardToSocket
    PROVE  OrderInv'
<1>. DEFINE m == Taken("viewer")
            Passed == m.kind = Follows
<1>0. LogTypeOK /\ Reader = {"normaliser", "persister", "viewer"}
    BY DEF OrderInv, Reader
<1>1. /\ Taking("viewer")
      /\ reader' = Rest("viewer")
      /\ viewer' = [viewer EXCEPT !.shown = IF Passed THEN Append(viewer.shown, m.n)
                                                      ELSE viewer.shown,
                                  !.told = viewer.told \/ (viewer.kind = "raw" /\ m = Finished)]
    BY DEF ForwardToSocket, ViewerSees, Follows
<1>2. UNCHANGED <<script, agentRuns, written, forwarded, inMap, history, pushing,
                  spawned, finished, logs, session, lagged, owed>>
    BY DEF ForwardToSocket
<1>3. /\ reader' \in [Reader -> ReaderState]
      /\ m \in Message /\ m \in Waiting("viewer")
      /\ \A k \in {"line", "patch"} : Before({m}, k, Waiting("viewer")', k)
    BY <1>0, <1>1, RestIs DEF OrderInv, InOrder, Waiting
<1>4. m \in Everywhere
    BY <1>0, <1>3 DEF Everywhere
<1>5. m.n \in Nat /\ m.n <= forwarded
    BY <1>3, <1>4 DEF OrderInv, Bounded, Message
<1>6. viewer.shown \in Seq(Nat) /\ Msgs(viewer.shown) \subseteq Nat
    BY <1>0, MsgsType DEF LogTypeOK
<1>. DEFINE seen == IF Passed THEN Append(viewer.shown, m.n) ELSE viewer.shown
            told == viewer.told \/ (viewer.kind = "raw" /\ m = Finished)
<1>7. seen \in Seq(Nat)
    BY <1>5, <1>6
<1>8. told \in BOOLEAN
    OBVIOUS
<1>9. viewer' = [viewer EXCEPT !.shown = seen, !.told = told]
    BY <1>1
<1>10. Passed => Msgs(seen) = Msgs(viewer.shown) \cup {m.n}
    BY <1>5, <1>6, MsgsAppend
<1>11. ~Passed => seen = viewer.shown
    OBVIOUS
<1>12. Passed => seen = Append(viewer.shown, m.n)
    OBVIOUS
<1>. HIDE DEF m, seen, told
<1>13. viewer' \in [kind : {"none", "raw", "normalized"}, shown : Seq(Nat), told : BOOLEAN]
    BY <1>0, <1>7, <1>8, <1>9 DEF LogTypeOK
<1>14. viewer'.kind = viewer.kind /\ viewer'.shown = seen
    BY <1>0, <1>9 DEF LogTypeOK
<1>15. LogTypeOK'
    BY <1>0, <1>2, <1>3, <1>13 DEF LogTypeOK
<1>16. /\ (PushedIsNew /\ InOrder /\ Bounded /\ NothingYet /\ PatchesAreTaken)'
       /\ \A o \in Reader \ {"viewer"} : reader'[o] = reader[o]
       /\ reader["viewer"].phase = "live"
       /\ reader'["viewer"].phase \in {"live", "ended"}
       /\ Waiting("viewer")' \subseteq Waiting("viewer")
    BY <1>0, <1>1, <1>2, <1>15, TakeStep
<1>17. reader'["normaliser"] = reader["normaliser"] /\ reader'["persister"] = reader["persister"]
    BY <1>0, <1>16
<1>18. /\ Waiting("normaliser")' = Waiting("normaliser")
       /\ Waiting("persister")' = Waiting("persister")
       /\ Follows' = Follows
    BY <1>14, <1>17 DEF Waiting, Follows
<1>19. LogIsOld'
    BY <1>0, <1>2, <1>17, <1>18, LogKept DEF LogTypeOK
<1>20. ShownIsOld'
  <2>1. viewer.kind # "none"
    BY <1>16 DEF OrderInv, ShownIsOld
  <2>2. \A x \in Msgs(viewer.shown) :
          /\ x <= forwarded
          /\ \A y \in Waiting("viewer") : y.kind = Follows => x < y.n
          /\ viewer.kind # "raw" =>
                  /\ reader["normaliser"].phase \notin Early
                  /\ \A y \in Waiting("normaliser") : y.kind = "line" => x < y.n
    BY <1>16 DEF OrderInv, ShownIsOld
  <2>3. Ascending(viewer.shown)
    BY DEF OrderInv, ShownIsOld
  <2>4. reader'["viewer"].phase \notin Early
    BY <1>16 DEF Early
  <2>5. CASE ~Passed
    <3>1. viewer'.shown = viewer.shown
      BY <1>11, <1>14, <2>5
    <3>. QED  BY <1>2, <1>14, <1>16, <1>17, <1>18, <2>1, <2>2, <2>3, <2>4, <3>1 DEF ShownIsOld
  <2>6. CASE Passed
    <3>1. Ascending(viewer'.shown)
      <4>1. \A x \in Msgs(viewer.shown) : x < m.n
        BY <1>3, <2>2, <2>6
      <4>. QED  BY <1>5, <1>6, <1>12, <1>14, <2>3, <2>6, <4>1, AscendingAppend
    <3>2. Msgs(viewer'.shown) = Msgs(viewer.shown) \cup {m.n}
      BY <1>10, <1>14, <2>6
    <3>3. \A y \in Waiting("viewer")' : y.kind = Follows => m.n < y.n
      BY <1>3, <2>6 DEF Before, Follows
    <3>4. viewer.kind # "raw" =>
                  /\ reader["normaliser"].phase \notin Early
                  /\ \A y \in Waiting("normaliser") : y.kind = "line" => m.n < y.n
      BY <1>4, <2>6 DEF OrderInv, PatchesAreTaken, Before, Follows
    <3>5. \A x \in Msgs(viewer'.shown) :
            /\ x <= forwarded
            /\ \A y \in Waiting("viewer")' : y.kind = Follows => x < y.n
            /\ viewer.kind # "raw" =>
                  /\ reader["normaliser"].phase \notin Early
                  /\ \A y \in Waiting("normaliser") : y.kind = "line" => x < y.n
      BY <1>5, <1>16, <2>2, <3>2, <3>3, <3>4
    <3>. QED  BY <1>2, <1>14, <1>17, <1>18, <2>1, <2>4, <3>1, <3>5 DEF ShownIsOld
  <2>. QED  BY <2>5, <2>6
<1>. QED
    BY <1>15, <1>16, <1>19, <1>20 DEF OrderInv

(* The stream ends: what the browser shows stays. *)
LEMMA StreamEndsStep ==
    ASSUME OrderInv, StreamEnds
    PROVE  OrderInv'
<1>0. LogTypeOK /\ Reader = {"normaliser", "persister", "viewer"}
    BY DEF OrderInv, Reader
<1>1. /\ reader["viewer"].phase = "live"
      /\ reader' = Left("viewer")
      /\ viewer' = [viewer EXCEPT !.shown = viewer.shown,
                                  !.told = viewer.told \/ viewer.kind = "normalized"]
    BY DEF StreamEnds, ViewerSees
<1>2. UNCHANGED <<script, agentRuns, written, forwarded, inMap, history, pushing,
                  spawned, finished, logs, session, lagged, owed>>
    BY DEF StreamEnds
<1>. DEFINE told == viewer.told \/ viewer.kind = "normalized"
<1>3. told \in BOOLEAN /\ viewer' = [viewer EXCEPT !.shown = viewer.shown, !.told = told]
    BY <1>1
<1>. HIDE DEF told
<1>4. /\ viewer' \in [kind : {"none", "raw", "normalized"}, shown : Seq(Nat), told : BOOLEAN]
      /\ viewer'.kind = viewer.kind /\ viewer'.shown = viewer.shown
    BY <1>0, <1>3 DEF LogTypeOK
<1>5. reader' \in [Reader -> ReaderState] /\ reader'["viewer"].phase = "ended"
    BY <1>0, <1>1, LeftIs
<1>6. LogTypeOK'
    BY <1>0, <1>2, <1>4, <1>5 DEF LogTypeOK
<1>7. /\ (PushedIsNew /\ InOrder /\ Bounded /\ NothingYet /\ PatchesAreTaken)'
      /\ \A o \in Reader \ {"viewer"} : reader'[o] = reader[o]
    BY <1>0, <1>1, <1>2, <1>6, TakeStep
<1>8. LogIsOld'
  <2>1. reader'["persister"] = reader["persister"]
    BY <1>0, <1>7
  <2>. QED  BY <1>0, <1>2, <2>1, LogKept DEF LogTypeOK, Waiting
<1>9. ShownIsOld'
    BY <1>1, <1>4, <1>5 DEF OrderInv, ShownIsOld, Early
<1>. QED
    BY <1>6, <1>7, <1>8, <1>9 DEF OrderInv

(* The browser asks for a log: it gets hold of the store, with nothing shown
   yet, or is shown what the database holds. *)
LEMMA RequestStep ==
    ASSUME OrderInv, viewer.kind = "none", NEW phase \in {"store", "ended"},
           reader' = [reader EXCEPT !["viewer"].phase = phase],
           viewer' \in [kind : {"raw", "normalized"}, shown : Seq(Nat), told : BOOLEAN],
           Ascending(viewer'.shown),
           phase = "store" => viewer'.shown = <<>>,
           UNCHANGED <<script, agentRuns, written, forwarded, inMap, history, pushing,
                       spawned, finished, logs, session, lagged, owed>>
    PROVE  OrderInv'
<1>0. LogTypeOK /\ Reader = {"normaliser", "persister", "viewer"}
    BY DEF OrderInv, Reader
<1>1. reader["viewer"].phase = "none"
    BY DEF OrderInv, ShownIsOld
<1>2. reader["viewer"].past = <<>> /\ reader["viewer"].queue = <<>>
    BY <1>0, <1>1 DEF OrderInv, NothingYet, HoldsByPhase
<1>3. /\ reader' \in [Reader -> ReaderState]
      /\ \A o \in Reader \ {"viewer"} : reader'[o] = reader[o]
      /\ reader'["viewer"].phase = phase
      /\ reader'["viewer"].past = <<>> /\ reader'["viewer"].queue = <<>>
  <2>1. phase \in Phase
    BY DEF Phase
  <2>. QED  BY <1>0, <1>2, <2>1, PhaseIs
<1>4. /\ StreamInOrder(reader'["viewer"]) /\ Holding(reader'["viewer"]) = {}
      /\ HoldsByPhase(reader'["viewer"])
    BY <1>0, <1>3, EmptyReader
<1>5. \A o \in Reader : /\ StreamInOrder(reader'[o]) /\ HoldsByPhase(reader'[o])
                        /\ Holding(reader'[o]) \subseteq Holding(reader[o])
    BY <1>3, <1>4 DEF OrderInv, InOrder, NothingYet
<1>6. viewer'.kind \in {"raw", "normalized"} /\ viewer'.shown \in Seq(Nat)
    OBVIOUS
<1>7. viewer' \in [kind : {"none", "raw", "normalized"}, shown : Seq(Nat), told : BOOLEAN]
    OBVIOUS
<1>8. LogTypeOK'
    BY <1>0, <1>3, <1>7 DEF LogTypeOK
<1>9. /\ reader'["normaliser"] = reader["normaliser"]
      /\ reader'["persister"] = reader["persister"]
    BY <1>0, <1>3
<1>10. NothingYet'
    BY <1>5, <1>9 DEF OrderInv, NothingYet
<1>11. (PushedIsNew /\ InOrder /\ Bounded /\ PatchesAreTaken)'
  <2>1. UNCHANGED <<history, pushing>> /\ forwarded' \in Nat /\ forwarded' >= forwarded
    BY <1>0 DEF LogTypeOK
  <2>2. reader'["normaliser"].phase \in Early => reader["normaliser"].phase \in Early
    BY <1>9
  <2>3. \A r \in Reader : /\ StreamInOrder(reader'[r])
                          /\ Holding(reader'[r]) \subseteq Holding(reader[r])
    BY <1>5
  <2>. QED  BY <2>1, <2>2, <2>3, FewerMessages
<1>12. LogIsOld'
    BY <1>0, <1>9, LogKept DEF LogTypeOK, Waiting
<1>13. ShownIsOld'
  <2>1. CASE phase = "store"
    BY <1>3, <1>6, <2>1, OfNothing DEF ShownIsOld
  <2>2. CASE phase = "ended"
    BY <1>3, <1>6, <2>2 DEF ShownIsOld, Early
  <2>. QED  BY <2>1, <2>2
<1>. QED
    BY <1>8, <1>10, <1>11, <1>12, <1>13 DEF OrderInv

LEMMA RawStep ==
    ASSUME OrderInv, stream_raw_logs
    PROVE  OrderInv'
<1>0. LogTypeOK /\ viewer.kind = "none" /\ viewer.shown = <<>>
    BY DEF OrderInv, stream_raw_logs, ShownIsOld, Early
<1>1. UNCHANGED <<script, agentRuns, written, forwarded, inMap, history, pushing,
                  spawned, finished, logs, session, lagged, owed>>
    BY DEF stream_raw_logs
<1>2. CASE /\ reader' = [reader EXCEPT !["viewer"].phase = "store"]
           /\ viewer' = [viewer EXCEPT !.kind = "raw"]
  <2>1. /\ viewer' \in [kind : {"raw", "normalized"}, shown : Seq(Nat), told : BOOLEAN]
        /\ viewer'.shown = <<>>
    BY <1>0, <1>2 DEF LogTypeOK
  <2>. QED  BY <1>0, <1>1, <1>2, <2>1, OfNothing, RequestStep
<1>3. CASE /\ reader' = [reader EXCEPT !["viewer"].phase = "ended"]
           /\ viewer' = [kind |-> "raw", shown |-> logs, told |-> logs # <<>>]
  <2>. DEFINE told == logs # <<>>
  <2>1. told \in BOOLEAN /\ viewer' = [kind |-> "raw", shown |-> logs, told |-> told]
    BY <1>3
  <2>. HIDE DEF told
  <2>2. /\ viewer' \in [kind : {"raw", "normalized"}, shown : Seq(Nat), told : BOOLEAN]
        /\ viewer'.shown = logs
    BY <1>0, <2>1 DEF LogTypeOK
  <2>3. Ascending(viewer'.shown)
    BY <2>2 DEF OrderInv, LogIsOld
  <2>. QED  BY <1>0, <1>1, <1>3, <2>2, <2>3, RequestStep
<1>. QED
    BY <1>2, <1>3 DEF stream_raw_logs

LEMMA NormalizedStep ==
    ASSUME OrderInv, stream_normalized_logs
    PROVE  OrderInv'
<1>0. LogTypeOK /\ viewer.kind = "none" /\ viewer.shown = <<>>
    BY DEF OrderInv, stream_normalized_logs, ShownIsOld, Early
<1>1. UNCHANGED <<script, agentRuns, written, forwarded, inMap, history, pushing,
                  spawned, finished, logs, session, lagged, owed>>
    BY DEF stream_normalized_logs
<1>2. CASE /\ reader' = [reader EXCEPT !["viewer"].phase = "store"]
           /\ viewer' = [viewer EXCEPT !.kind = "normalized"]
  <2>1. /\ viewer' \in [kind : {"raw", "normalized"}, shown : Seq(Nat), told : BOOLEAN]
        /\ viewer'.shown = <<>>
    BY <1>0, <1>2 DEF LogTypeOK
  <2>. QED  BY <1>0, <1>1, <1>2, <2>1, OfNothing, RequestStep
<1>3. ASSUME NEW h \in 0 .. Len(logs), NEW s \in h .. Len(logs),
             reader' = [reader EXCEPT !["viewer"].phase = "ended"],
             viewer' = [kind |-> "normalized",
                        shown |-> IF script THEN <<>>
                                  ELSE SubSeq(logs, 1, h) \o SubSeq(logs, s + 1, Len(logs)),
                        told |-> ~script /\ logs # <<>>]
      PROVE  OrderInv'
  <2>. DEFINE told == ~script /\ logs # <<>>
              cut == SubSeq(logs, 1, h) \o SubSeq(logs, s + 1, Len(logs))
              seen == IF script THEN <<>> ELSE cut
  <2>1. told \in BOOLEAN /\ viewer' = [kind |-> "normalized", shown |-> seen, told |-> told]
    BY <1>3
  <2>2. cut \in Seq(Nat) /\ Ascending(cut)
    BY <1>0, AscendingCut DEF OrderInv, LogIsOld, LogTypeOK
  <2>. HIDE DEF told, cut
  <2>3. seen \in Seq(Nat) /\ Ascending(seen)
    BY <2>2, OfNothing
  <2>. HIDE DEF seen
  <2>4. /\ viewer' \in [kind : {"raw", "normalized"}, shown : Seq(Nat), told : BOOLEAN]
        /\ viewer'.shown = seen
    BY <2>1, <2>3
  <2>. QED  BY <1>0, <1>1, <1>3, <2>3, <2>4, RequestStep
<1>. QED
    BY <1>2, <1>3 DEF stream_normalized_logs

-----------------------------------------------------------------------------
(* Steps that push. *)

(* The stored half: what is inserted is newer than the history it joins. *)
LEMMA InsertStep ==
    ASSUME OrderInv, NEW p \in Pusher, Insert(p)
    PROVE  OrderInv'
<1>. DEFINE base == IF Len(history) >= HistoryMax THEN Tail(history) ELSE history
            m == pushing[p]
<1>0. LogTypeOK /\ Pusher = {"forwarder", "normaliser", "closer"}
    BY DEF OrderInv, Pusher
<1>1. history' = Append(base, m) /\ pushing' = [pushing EXCEPT ![p] = NoMsg]
    BY DEF Insert
<1>2. UNCHANGED <<script, agentRuns, written, forwarded, inMap, reader, spawned, finished,
                  logs, session, viewer, lagged, owed>>
    BY DEF Insert
<1>3. history \in Seq(Message) /\ m \in Message
    BY <1>0 DEF LogTypeOK
<1>4. /\ base \in Seq(Message) /\ Msgs(base) \subseteq Msgs(history)
      /\ \A k \in {"line", "patch"} : Ordered(base, k)
  <2>1. CASE Len(history) >= HistoryMax
    <3>1. history # <<>>
      <4>. SUFFICES ASSUME history = <<>> PROVE FALSE
        OBVIOUS
      <4>. QED  BY <2>1, LogStreamBounds
    <3>. QED  BY <1>3, <2>1, <3>1, MsgsTail, OrderedTail DEF OrderInv, InOrder
  <2>2. CASE ~(Len(history) >= HistoryMax)
    BY <1>3, <2>2 DEF OrderInv, InOrder
  <2>. QED  BY <2>1, <2>2
<1>. HIDE DEF base
<1>5. pushing' \in [Pusher -> Message] /\ pushing'[p] = NoMsg
      /\ \A o \in Pusher \ {p} : pushing'[o] = pushing[o]
    BY <1>0, <1>1, Constants DEF LogTypeOK
<1>6. \A k \in {"line", "patch"} : Before(Msgs(history), k, {m}, k)
    BY <1>0 DEF OrderInv, PushedIsNew, Before
<1>7. /\ m.kind = "line" => p = "forwarder"
      /\ m.kind = "patch" => p = "normaliser"
    BY <1>0 DEF OrderInv, PushedIsNew
<1>. HIDE DEF m
<1>8. history' \in Seq(Message) /\ Msgs(history') = Msgs(base) \cup {m}
    BY <1>1, <1>3, <1>4, MsgsAppend
<1>9. \A k \in {"line", "patch"} : Ordered(history', k)
  <2>. SUFFICES ASSUME NEW k \in {"line", "patch"} PROVE Ordered(Append(base, m), k)
    BY <1>1
  <2>1. Before(Msgs(base), k, {m}, k)
    BY <1>4, <1>6 DEF Before
  <2>. QED  BY <1>3, <1>4, <2>1, OrderedAppend
<1>10. LogTypeOK'
    BY <1>0, <1>2, <1>5, <1>8 DEF LogTypeOK
<1>11. InOrder'
    BY <1>2, <1>9 DEF OrderInv, InOrder
<1>12. PushedIsNew'
  <2>1. /\ pushing'["forwarder"].kind \in {"none", "line"}
        /\ pushing'["normaliser"].kind \in {"none", "session", "patch"}
        /\ pushing'["closer"].kind \in {"none", "finished"}
    BY <1>0, <1>5, Constants DEF OrderInv, PushedIsNew
  <2>2. Before(Msgs(history'), "line", {pushing'["forwarder"]}, "line")
    <3>1. CASE p = "forwarder"
      BY <1>5, <3>1, Constants DEF Before
    <3>2. CASE p # "forwarder"
      <4>1. pushing'["forwarder"] = pushing["forwarder"] /\ m.kind # "line"
        BY <1>0, <1>5, <1>7, <3>2
      <4>. QED  BY <1>4, <1>8, <4>1 DEF OrderInv, PushedIsNew, Before
    <3>. QED  BY <3>1, <3>2
  <2>3. Before(Msgs(history'), "patch", {pushing'["normaliser"]}, "patch")
    <3>1. CASE p = "normaliser"
      BY <1>5, <3>1, Constants DEF Before
    <3>2. CASE p # "normaliser"
      <4>1. pushing'["normaliser"] = pushing["normaliser"] /\ m.kind # "patch"
        BY <1>0, <1>5, <1>7, <3>2
      <4>. QED  BY <1>4, <1>8, <4>1 DEF OrderInv, PushedIsNew, Before
    <3>. QED  BY <3>1, <3>2
  <2>. QED  BY <2>1, <2>2, <2>3 DEF PushedIsNew
<1>13. Everywhere' \subseteq Everywhere \cup {NoMsg}
  <2>1. \A o \in Pusher : pushing'[o] \in {pushing[q] : q \in Pusher} \cup {NoMsg}
    BY <1>5
  <2>2. Msgs(history') \subseteq Msgs(history) \cup {pushing[q] : q \in Pusher}
    BY <1>4, <1>8 DEF m
  <2>3. \A r \in Reader : Waiting(r)' = Waiting(r)
    BY <1>2 DEF Waiting
  <2>. QED  BY <2>1, <2>2, <2>3 DEF Everywhere
<1>14. Bounded'
    BY <1>0, <1>2, <1>13, Constants DEF OrderInv, Bounded, LogTypeOK
<1>15. PatchesAreTaken'
  <2>1. Waiting("normaliser")' = Waiting("normaliser")
    BY <1>2 DEF Waiting
  <2>. QED  BY <1>2, <1>13, <2>1, Constants DEF OrderInv, PatchesAreTaken, Before
<1>16. NothingYet' /\ LogIsOld' /\ ShownIsOld'
    BY <1>2 DEF OrderInv, NothingYet, LogIsOld, ShownIsOld, Waiting, Follows
<1>. QED
    BY <1>10, <1>11, <1>12, <1>14, <1>15, <1>16 DEF OrderInv

(* The live half: what is sent is newer than what every stream holds of its kind.
   rs is what the readers hold once the pusher has taken what it answers. *)
LEMMA SendStep ==
    ASSUME OrderInv, forwarded' \in Nat, forwarded' >= forwarded,
           NEW rs \in [Reader -> ReaderState], NEW m \in Message, NEW p \in Pusher,
           \A r \in Reader : /\ StreamInOrder(rs[r]) /\ HoldsByPhase(rs[r])
                             /\ Holding(rs[r]) \subseteq Holding(reader[r])
                             /\ rs[r].phase = reader[r].phase,
           Send(rs, m), pushing' = [pushing EXCEPT ![p] = m],
           UNCHANGED <<history, spawned, logs, viewer>>,
           m.n <= forwarded',
           p = "forwarder" => m.kind = "line",
           p = "normaliser" => m.kind \in {"session", "patch"},
           p = "closer" => m.kind = "finished",
           m.kind = "line" => m.n > forwarded,
           m.kind = "patch" =>
              /\ reader["normaliser"].phase = "live"
              /\ \A x \in Everywhere : x.kind = "patch" => x.n < m.n
              /\ \A y \in Holding(rs["normaliser"]) : y.kind = "line" => m.n < y.n
              /\ reader["viewer"].phase # "ended" /\ viewer.kind # "raw"
                    => \A x \in Msgs(viewer.shown) : x < m.n
    PROVE  /\ reader' \in [Reader -> ReaderState]
           /\ lagged' \in BOOLEAN
           /\ pushing' \in [Pusher -> Message]
           /\ \A r \in Reader : reader'[r].phase = reader[r].phase
           /\ Everywhere' \subseteq Everywhere \cup {m}
           /\ (PushedIsNew /\ InOrder /\ Bounded /\ NothingYet /\ PatchesAreTaken
                 /\ LogIsOld /\ ShownIsOld)'
<1>0. /\ LogTypeOK /\ Pusher = {"forwarder", "normaliser", "closer"}
      /\ Reader = {"normaliser", "persister", "viewer"}
    BY DEF OrderInv, Pusher, Reader
<1>1. reader' \in [Reader -> ReaderState] /\ lagged' \in BOOLEAN
      /\ \A r \in Reader : reader'[r].phase = reader[r].phase
  <2>1. lagged \in BOOLEAN
    BY <1>0 DEF LogTypeOK
  <2>2. /\ reader' \in [Reader -> ReaderState] /\ lagged' \in BOOLEAN
        /\ \A r \in Reader : reader'[r].phase = rs[r].phase
    BY <2>1, SendIs
  <2>. QED  BY <2>2
<1>2. /\ pushing' \in [Pusher -> Message] /\ pushing'[p] = m
      /\ \A o \in Pusher \ {p} : pushing'[o] = pushing[o]
    BY <1>0 DEF LogTypeOK
<1>3. Everywhere \subseteq Message
  <2>1. \A r \in Reader : Waiting(r) \subseteq Message
    BY <1>0, MsgsType DEF LogTypeOK, ReaderState, Waiting, Holding
  <2>2. Msgs(history) \subseteq Message
    BY <1>0, MsgsType DEF LogTypeOK
  <2>. QED  BY <1>0, <2>1, <2>2 DEF Everywhere, LogTypeOK
<1>4. \A x \in Everywhere : x.n \in Nat /\ x.n <= forwarded
    BY <1>3 DEF OrderInv, Bounded, Message
<1>5. \A x \in Everywhere : x.kind = m.kind /\ m.kind \in {"line", "patch"} => x.n < m.n
  <2>1. \A x \in Everywhere : m.kind = "line" => x.n < m.n
    BY <1>0, <1>4 DEF LogTypeOK, Message
  <2>. QED  BY <2>1
<1>6. \A r \in Reader : Holding(rs[r]) \subseteq Everywhere
    BY DEF Everywhere, Waiting
<1>7. \A r \in Reader : /\ StreamInOrder(reader'[r]) /\ HoldsByPhase(reader'[r])
                        /\ Holding(reader'[r]) \subseteq Holding(rs[r]) \cup {m}
  <2>. SUFFICES ASSUME NEW r \in Reader
                PROVE  /\ StreamInOrder(reader'[r]) /\ HoldsByPhase(reader'[r])
                       /\ Holding(reader'[r]) \subseteq Holding(rs[r]) \cup {m}
    OBVIOUS
  <2>1. \A k \in {"line", "patch"} : Before(Holding(rs[r]), k, {m}, k)
    BY <1>5, <1>6 DEF Before
  <2>2. lagged \in BOOLEAN
    BY <1>0 DEF LogTypeOK
  <2>. QED  BY <2>1, <2>2, SentStream
<1>8. \A r \in Reader : Waiting(r)' \subseteq Waiting(r) \cup {m}
    BY <1>7 DEF Waiting
<1>9. Everywhere' \subseteq Everywhere \cup {m}
  <2>1. \A o \in Pusher : pushing'[o] \in {pushing[q] : q \in Pusher} \cup {m}
    BY <1>2
  <2>. QED  BY <1>8, <2>1 DEF Everywhere
<1>10. PushedIsNew'
  <2>1. /\ pushing'["forwarder"].kind \in {"none", "line"}
        /\ pushing'["normaliser"].kind \in {"none", "session", "patch"}
        /\ pushing'["closer"].kind \in {"none", "finished"}
    BY <1>0, <1>2 DEF OrderInv, PushedIsNew
  <2>2. Msgs(history') \subseteq Everywhere
    BY DEF Everywhere
  <2>3. Before(Msgs(history'), "line", {pushing'["forwarder"]}, "line")
    <3>1. CASE p = "forwarder"
      BY <1>2, <1>5, <2>2, <3>1 DEF Before
    <3>2. CASE p # "forwarder"
      BY <1>0, <1>2, <3>2 DEF OrderInv, PushedIsNew
    <3>. QED  BY <3>1, <3>2
  <2>4. Before(Msgs(history'), "patch", {pushing'["normaliser"]}, "patch")
    <3>1. CASE p = "normaliser"
      BY <1>2, <1>5, <2>2, <3>1 DEF Before
    <3>2. CASE p # "normaliser"
      BY <1>0, <1>2, <3>2 DEF OrderInv, PushedIsNew
    <3>. QED  BY <3>1, <3>2
  <2>. QED  BY <2>1, <2>3, <2>4 DEF PushedIsNew
<1>11. InOrder'
    BY <1>7 DEF OrderInv, InOrder
<1>12. Bounded'
  <2>1. \A x \in Everywhere : x.n <= forwarded'
    BY <1>0, <1>4 DEF LogTypeOK
  <2>. QED  BY <1>9, <2>1 DEF Bounded
<1>13. NothingYet'
    BY <1>0, <1>1, <1>7 DEF OrderInv, NothingYet
<1>14. PatchesAreTaken'
  <2>1. reader'["normaliser"].phase \in Early => \A x \in Everywhere' : x.kind # "patch"
    BY <1>0, <1>1, <1>9 DEF OrderInv, PatchesAreTaken, Early
  <2>2. ASSUME NEW x \in Everywhere', NEW y \in Waiting("normaliser")',
               x.kind = "patch", y.kind = "line"
        PROVE  x.n < y.n
    <3>1. y \in Holding(rs["normaliser"]) \cup {m} /\ Holding(rs["normaliser"]) \subseteq Waiting("normaliser")
      BY <1>0, <1>7 DEF Waiting
    <3>2. CASE x = m
      BY <2>2, <3>1, <3>2
    <3>3. CASE x \in Everywhere /\ y = m
      BY <1>0, <1>4, <2>2, <3>3 DEF LogTypeOK, Message
    <3>4. CASE x \in Everywhere /\ y \in Waiting("normaliser")
      BY <2>2, <3>4 DEF OrderInv, PatchesAreTaken, Before
    <3>. QED  BY <1>9, <3>1, <3>2, <3>3, <3>4
  <2>. QED  BY <2>1, <2>2 DEF PatchesAreTaken, Before
<1>15. LogIsOld'
  <2>1. Msgs(logs) \subseteq Nat /\ \A x \in Msgs(logs) : x <= forwarded
    BY <1>0, MsgsType DEF LogTypeOK, OrderInv, LogIsOld
  <2>2. \A x \in Msgs(logs) : x <= forwarded' /\ (m.kind = "line" => x < m.n)
    BY <1>0, <2>1 DEF LogTypeOK, Message
  <2>3. \A y \in Waiting("persister")' : y.kind = "line" => \A x \in Msgs(logs) : x < y.n
    BY <1>0, <1>8, <2>2 DEF OrderInv, LogIsOld
  <2>4. reader'["persister"].phase = reader["persister"].phase
    BY <1>0, <1>1
  <2>. QED  BY <2>2, <2>3, <2>4 DEF OrderInv, LogIsOld
<1>16. ShownIsOld'
  <2>1. /\ reader'["viewer"].phase = reader["viewer"].phase
        /\ reader'["normaliser"].phase = reader["normaliser"].phase
    BY <1>0, <1>1
  <2>2. ASSUME reader["viewer"].phase # "ended", NEW x \in Msgs(viewer.shown)
        PROVE  /\ x <= forwarded'
               /\ \A y \in Waiting("viewer")' : y.kind = Follows => x < y.n
               /\ viewer.kind # "raw" =>
                     /\ reader["normaliser"].phase \notin Early
                     /\ \A y \in Waiting("normaliser")' : y.kind = "line" => x < y.n
    <3>1. x \in Nat /\ x <= forwarded
      BY <1>0, <2>2, MsgsType DEF LogTypeOK, OrderInv, ShownIsOld
    <3>2. x <= forwarded' /\ (m.kind = "line" => x < m.n)
      BY <1>0, <3>1 DEF LogTypeOK, Message
    <3>3. m.kind = Follows => x < m.n
      BY <2>2, <3>2 DEF Follows
    <3>4. \A y \in Waiting("viewer")' : y.kind = Follows => x < y.n
      BY <1>0, <1>8, <2>2, <3>3 DEF OrderInv, ShownIsOld
    <3>5. viewer.kind # "raw" =>
             /\ reader["normaliser"].phase \notin Early
             /\ \A y \in Waiting("normaliser")' : y.kind = "line" => x < y.n
      BY <1>0, <1>8, <2>2, <3>2 DEF OrderInv, ShownIsOld
    <3>. QED  BY <3>2, <3>4, <3>5
  <2>3. Follows' = Follows
    BY DEF Follows
  <2>. QED  BY <2>1, <2>2, <2>3 DEF OrderInv, ShownIsOld
<1>. QED
    BY <1>1, <1>2, <1>9, <1>10, <1>11, <1>12, <1>13, <1>14, <1>15, <1>16

(* What the readers hold when nobody has taken anything. *)
LEMMA ReadersAre ==
    ASSUME OrderInv
    PROVE  /\ reader \in [Reader -> ReaderState]
           /\ \A r \in Reader : /\ StreamInOrder(reader[r]) /\ HoldsByPhase(reader[r])
                                /\ Holding(reader[r]) \subseteq Holding(reader[r])
                                /\ reader[r].phase = reader[r].phase
    BY DEF OrderInv, LogTypeOK, InOrder, NothingYet

(* The forwarder sends a line that is beyond all it has sent. *)
LEMMA ForwarderStep ==
    ASSUME OrderInv, spawn_forwarder
    PROVE  OrderInv'
<1>0. LogTypeOK /\ "forwarder" \in Pusher
    BY DEF OrderInv, Pusher
<1>1. PICK n \in debounce_logs :
         /\ forwarded' = n
         /\ Send(reader, Line(n))
         /\ owed' = IF reader["persister"].phase = "live" /\ ~finished
                    THEN owed \cup {n} ELSE owed
         /\ pushing' = [pushing EXCEPT !["forwarder"] = Line(n)]
    BY DEF spawn_forwarder
<1>2. UNCHANGED <<script, agentRuns, written, inMap, history, spawned, finished, logs,
                  session, viewer>>
    BY DEF spawn_forwarder
<1>3. n \in Nat /\ n > forwarded /\ forwarded \in Nat
    BY <1>0 DEF debounce_logs, LogTypeOK
<1>4. Line(n) \in Message /\ Line(n).kind = "line" /\ Line(n).n = n
    BY <1>3, Constants
<1>5. forwarded' \in Nat /\ forwarded' >= forwarded /\ Line(n).n <= forwarded' /\ Line(n).n > forwarded
    BY <1>1, <1>3, <1>4
<1>6. /\ reader' \in [Reader -> ReaderState]
      /\ lagged' \in BOOLEAN
      /\ pushing' \in [Pusher -> Message]
      /\ (PushedIsNew /\ InOrder /\ Bounded /\ NothingYet /\ PatchesAreTaken
            /\ LogIsOld /\ ShownIsOld)'
    BY <1>0, <1>1, <1>2, <1>4, <1>5, ReadersAre, SendStep
<1>7. owed' \subseteq Nat
    BY <1>0, <1>1, <1>3 DEF LogTypeOK
<1>8. LogTypeOK'
    BY <1>0, <1>2, <1>5, <1>6, <1>7 DEF LogTypeOK
<1>. QED
    BY <1>6, <1>8 DEF OrderInv

LEMMA CloserStep ==
    ASSUME OrderInv, push_finished
    PROVE  OrderInv'
<1>0. LogTypeOK /\ "closer" \in Pusher
    BY DEF OrderInv, Pusher
<1>1. /\ Send(reader, Finished)
      /\ pushing' = [pushing EXCEPT !["closer"] = Finished]
      /\ inMap' = FALSE /\ finished' = TRUE
    BY DEF push_finished
<1>2. UNCHANGED <<script, agentRuns, written, forwarded, history, spawned, logs,
                  session, viewer, owed>>
    BY DEF push_finished
<1>3. Finished \in Message /\ Finished.kind = "finished" /\ Finished.n = 0
    BY Constants
<1>4. forwarded' \in Nat /\ forwarded' >= forwarded /\ Finished.n <= forwarded'
    BY <1>0, <1>2, <1>3 DEF LogTypeOK
<1>5. /\ reader' \in [Reader -> ReaderState]
      /\ lagged' \in BOOLEAN
      /\ pushing' \in [Pusher -> Message]
      /\ (PushedIsNew /\ InOrder /\ Bounded /\ NothingYet /\ PatchesAreTaken
            /\ LogIsOld /\ ShownIsOld)'
    BY <1>0, <1>1, <1>2, <1>3, <1>4, ReadersAre, SendStep
<1>6. LogTypeOK'
    BY <1>0, <1>1, <1>2, <1>5 DEF LogTypeOK
<1>. QED
    BY <1>5, <1>6 DEF OrderInv

(* The normaliser takes a line and sends what it makes of it: every patch there
   is, and every entry shown, comes from an earlier line. *)
LEMMA NormaliseStep ==
    ASSUME OrderInv, Normalise
    PROVE  OrderInv'
<1>. DEFINE l == Taken("normaliser")
            rs == Rest("normaliser")
<1>0. /\ LogTypeOK /\ "normaliser" \in Pusher
      /\ Reader = {"normaliser", "persister", "viewer"}
    BY DEF OrderInv, Pusher, Reader
<1>1. Taking("normaliser")
    BY DEF Normalise
<1>2. UNCHANGED <<script, agentRuns, written, forwarded, inMap, history, spawned, finished,
                  logs, session, viewer, owed>>
    BY DEF Normalise
<1>3. CASE /\ reader' = Rest("normaliser") \/ reader' = Left("normaliser")
           /\ UNCHANGED <<pushing, lagged>>
    BY <1>1, <1>2, <1>3, SkipStep
<1>4. ASSUME l.kind = "line", NEW m \in {SessionId, JsonPatch(l.n)},
             Send(rs, m), pushing' = [pushing EXCEPT !["normaliser"] = m]
      PROVE  OrderInv'
  <2>1. /\ rs \in [Reader -> ReaderState]
        /\ \A o \in Reader \ {"normaliser"} : rs[o] = reader[o]
        /\ rs["normaliser"].phase = "live"
        /\ l \in Message /\ l \in Waiting("normaliser")
        /\ Holding(rs["normaliser"]) \subseteq Waiting("normaliser")
        /\ StreamInOrder(rs["normaliser"]) /\ HoldsByPhase(rs["normaliser"])
        /\ Before({l}, "line", Holding(rs["normaliser"]), "line")
    BY <1>0, <1>1, RestIs DEF OrderInv, InOrder
  <2>2. reader["normaliser"].phase = "live"
    BY <1>1 DEF Taking
  <2>3. l.n \in Nat /\ l.n <= forwarded
    <3>1. l \in Everywhere
      BY <1>0, <2>1 DEF Everywhere
    <3>. QED  BY <2>1, <3>1 DEF OrderInv, Bounded, Message
  <2>. HIDE DEF l, rs
  <2>4. /\ m \in Message /\ m.kind \in {"session", "patch"}
        /\ m.kind = "patch" => m.n = l.n
        /\ m.n <= forwarded
    BY <1>0, <1>4, <2>3, Constants DEF LogTypeOK
  <2>5. forwarded' \in Nat /\ forwarded' >= forwarded /\ m.n <= forwarded'
    BY <1>0, <1>2, <2>4 DEF LogTypeOK
  <2>6. \A r \in Reader : /\ StreamInOrder(rs[r]) /\ HoldsByPhase(rs[r])
                          /\ Holding(rs[r]) \subseteq Holding(reader[r])
                          /\ rs[r].phase = reader[r].phase
    BY <1>0, <2>1, <2>2, ReadersAre DEF Waiting
  <2>7. m.kind = "patch" =>
              /\ reader["normaliser"].phase = "live"
              /\ \A x \in Everywhere : x.kind = "patch" => x.n < m.n
              /\ \A y \in Holding(rs["normaliser"]) : y.kind = "line" => m.n < y.n
              /\ reader["viewer"].phase # "ended" /\ viewer.kind # "raw"
                    => \A x \in Msgs(viewer.shown) : x < m.n
    <3>1. \A x \in Everywhere : x.kind = "patch" => x.n < l.n
      BY <1>4, <2>1 DEF OrderInv, PatchesAreTaken, Before
    <3>2. \A y \in Holding(rs["normaliser"]) : y.kind = "line" => l.n < y.n
      BY <1>4, <2>1 DEF Before
    <3>3. reader["viewer"].phase # "ended" /\ viewer.kind # "raw"
            => \A x \in Msgs(viewer.shown) : x < l.n
      BY <1>4, <2>1 DEF OrderInv, ShownIsOld
    <3>. QED  BY <2>2, <2>4, <3>1, <3>2, <3>3
  <2>8. /\ reader' \in [Reader -> ReaderState]
        /\ lagged' \in BOOLEAN
        /\ pushing' \in [Pusher -> Message]
        /\ (PushedIsNew /\ InOrder /\ Bounded /\ NothingYet /\ PatchesAreTaken
              /\ LogIsOld /\ ShownIsOld)'
    <3>1. m.kind # "line" /\ m.kind # "finished"
      BY <2>4
    <3>2. UNCHANGED <<history, spawned, logs, viewer>>
      BY <1>2
    <3>. QED  BY <1>0, <1>4, <2>1, <2>4, <2>5, <2>6, <2>7, <3>1, <3>2, SendStep
  <2>9. LogTypeOK'
    BY <1>0, <1>2, <2>8 DEF LogTypeOK
  <2>. QED  BY <2>8, <2>9 DEF OrderInv
<1>. QED
    BY <1>3, <1>4 DEF Normalise

-----------------------------------------------------------------------------
LEMMA OrderInit ==
    ASSUME LogInit
    PROVE  OrderInv
<1>0. Reader = {"normaliser", "persister", "viewer"} /\ Pusher = {"forwarder", "normaliser", "closer"}
    BY DEF Reader, Pusher
<1>1. reader = [r \in Reader |-> NewReader] /\ pushing = [p \in Pusher |-> NoMsg]
    BY DEF LogInit
<1>2. <<>> \in Seq(Message) /\ <<>> \in Seq(Nat)
    OBVIOUS
<1>3. NewReader \in ReaderState /\ NewReader.phase = "none"
      /\ NewReader.past = <<>> /\ NewReader.queue = <<>>
    BY <1>2 DEF NewReader, ReaderState, Phase
<1>4. StreamInOrder(NewReader) /\ Holding(NewReader) = {} /\ HoldsByPhase(NewReader)
    BY <1>3, EmptyReader
<1>5. \A r \in Reader : reader[r] = NewReader /\ Waiting(r) = {}
    BY <1>1, <1>4 DEF Waiting
<1>6. \A p \in Pusher : pushing[p] = NoMsg
    BY <1>1
<1>7. Msgs(history) = {} /\ \A k : Ordered(history, k)
    BY OfNothing DEF LogInit
<1>8. Everywhere \subseteq {NoMsg}
    BY <1>5, <1>6, <1>7 DEF Everywhere
<1>9. viewer = [kind |-> "none", shown |-> <<>>, told |-> FALSE]
    BY DEF LogInit
<1>10. /\ viewer \in [kind : {"none", "raw", "normalized"}, shown : Seq(Nat), told : BOOLEAN]
       /\ viewer.kind = "none" /\ viewer.shown = <<>>
    BY <1>2, <1>9
<1>11. LogTypeOK
  <2>1. reader \in [Reader -> ReaderState] /\ pushing \in [Pusher -> Message]
    BY <1>1, <1>3, Constants
  <2>2. written \in Nat
    BY LogStreamBounds DEF LogInit
  <2>3. /\ script \in BOOLEAN /\ agentRuns \in BOOLEAN /\ inMap \in BOOLEAN
        /\ finished \in BOOLEAN /\ session \in BOOLEAN /\ lagged \in BOOLEAN
    BY DEF LogInit
  <2>. QED  BY <1>2, <1>10, <2>1, <2>2, <2>3 DEF LogTypeOK, LogInit
<1>12. PushedIsNew
    BY <1>0, <1>6, <1>7, Constants DEF PushedIsNew, Before
<1>13. InOrder /\ NothingYet
    BY <1>0, <1>3, <1>4, <1>5, <1>7 DEF InOrder, NothingYet
<1>14. Bounded
    BY <1>8, Constants DEF Bounded, LogInit
<1>15. PatchesAreTaken
    BY <1>8, Constants DEF PatchesAreTaken, Before
<1>16. LogIsOld
    BY OfNothing DEF LogIsOld, LogInit
<1>17. ShownIsOld
    BY <1>0, <1>3, <1>5, <1>10, OfNothing DEF ShownIsOld
<1>. QED
    BY <1>11, <1>12, <1>13, <1>14, <1>15, <1>16, <1>17 DEF OrderInv

LEMMA OrderStep ==
    ASSUME OrderInv, [LogNext]_logVars
    PROVE  OrderInv'
<1>0. {"normaliser", "persister", "viewer"} \subseteq Reader
      /\ {"forwarder", "normaliser", "closer"} \subseteq Pusher
    BY DEF Reader, Pusher
<1>1. ASSUME NEW r \in Reader, history_plus_stream(r) PROVE OrderInv'
    BY <1>1, GetHistoryStep, SubscribeStep DEF history_plus_stream
<1>2. CASE AgentExits \/ Starter
    BY <1>2, AgentExitsStep, StarterStep
<1>3. CASE stream_raw_logs \/ stream_normalized_logs
    BY <1>3, RawStep, NormalizedStep
<1>4. CASE Forwarder
    BY <1>0, <1>4, ForwarderStep, InsertStep DEF Forwarder
<1>5. CASE Closer
    BY <1>0, <1>5, CloserStep, InsertStep DEF Closer
<1>6. CASE Normaliser
    BY <1>0, <1>1, <1>6, NormaliseStep, InsertStep DEF Normaliser
<1>7. CASE Persister
    BY <1>0, <1>1, <1>7, PersistStep DEF Persister
<1>8. CASE Socket
    BY <1>0, <1>1, <1>8, ForwardStep, StreamEndsStep DEF Socket
<1>9. CASE UNCHANGED logVars
    BY <1>9 DEF logVars, OrderInv, LogTypeOK, PushedIsNew, InOrder, Bounded, NothingYet,
        PatchesAreTaken, LogIsOld, ShownIsOld, Everywhere, Waiting, Follows
<1>. QED
    BY <1>2, <1>3, <1>4, <1>5, <1>6, <1>7, <1>8, <1>9 DEF LogNext

(* The order of the lines is kept by every push, subscription, reader and crash
   of the agent, whatever the history and the channel can hold. *)
THEOREM OrderInvariant == LogSpec => []OrderInv
<1>1. LogInit => OrderInv
    BY OrderInit
<1>2. OrderInv /\ [LogNext]_logVars => OrderInv'
    BY OrderStep
<1>. QED
    BY <1>1, <1>2, PTL DEF LogSpec

LEMMA AscendingIncreases ==
    ASSUME NEW s \in Seq(Nat), Ascending(s)
    PROVE  Increasing(s)
<1>. SUFFICES ASSUME NEW i \in 1 .. Len(s) - 1 PROVE s[i] < s[i + 1]
    BY DEF Increasing
<1>1. Len(s) \in Nat
    OBVIOUS
<1>2. i \in 1 .. Len(s) /\ i + 1 \in 1 .. Len(s) /\ i < i + 1
    BY <1>1
<1>. QED
    BY <1>2 DEF Ascending

(* No line is stored or shown twice or before an earlier one, although the two
   halves of push and of history_plus_stream interleave in any order. *)
THEOREM LinesTheorem == LogSpec => []LinesOnceInOrder
<1>1. OrderInv => LinesOnceInOrder
  <2>. SUFFICES ASSUME OrderInv PROVE LinesOnceInOrder
    OBVIOUS
  <2>1. logs \in Seq(Nat) /\ viewer.shown \in Seq(Nat)
    BY DEF OrderInv, LogTypeOK
  <2>2. Ascending(logs) /\ Ascending(viewer.shown)
    BY DEF OrderInv, LogIsOld, ShownIsOld
  <2>. QED  BY <2>1, <2>2, AscendingIncreases DEF LinesOnceInOrder
<1>. QED
    BY <1>1, OrderInvariant, PTL

-----------------------------------------------------------------------------
(* What the persister is owed. *)

(* A step that neither adds to what the persister is owed nor takes anything from
   it keeps OwedIsKept, if it brings no Finished. *)
LEMMA OwedAside ==
    ASSUME OwedIsKept, reader'["persister"] = reader["persister"],
           UNCHANGED <<owed, logs, finished, lagged>>,
           Everywhere' \subseteq Everywhere \cup {NoMsg}
    PROVE  OwedIsKept'
<1>1. ~finished' => \A m \in Everywhere' : m.kind # "finished"
    BY Constants DEF OwedIsKept
<1>. QED
    BY <1>1 DEF OwedIsKept

(* When the readers hold nothing new, neither does the store. *)
LEMMA NothingNew ==
    ASSUME UNCHANGED <<history, pushing>>,
           \A r \in Reader : Holding(reader'[r]) \subseteq Holding(reader[r]) \cup Msgs(history)
    PROVE  Everywhere' \subseteq Everywhere
<1>1. \A r \in Reader : Waiting(r)' \subseteq Waiting(r) \cup Msgs(history)
    BY DEF Waiting
<1>. QED
    BY <1>1 DEF Everywhere

(* A task that starts, and a browser that asks, hold what they held. *)
LEMMA OwedPhase ==
    ASSUME OrderInv, OwedIsKept, NEW r \in Reader, NEW phase \in Phase,
           reader' = [reader EXCEPT ![r].phase = phase],
           reader[r].phase \in Early,
           UNCHANGED <<history, pushing, owed, logs, finished, lagged>>
    PROVE  OwedIsKept'
<1>0. LogTypeOK /\ "persister" \in Reader
    BY DEF OrderInv, Reader
<1>1. /\ \A o \in Reader \ {r} : reader'[o] = reader[o]
      /\ reader'[r].past = reader[r].past /\ reader'[r].queue = reader[r].queue
    BY <1>0, PhaseIs
<1>2. Everywhere' \subseteq Everywhere
  <2>1. \A o \in Reader : Holding(reader'[o]) = Holding(reader[o])
    BY <1>1 DEF Holding
  <2>. QED  BY <2>1, NothingNew
<1>3. CASE r # "persister"
    BY <1>0, <1>1, <1>2, <1>3, OwedAside
<1>4. CASE r = "persister"
  <2>1. owed = {}
    BY <1>4 DEF OwedIsKept
  <2>. QED  BY <1>1, <1>2, <1>4, <2>1 DEF OwedIsKept
<1>. QED
    BY <1>3, <1>4

(* The history is read before anything is owed; if it holds Finished, nothing
   will be. *)
LEMMA OwedHistory ==
    ASSUME OrderInv, OwedIsKept, NEW r \in Reader, history_plus_stream(r), get_history(r)
    PROVE  OwedIsKept'
<1>0. LogTypeOK /\ "persister" \in Reader
    BY DEF OrderInv, Reader
<1>1. /\ reader[r].phase = "store"
      /\ reader' = [reader EXCEPT ![r] = [phase |-> "history", past |-> history, queue |-> <<>>]]
      /\ UNCHANGED <<history, pushing, owed, logs, finished, lagged>>
    BY DEF get_history, history_plus_stream
<1>2. /\ \A o \in Reader \ {r} : reader'[o] = reader[o]
      /\ reader'[r].past = history /\ reader'[r].queue = <<>>
    BY <1>0, <1>1 DEF LogTypeOK
<1>3. Everywhere' \subseteq Everywhere
  <2>1. Holding(reader'[r]) = Msgs(history)
    BY <1>2, OfNothing DEF Holding
  <2>2. \A o \in Reader : Holding(reader'[o]) \subseteq Holding(reader[o]) \cup Msgs(history)
    BY <1>2, <2>1
  <2>. QED  BY <1>1, <2>2, NothingNew
<1>4. CASE r # "persister"
    BY <1>0, <1>1, <1>2, <1>3, <1>4, OwedAside
<1>5. CASE r = "persister"
  <2>1. owed = {}
    BY <1>1, <1>5 DEF OwedIsKept, Early
  <2>2. Msgs(history) \subseteq Everywhere
    BY DEF Everywhere
  <2>3. (\E m \in Msgs(history) : m.kind = "finished") => finished
    BY <2>2 DEF OwedIsKept
  <2>. QED  BY <1>1, <1>2, <1>3, <1>5, <2>1, <2>3 DEF OwedIsKept
<1>. QED
    BY <1>4, <1>5

(* The normaliser or the browser takes a message, or leaves. *)
LEMMA OwedTake ==
    ASSUME OrderInv, OwedIsKept, NEW r \in Reader, r # "persister",
           \/ Taking(r) /\ reader' = Rest(r)
           \/ reader' = Left(r),
           UNCHANGED <<history, pushing, owed, logs, finished, lagged>>
    PROVE  OwedIsKept'
<1>0. LogTypeOK /\ "persister" \in Reader
    BY DEF OrderInv, Reader
<1>1. /\ \A o \in Reader \ {r} : reader'[o] = reader[o]
      /\ Holding(reader'[r]) \subseteq Holding(reader[r])
  <2>1. CASE Taking(r) /\ reader' = Rest(r)
    BY <1>0, <2>1, RestIs DEF OrderInv, InOrder, Waiting
  <2>2. CASE reader' = Left(r)
    BY <1>0, <2>2, LeftIs, EmptyReader
  <2>. QED  BY <2>1, <2>2
<1>2. Everywhere' \subseteq Everywhere
  <2>1. \A o \in Reader : Holding(reader'[o]) \subseteq Holding(reader[o]) \cup Msgs(history)
    BY <1>1
  <2>. QED  BY <2>1, NothingNew
<1>. QED
    BY <1>0, <1>1, <1>2, OwedAside

(* The persister stores the line it takes, and leaves at Finished, ahead of which
   nothing waits any more. *)
LEMMA OwedPersist ==
    ASSUME OrderInv, OwedIsKept, Persist
    PROVE  OwedIsKept'
<1>. DEFINE m == Taken("persister")
            q == reader["persister"].queue
<1>0. LogTypeOK /\ "persister" \in Reader
    BY DEF OrderInv, Reader
<1>1. /\ Taking("persister")
      /\ reader' = IF m.kind = "finished" THEN Left("persister") ELSE Rest("persister")
      /\ logs' = IF m.kind = "line" THEN Append(logs, m.n) ELSE logs
      /\ UNCHANGED <<history, pushing, owed, finished, lagged>>
    BY DEF Persist, append_log_line
<1>2. /\ \A o \in Reader \ {"persister"} : Rest("persister")[o] = reader[o]
      /\ Rest("persister")["persister"].phase = "live"
      /\ m \in Message
      /\ Holding(Rest("persister")["persister"]) \subseteq Waiting("persister")
      /\ \/ /\ reader["persister"].past # <<>> /\ m \in Msgs(reader["persister"].past)
            /\ Msgs(Rest("persister")["persister"].past) \subseteq Msgs(reader["persister"].past)
            /\ Rest("persister")["persister"].queue = q
         \/ /\ q # <<>> /\ m = Head(q)
            /\ Rest("persister")["persister"].past = <<>>
            /\ Rest("persister")["persister"].queue = Tail(q)
    BY <1>0, <1>1, RestIs DEF OrderInv, InOrder
<1>3. /\ \A o \in Reader \ {"persister"} : Left("persister")[o] = reader[o]
      /\ Left("persister")["persister"].phase = "ended"
      /\ Left("persister")["persister"].past = <<>>
      /\ Left("persister")["persister"].queue = <<>>
    BY <1>0, LeftIs
<1>4. q \in Seq(Message) /\ m.n \in Nat /\ logs \in Seq(Nat)
    BY <1>0, <1>2 DEF LogTypeOK, ReaderState, Message
<1>. HIDE DEF m, q
<1>5. Everywhere' \subseteq Everywhere
  <2>1. Holding(Left("persister")["persister"]) = {}
    BY <1>3, OfNothing DEF Holding
  <2>2. \A o \in Reader : Holding(reader'[o]) \subseteq Holding(reader[o]) \cup Msgs(history)
    BY <1>1, <1>2, <1>3, <2>1 DEF Waiting
  <2>. QED  BY <1>1, <2>2, NothingNew
<1>6. ~finished' => \A x \in Everywhere' : x.kind # "finished"
    BY <1>1, <1>5 DEF OwedIsKept
<1>7. reader'["persister"].phase \notin Early
    BY <1>1, <1>2, <1>3 DEF Early
<1>8. Msgs(reader'["persister"].past) \subseteq Msgs(reader["persister"].past)
    BY <1>1, <1>2, <1>3, OfNothing
<1>9. /\ Msgs(logs) \subseteq Msgs(logs')
      /\ m.kind = "line" => m.n \in Msgs(logs')
    BY <1>1, <1>4, MsgsAppend
<1>10. ~lagged' => owed' \subseteq Msgs(logs') \cup Ahead(reader'["persister"].queue)
  <2>. SUFFICES ASSUME ~lagged', NEW n \in owed
                PROVE  n \in Msgs(logs') \cup Ahead(reader'["persister"].queue)
    BY <1>1
  <2>1. n \in Msgs(logs) \/ n \in Ahead(q)
    BY <1>1 DEF OwedIsKept, q
  <2>2. CASE m \in Msgs(reader["persister"].past) /\ m.kind = "finished"
    BY <2>2 DEF OwedIsKept
  <2>3. CASE n \in Ahead(q) /\ m.kind # "finished" /\ Rest("persister")["persister"].queue = q
    BY <1>1, <2>3
  <2>4. CASE n \in Ahead(q) /\ q # <<>> /\ m = Head(q)
             /\ Rest("persister")["persister"].queue = Tail(q)
    <3>1. m.kind # "finished" /\ (n \in Ahead(Tail(q)) \/ (m.kind = "line" /\ n = m.n))
      BY <1>4, <2>4, AheadTail
    <3>. QED  BY <1>1, <1>9, <2>4, <3>1
  <2>. QED  BY <1>2, <1>9, <2>1, <2>2, <2>3, <2>4
<1>11. (\E x \in Msgs(reader'["persister"].past) : x.kind = "finished") => finished' /\ owed' = {}
    BY <1>1, <1>8 DEF OwedIsKept
<1>. QED
    BY <1>6, <1>7, <1>10, <1>11 DEF OwedIsKept

(* What is sent reaches a subscribed persister behind what it waits for. *)
LEMMA OwedSend ==
    ASSUME OrderInv, OwedIsKept,
           NEW rs \in [Reader -> ReaderState], NEW m \in Message, NEW p \in Pusher,
           \A r \in Reader : Holding(rs[r]) \subseteq Holding(reader[r]),
           rs["persister"] = reader["persister"],
           Send(rs, m), pushing' = [pushing EXCEPT ![p] = m],
           UNCHANGED <<history, logs>>,
           finished' \in BOOLEAN, finished => finished', m.kind = "finished" => finished',
           \/ owed' = owed
           \/ /\ owed' = owed \cup {m.n} /\ m.kind = "line"
              /\ reader["persister"].phase = "live" /\ ~finished
    PROVE  OwedIsKept'
<1>. DEFINE q == reader["persister"].queue
<1>0. LogTypeOK /\ "persister" \in Reader
    BY DEF OrderInv, Reader
<1>1. /\ \A r \in Reader :
           /\ reader'[r].past = rs[r].past
           /\ rs[r].phase # "live" => reader'[r] = rs[r]
           /\ rs[r].phase = "live" =>
                \/ reader'[r].queue = Append(rs[r].queue, m)
                \/ rs[r].queue # <<>> /\ reader'[r].queue = Append(Tail(rs[r].queue), m)
      /\ ~lagged' => ~lagged
      /\ reader'["persister"].phase = reader["persister"].phase
      /\ reader'["persister"].past = reader["persister"].past
      /\ reader["persister"].phase # "live" => reader'["persister"] = reader["persister"]
      /\ reader["persister"].phase = "live" /\ ~lagged' => reader'["persister"].queue = Append(q, m)
  <2>1. lagged \in BOOLEAN
    BY <1>0 DEF LogTypeOK
  <2>2. /\ ~lagged' => ~lagged
        /\ \A r \in Reader :
             /\ reader'[r].phase = rs[r].phase
             /\ reader'[r].past = rs[r].past
             /\ rs[r].phase # "live" => reader'[r] = rs[r]
             /\ rs[r].phase = "live" =>
                  /\ \/ reader'[r].queue = Append(rs[r].queue, m)
                     \/ rs[r].queue # <<>> /\ reader'[r].queue = Append(Tail(rs[r].queue), m)
                  /\ ~lagged' => reader'[r].queue = Append(rs[r].queue, m)
    BY <2>1, SendIs
  <2>3. /\ reader'["persister"].phase = reader["persister"].phase
        /\ reader'["persister"].past = reader["persister"].past
        /\ reader["persister"].phase # "live" => reader'["persister"] = reader["persister"]
        /\ reader["persister"].phase = "live" /\ ~lagged'
             => reader'["persister"].queue = Append(q, m)
    BY <1>0, <2>2
  <2>. QED  BY <2>2, <2>3
<1>2. Everywhere' \subseteq Everywhere \cup {m}
  <2>1. ASSUME NEW r \in Reader PROVE Waiting(r)' \subseteq Waiting(r) \cup {m}
    <3>1. rs[r].queue \in Seq(Message)
      BY DEF ReaderState
    <3>2. Msgs(reader'[r].queue) \subseteq Msgs(rs[r].queue) \cup {m}
      <4>1. CASE reader'[r] = rs[r]
        BY <4>1
      <4>2. CASE reader'[r] # rs[r]
        BY <1>1, <3>1, <4>2, MsgsPush
      <4>. QED  BY <4>1, <4>2
    <3>3. Holding(reader'[r]) \subseteq Holding(rs[r]) \cup {m}
      BY <1>1, <3>2 DEF Holding
    <3>. QED  BY <3>3 DEF Waiting
  <2>2. \A o \in Pusher : pushing'[o] \in {pushing[x] : x \in Pusher} \cup {m}
    BY <1>0 DEF LogTypeOK
  <2>. QED  BY <2>1, <2>2 DEF Everywhere
<1>3. ~finished' => \A x \in Everywhere' : x.kind # "finished"
    BY <1>2 DEF OwedIsKept
<1>4. reader'["persister"].phase \in Early => owed' = {}
    BY <1>1 DEF OwedIsKept, Early
<1>5. (\E x \in Msgs(reader'["persister"].past) : x.kind = "finished") => finished' /\ owed' = {}
    BY <1>1 DEF OwedIsKept
<1>6. ASSUME ~lagged' PROVE owed' \subseteq Msgs(logs') \cup Ahead(reader'["persister"].queue)
  <2>1. owed \subseteq Msgs(logs) \cup Ahead(q)
    BY <1>1, <1>6 DEF OwedIsKept
  <2>2. CASE reader["persister"].phase # "live"
    BY <1>1, <2>1, <2>2
  <2>3. CASE reader["persister"].phase = "live"
    <3>1. q \in Seq(Message)
      BY <1>0 DEF LogTypeOK, ReaderState
    <3>2. Msgs(q) \subseteq Everywhere
      BY <1>0 DEF Everywhere, Waiting, Holding
    <3>3. ~finished => \A x \in Msgs(q) : x.kind # "finished"
      BY <3>2 DEF OwedIsKept
    <3>. HIDE DEF q
    <3>4. /\ Ahead(q) \subseteq Ahead(Append(q, m))
          /\ m.kind = "line" /\ ~finished => m.n \in Ahead(Append(q, m))
      BY <3>1, <3>3, AheadAppend
    <3>. QED  BY <1>1, <1>6, <2>1, <2>3, <3>4
  <2>. QED  BY <2>2, <2>3
<1>. QED
    BY <1>3, <1>4, <1>5, <1>6 DEF OwedIsKept

LEMMA OwedStep ==
    ASSUME OrderInv, OwedIsKept, [LogNext]_logVars
    PROVE  OwedIsKept'
<1>0. /\ LogTypeOK /\ {"normaliser", "persister", "viewer"} \subseteq Reader
      /\ {"forwarder", "normaliser", "closer"} \subseteq Pusher
      /\ {"store", "live", "ended"} \subseteq Phase
    BY DEF OrderInv, Reader, Pusher, Phase
<1>1. ASSUME NEW r \in Reader, history_plus_stream(r) PROVE OwedIsKept'
  <2>1. CASE get_history(r)
    BY <1>1, <2>1, OwedHistory
  <2>2. CASE Subscribe(r)
    <3>1. /\ reader' = [reader EXCEPT ![r].phase = "live"] /\ reader[r].phase \in Early
          /\ UNCHANGED <<history, pushing, owed, logs, finished, lagged>>
      BY <1>1, <2>2 DEF history_plus_stream, Subscribe, Early
    <3>. QED  BY <1>0, <3>1, OwedPhase
  <2>. QED  BY <1>1, <2>1, <2>2 DEF history_plus_stream
<1>2. ASSUME NEW p \in Pusher, Insert(p) PROVE OwedIsKept'
  <2>1. /\ history' = Append(IF Len(history) >= HistoryMax THEN Tail(history) ELSE history,
                             pushing[p])
        /\ pushing' = [pushing EXCEPT ![p] = NoMsg]
        /\ UNCHANGED <<reader, owed, logs, finished, lagged>>
    BY <1>2 DEF Insert
  <2>2. history \in Seq(Message) /\ pushing[p] \in Message /\ pushing \in [Pusher -> Message]
    BY <1>0 DEF LogTypeOK
  <2>3. Msgs(history') \subseteq Msgs(history) \cup {pushing[p]}
    <3>1. ASSUME Len(history) >= HistoryMax PROVE history # <<>>
      <4>. SUFFICES ASSUME history = <<>> PROVE FALSE
        OBVIOUS
      <4>. QED  BY <3>1, LogStreamBounds
    <3>. QED  BY <2>1, <2>2, <3>1, MsgsPush
  <2>4. \A o \in Pusher : pushing'[o] \in {pushing[x] : x \in Pusher} \cup {NoMsg}
    BY <2>1, <2>2
  <2>5. \A r \in Reader : Waiting(r)' = Waiting(r)
    BY <2>1 DEF Waiting
  <2>6. Everywhere' \subseteq Everywhere \cup {NoMsg}
    BY <2>3, <2>4, <2>5 DEF Everywhere
  <2>. QED  BY <2>1, <2>6, OwedAside
<1>3. CASE AgentExits \/ UNCHANGED logVars
  <2>1. UNCHANGED <<reader, history, pushing, owed, logs, finished, lagged>>
    BY <1>3 DEF AgentExits, logVars
  <2>. QED  BY <2>1 DEF OwedIsKept, Everywhere, Waiting
<1>4. CASE Starter
  <2>1. PICK r \in {"normaliser", "persister"}, phase \in {"store", "ended"} :
            /\ reader' = [reader EXCEPT ![r].phase = phase]
            /\ reader[r].phase = "none"
    BY <1>4 DEF Starter, normalize_logs, spawn_stream_raw_logs_to_db, OrderInv, NothingYet
  <2>2. UNCHANGED <<history, pushing, owed, logs, finished, lagged>>
    BY <1>4 DEF Starter, normalize_logs, spawn_stream_raw_logs_to_db
  <2>3. r \in Reader /\ phase \in Phase /\ reader[r].phase \in Early
    BY <1>0, <2>1 DEF Early
  <2>. QED  BY <2>1, <2>2, <2>3, OwedPhase
<1>5. CASE stream_raw_logs \/ stream_normalized_logs
  <2>1. PICK phase \in {"store", "ended"} : reader' = [reader EXCEPT !["viewer"].phase = phase]
    BY <1>5 DEF stream_raw_logs, stream_normalized_logs
  <2>2. UNCHANGED <<history, pushing, owed, logs, finished, lagged>> /\ viewer.kind = "none"
    BY <1>5 DEF stream_raw_logs, stream_normalized_logs
  <2>3. "viewer" \in Reader /\ phase \in Phase /\ reader["viewer"].phase \in Early
    BY <1>0, <2>2 DEF OrderInv, ShownIsOld, Early
  <2>. QED  BY <2>1, <2>2, <2>3, OwedPhase
<1>6. CASE spawn_forwarder
  <2>1. PICK n \in debounce_logs :
           /\ Send(reader, Line(n))
           /\ owed' = IF reader["persister"].phase = "live" /\ ~finished
                      THEN owed \cup {n} ELSE owed
           /\ pushing' = [pushing EXCEPT !["forwarder"] = Line(n)]
    BY <1>6 DEF spawn_forwarder
  <2>2. UNCHANGED <<history, logs, finished>>
    BY <1>6 DEF spawn_forwarder
  <2>3. n \in Nat /\ Line(n) \in Message /\ Line(n).kind = "line" /\ Line(n).n = n
    BY <1>0, Constants DEF debounce_logs, LogTypeOK
  <2>4. finished' \in BOOLEAN /\ (finished => finished')
    BY <1>0, <2>2 DEF LogTypeOK
  <2>5. \/ owed' = owed
        \/ /\ owed' = owed \cup {Line(n).n} /\ Line(n).kind = "line"
           /\ reader["persister"].phase = "live" /\ ~finished
    BY <2>1, <2>3
  <2>. QED  BY <1>0, <2>1, <2>2, <2>3, <2>4, <2>5, ReadersAre, OwedSend
<1>7. CASE push_finished
  <2>1. /\ Send(reader, Finished) /\ pushing' = [pushing EXCEPT !["closer"] = Finished]
        /\ finished' = TRUE /\ UNCHANGED <<history, logs, owed>>
    BY <1>7 DEF push_finished
  <2>. QED  BY <1>0, <2>1, Constants, ReadersAre, OwedSend
<1>8. CASE Normalise
  <2>1. Taking("normaliser") /\ UNCHANGED <<history, owed, logs, finished>>
    BY <1>8 DEF Normalise
  <2>2. CASE /\ reader' = Rest("normaliser") \/ reader' = Left("normaliser")
             /\ UNCHANGED <<pushing, lagged>>
    BY <1>0, <2>1, <2>2, OwedTake
  <2>3. ASSUME NEW m \in {SessionId, JsonPatch(Taken("normaliser").n)},
               Send(Rest("normaliser"), m), pushing' = [pushing EXCEPT !["normaliser"] = m]
        PROVE  OwedIsKept'
    <3>. DEFINE rs == Rest("normaliser")
    <3>1. /\ rs \in [Reader -> ReaderState] /\ Taken("normaliser") \in Message
          /\ \A o \in Reader \ {"normaliser"} : rs[o] = reader[o]
          /\ Holding(rs["normaliser"]) \subseteq Waiting("normaliser")
      BY <1>0, <2>1, RestIs DEF OrderInv, InOrder
    <3>. HIDE DEF rs
    <3>2. m \in Message /\ m.kind # "finished"
      BY <2>3, <3>1, Constants DEF Message
    <3>3. /\ \A r \in Reader : Holding(rs[r]) \subseteq Holding(reader[r])
          /\ rs["persister"] = reader["persister"]
      BY <1>0, <3>1 DEF Waiting
    <3>4. finished' \in BOOLEAN /\ (finished => finished')
      BY <1>0, <2>1 DEF LogTypeOK
    <3>5. Send(rs, m)
      BY <2>3 DEF rs
    <3>. QED  BY <1>0, <2>1, <2>3, <3>1, <3>2, <3>3, <3>4, <3>5, OwedSend
  <2>. QED  BY <1>8, <2>2, <2>3 DEF Normalise
<1>9. CASE Persist
    BY <1>9, OwedPersist
<1>10. CASE ForwardToSocket \/ StreamEnds
  <2>1. /\ \/ Taking("viewer") /\ reader' = Rest("viewer")
           \/ reader' = Left("viewer")
        /\ UNCHANGED <<history, pushing, owed, logs, finished, lagged>>
    BY <1>10 DEF ForwardToSocket, StreamEnds
  <2>. QED  BY <1>0, <2>1, OwedTake
<1>. QED
    BY <1>0, <1>1, <1>2, <1>3, <1>4, <1>5, <1>6, <1>7, <1>8, <1>9, <1>10
    DEF LogNext, Forwarder, Closer, Normaliser, Persister, Socket

LEMMA OwedInit ==
    ASSUME LogInit
    PROVE  OwedIsKept
<1>1. "persister" \in Reader
    BY DEF Reader
<1>2. \A r \in Reader : reader[r].past = <<>> /\ reader[r].queue = <<>>
    BY DEF LogInit, NewReader
<1>3. Everywhere \subseteq {NoMsg}
  <2>1. \A r \in Reader : Waiting(r) = {}
    BY <1>2, OfNothing DEF Waiting, Holding
  <2>2. Msgs(history) = {} /\ \A p \in Pusher : pushing[p] = NoMsg
    BY OfNothing DEF LogInit
  <2>. QED  BY <2>1, <2>2 DEF Everywhere
<1>4. \A m \in Everywhere : m.kind # "finished"
    BY <1>3, Constants
<1>5. Msgs(reader["persister"].past) = {}
    BY <1>1, <1>2, OfNothing
<1>6. owed = {}
    BY DEF LogInit
<1>. QED
    BY <1>4, <1>5, <1>6 DEF OwedIsKept

(* Unless a reader lagged, every line sent between the persister's subscription
   and Finished is in the log when the persister has ended, whoever else reads
   and pushes and in whatever order. *)
THEOREM StoredTheorem == LogSpec => []SubscribedIsStored
<1>1. LogInit => OwedIsKept
    BY OwedInit
<1>2. OrderInv /\ OwedIsKept /\ [LogNext]_logVars => OwedIsKept'
    BY OwedStep
<1>3. OrderInv /\ OwedIsKept => SubscribedIsStored
  <2>. SUFFICES ASSUME OrderInv, OwedIsKept, reader["persister"].phase = "ended", ~lagged
                PROVE  owed \subseteq {logs[i] : i \in 1 .. Len(logs)}
    BY DEF SubscribedIsStored
  <2>1. "persister" \in Reader
    BY DEF Reader
  <2>2. Ahead(reader["persister"].queue) = {}
    BY <2>1, OfNothing DEF OrderInv, NothingYet, HoldsByPhase
  <2>. QED  BY <2>2 DEF OwedIsKept, Msgs
<1>. QED
    BY <1>1, <1>2, <1>3, OrderInvariant, PTL DEF LogSpec

=============================================================================
