------------------------------ MODULE MCServices ------------------------------
(***************************************************************************)
(* Four components whose tasks must get somewhere, checked in one run:     *)
(* the initial state says which of them steps, the others stay as they     *)
(* begin.  None of them shares a variable with another.                    *)
(***************************************************************************)
EXTENDS PullRequests, LogStream, ExecutionRuns, CodexClient

VARIABLE component

svVars == <<component, prVars, logVars, runVars, cxVars>>

SvInit ==
    /\ component \in {"pull requests", "logs", "runs", "codex"}
    /\ PrInit /\ LogInit /\ RunInit /\ CxInit
    /\ component # "logs" => script       \* one initial state each

SvNext ==
    /\ \/ /\ component = "pull requests"
          /\ PrNext /\ UNCHANGED <<logVars, runVars, cxVars>>
       \/ /\ component = "logs"
          /\ LogNext /\ UNCHANGED <<prVars, runVars, cxVars>>
       \/ /\ component = "runs"
          /\ RunNext /\ UNCHANGED <<prVars, logVars, cxVars>>
       \/ /\ component = "codex"
          /\ CxNext /\ UNCHANGED <<prVars, logVars, runVars>>
    /\ UNCHANGED component

(* The component that steps does so under its own fairness: the fairness  *)
(* its module states, each action restricted to the behaviours in which    *)
(* the component is the one that steps.                                    *)
Prs == component = "pull requests"
Logs == component = "logs"
Runs == component = "runs"
Codex == component = "codex"

SvPrFairness ==
    /\ WF_prVars(Prs /\ MonitorStep)
    /\ \A i \in 1..MaxRow : SF_prVars(Prs /\ update_pr_status /\ Head(monitor.todo) = i)
    /\ \A q \in Request : WF_prVars(Prs /\ PrHandle(q))

SvLogFairness ==
    /\ WF_logVars(Logs /\ Forwarder) /\ WF_logVars(Logs /\ Closer)
    /\ WF_logVars(Logs /\ Starter) /\ WF_logVars(Logs /\ Normaliser)
    /\ WF_logVars(Logs /\ Persister) /\ WF_logVars(Logs /\ Socket)

SvRunFairness == \A p \in RunProcess : WF_runVars(Runs /\ RunMonitorStep(p))

SvCxFairness ==
    /\ WF_cxVars(Codex /\ Launcher)
    /\ \A i \in Ids : WF_cxVars(Codex /\ Sender(i))
    /\ WF_cxVars(Codex /\ ReaderStep)
    /\ WF_cxVars(Codex /\ signalled /\ CodexExits)

SvSpec ==
    /\ SvInit /\ [][SvNext]_svVars
    /\ SvPrFairness /\ SvLogFairness /\ SvRunFairness /\ SvCxFairness
=============================================================================
