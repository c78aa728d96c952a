----------------------------- MODULE MCWorkspace -----------------------------
(***************************************************************************)
(* What a user works on, checked in one run: the worktrees of attempts and *)
(* runs, the task board, the follow-up drafts and the diff of an attempt.  *)
(* The initial state says which of the four steps, the others stay as they *)
(* begin.  None of them shares a variable with another.                    *)
(***************************************************************************)
EXTENDS Worktrees, TaskBoard, Drafts, DiffStream

VARIABLE component

wsVars == <<component, wtVars, tbVars, drVars, dsVars>>

(* One of the initial states of the diff stream, for the runs of the others. *)
DsFirst ==
    /\ attempt = [base |-> [f \in File |-> None], merged |-> FALSE, stats |-> FALSE]
    /\ ignores = {}

WsInit ==
    /\ component \in {"worktrees", "board", "drafts", "diffs"}
    /\ WtInit /\ TbInit /\ DrInit /\ DsInit
    /\ component # "diffs" => DsFirst

WsNext ==
    /\ \/ /\ component = "worktrees"
          /\ WtNext /\ UNCHANGED <<tbVars, drVars, dsVars>>
       \/ /\ component = "board"
          /\ TbNext /\ UNCHANGED <<wtVars, drVars, dsVars>>
       \/ /\ component = "drafts"
          /\ DrNext /\ UNCHANGED <<wtVars, tbVars, dsVars>>
       \/ /\ component = "diffs"
          /\ DsNext /\ UNCHANGED <<wtVars, tbVars, drVars>>
    /\ UNCHANGED component

WsSpec == WsInit /\ [][WsNext]_wsVars

Symmetric == Permutations(Task) \cup Permutations(Tab)
=============================================================================
