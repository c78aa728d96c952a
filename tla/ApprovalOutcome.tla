--------------------------- MODULE ApprovalOutcome ---------------------------
(***************************************************************************)
(* What the approval service promises to the agent that asks and to the    *)
(* client that answers: a request gets one outcome and keeps it, and a     *)
(* client who is told that its answer was accepted is told that outcome,   *)
(* once.  How answers, deadlines and disconnects compete for the request   *)
(* is left to the module Approvals, which implements this one.             *)
(***************************************************************************)
CONSTANT Request

VARIABLES
    outcome,    \* of each request, as the agent's waiter sees it
    told        \* of each request, the answer reported as accepted

Status == {"approved", "denied", "timed_out", "pending"}

vars == <<outcome, told>>

Init ==
    /\ outcome = [q \in Request |-> "none"]
    /\ told = [q \in Request |-> "none"]

(* A request without a tool use to attach it to has timed out at once. *)
Ask(q) ==
    /\ outcome[q] = "none"
    /\ \E s \in {"open", "timed_out"} : outcome' = [outcome EXCEPT ![q] = s]
    /\ UNCHANGED told

Settle(q) ==
    /\ outcome[q] = "open"
    /\ \E s \in Status : outcome' = [outcome EXCEPT ![q] = s]
    /\ UNCHANGED told

Tell(q) ==
    /\ told[q] = "none"
    /\ outcome[q] \in Status
    /\ told' = [told EXCEPT ![q] = outcome[q]]
    /\ UNCHANGED outcome

Next == \E q \in Request : Ask(q) \/ Settle(q) \/ Tell(q)

Safe == Init /\ [][Next]_vars

(* Every request is settled. *)
Spec == Safe /\ \A q \in Request : WF_vars(Settle(q))
=============================================================================
