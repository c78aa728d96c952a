---------------------------- MODULE MCApprovals ----------------------------
(***************************************************************************)
(* Approvals for TLC: handlers are interchangeable.                        *)
(***************************************************************************)
EXTENDS Approvals, TLC

Handlers == Permutations(Responder)
=============================================================================
