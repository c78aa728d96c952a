----------------------- MODULE MCExecutionLifecycle -----------------------
(* Instance of ExecutionLifecycle for TLC. *)
EXTENDS ExecutionLifecycle, TLC

(* Handlers are interchangeable. *)
ReqSymmetry == Permutations(Req)

=============================================================================
