---------------------------- MODULE MCDiffStream ----------------------------
(* The diff stream of an attempt on its own.                               *)
EXTENDS DiffStream
=============================================================================
