---------------------------- MODULE MCGitService ----------------------------
(* Instances of GitService for TLC.                                        *)
EXTENDS GitService

Symmetry == Permutations(Attempt) \cup Permutations(File)

=============================================================================
