--------------------------- MODULE MCConversation ---------------------------
(* Conversation for TLC. *)
EXTENDS Conversation, TLC

CallSymmetry == Permutations(Call)
=============================================================================
