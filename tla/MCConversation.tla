--------------------------- MODULE MCConversation ---------------------------
(***************************************************************************)
(* A small instance of Conversation for TLC: processes are interchangeable.*)
(***************************************************************************)
EXTENDS Conversation, TLC

Symmetry == Permutations(Procs)
=============================================================================
