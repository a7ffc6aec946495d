--------------------------- MODULE MCCloudHandoff ---------------------------
(***************************************************************************)
(* CloudHandoff for TLC: the owner's store and one empty root; executions  *)
(* are interchangeable, and so are the objects.                            *)
(***************************************************************************)
EXTENDS CloudHandoff, TLC

Symmetry == Permutations(Executions) \union Permutations(Uris)
=============================================================================
