----------------------------- MODULE MCTaskLoop -----------------------------
(***************************************************************************)
(* TaskLoop for TLC: memory_recall, another tool, a destructive one and    *)
(* one that is not listed, with arguments that are interchangeable.        *)
(***************************************************************************)
EXTENDS TaskLoop, TLC

Symmetry == Permutations(Arguments)
=============================================================================
