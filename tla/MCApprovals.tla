---------------------------- MODULE MCApprovals ----------------------------
(***************************************************************************)
(* Small instances of Approvals for TLC: receipts and operators are        *)
(* interchangeable.                                                        *)
(***************************************************************************)
EXTENDS Approvals, TLC

Symmetry == Permutations(Approvals) \union Permutations(Operators)
=============================================================================
