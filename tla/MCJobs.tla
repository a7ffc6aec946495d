------------------------------- MODULE MCJobs -------------------------------
(***************************************************************************)
(* Small instances of Jobs for TLC.  Job identities and worker processes   *)
(* are interchangeable, so safety runs use both symmetries.                *)
(***************************************************************************)
EXTENDS Jobs, TLC

Symmetry == Permutations(Jobs) \union Permutations(Workers)
=============================================================================
