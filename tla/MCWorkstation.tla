--------------------------- MODULE MCWorkstation ---------------------------
(***************************************************************************)
(* Small instances of Workstation for TLC.  Desktops differ in their place *)
(* in a chain of restarts and threads are under no fairness; no symmetry   *)
(* is used, because the run also checks liveness.                          *)
(***************************************************************************)
EXTENDS Workstation
=============================================================================
