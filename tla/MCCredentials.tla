---------------------------- MODULE MCCredentials ----------------------------
(***************************************************************************)
(* Credentials on a small instance: two processes that share an account,   *)
(* one API key, credentials of two chunks.  No symmetry, because the run   *)
(* checks a liveness property.                                             *)
(***************************************************************************)
EXTENDS Credentials
=============================================================================
