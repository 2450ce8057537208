------------------------------ MODULE MCStaging ------------------------------
(***************************************************************************)
(* Model checking of Staging: two dumps, which may have the same id, and   *)
(* one report, over one end of the process.                                *)
(***************************************************************************)
EXTENDS Staging
=============================================================================
