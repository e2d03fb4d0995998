---------------------------- MODULE MC_Discovery ----------------------------
(* Model-checking instance of Discovery.                                   *)
EXTENDS Discovery
=============================================================================
