---------------------------- MODULE MC_Ingestion ----------------------------
(* Model-checking instance of Ingestion.                                   *)
EXTENDS Ingestion, TLC

Sym == Permutations(Req)
=============================================================================
