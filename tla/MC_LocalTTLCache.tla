-------------------------- MODULE MC_LocalTTLCache --------------------------
(* Model-checking instance of LocalTTLCache.                               *)
EXTENDS LocalTTLCache, TLC

KeySymmetry == Permutations(Key)
=============================================================================
