---------------------------- MODULE MC_EventBus ----------------------------
(* Model-checking instance of EventBus.                                    *)
EXTENDS EventBus
=============================================================================
