----------------------------- MODULE SettledLog -----------------------------
(***************************************************************************)
(* What a consumer group that checkpoints its offset promises: messages    *)
(* are settled in the order of the log, and the offset only ever moves     *)
(* forward, over settled messages.  A message is settled when the          *)
(* consumer is done with it, for good or ill.  EventBus implements this.   *)
(***************************************************************************)
EXTENDS Integers

CONSTANT MaxMsg       \* bound on the length of the log

VARIABLES
  settled,    \* the settled messages
  committed   \* the messages 1..committed are never delivered again

logVars == <<settled, committed>>

LogInit == settled = {} /\ committed = 0

\* m is settled: it is the first message that was not.
Settle(m) ==
  /\ 1..(m - 1) \subseteq settled
  /\ settled' = settled \cup {m}
  /\ committed' = committed

\* The offset moves over settled messages.
Commit(n) ==
  /\ n > committed
  /\ 1..n \subseteq settled
  /\ committed' = n
  /\ settled' = settled

LogNext == \E m \in 1..MaxMsg : Settle(m) \/ Commit(m)

LogSpec == LogInit /\ [][LogNext]_logVars
=============================================================================
