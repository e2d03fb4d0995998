---------------------------- MODULE DedupWindow ----------------------------
(***************************************************************************)
(* What a time-to-live deduplication cache promises its caller, without    *)
(* saying how it keeps its promise.  A key is a duplicate exactly when it  *)
(* was admitted at most TTL time units ago and fewer than MaxSize keys     *)
(* have been admitted since.  LocalTTLCache implements this specification. *)
(***************************************************************************)
EXTENDS Integers, Sequences

CONSTANTS
  Key,      \* the deduplication keys
  TTL,      \* how long an admission is remembered
  MaxSize   \* how many admissions are remembered

VARIABLES
  now,      \* the clock
  log,      \* every admission so far, in order: [key, at]
  verdict   \* the answer to the last check: [key, fresh]

windowVars == <<now, log, verdict>>

\* Key k, asked about at time t, is one of the last MaxSize admissions and
\* its admission is at most TTL old.
Remembered(k, t) ==
  \E i \in DOMAIN log : /\ log[i].key = k
                        /\ t <= log[i].at + TTL
                        /\ Len(log) - i < MaxSize

WindowInit ==
  /\ now \in Nat
  /\ log = <<>>
  /\ verdict = [key |-> "none", fresh |-> FALSE]

Duplicate(k) ==
  /\ Remembered(k, now')
  /\ verdict' = [key |-> k, fresh |-> FALSE]
  /\ log' = log

Admit(k) ==
  /\ ~ Remembered(k, now')
  /\ verdict' = [key |-> k, fresh |-> TRUE]
  /\ log' = Append(log, [key |-> k, at |-> now'])

Wait == UNCHANGED <<log, verdict>>

\* The clock never runs backwards; a check may take time.
WindowNext ==
  /\ now' \in Nat
  /\ now' >= now
  /\ Wait \/ \E k \in Key : Duplicate(k) \/ Admit(k)

WindowSpec == WindowInit /\ [][WindowNext]_windowVars
=============================================================================
