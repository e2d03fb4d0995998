--------------------------- MODULE LocalTTLCache ---------------------------
(***************************************************************************)
(* LocalTTLCache (src/deduplicator.py): the in-memory cache the            *)
(* deduplicator falls back on when Redis does not answer.  The OrderedDict *)
(* is the sequence of its items in insertion order; a key is an opaque     *)
(* value and time.time() a natural number that never decreases.            *)
(* check_and_set reads the clock twice, once in _cleanup and once itself,  *)
(* and time may pass between the two reads.  The event loop runs it        *)
(* without interruption, so one call is one action.                        *)
(***************************************************************************)
EXTENDS Integers, Sequences

CONSTANTS
  Key,            \* the deduplication keys
  TTL,            \* settings.dedup_cache_ttl
  MaxSize,        \* max_size
  MaxTime,        \* bound on the clock
  MaxAdmissions   \* bound on the length of the history

ASSUME CacheAssumption ==
  /\ TTL \in Nat
  /\ MaxSize \in Nat \ {0}
  /\ MaxTime \in Nat
  /\ MaxAdmissions \in Nat

VARIABLES
  cache,     \* self.cache: items [key, expiry], oldest insertion first
  now,       \* the wall clock
  log,       \* history: every admission so far, [key, at]
  verdict    \* what the last check_and_set returned: [key, fresh]

vars == <<cache, now, log, verdict>>

Item == [key : Key, expiry : Nat]

----------------------------------------------------------------------------
(* The operations of the OrderedDict.                                      *)

HasKey(c, k) == \E i \in DOMAIN c : c[i].key = k

\* The position of k in c.
At(c, k) == CHOOSE i \in DOMAIN c : c[i].key = k

\* c without the item at position p.
Without(c, p) == SubSeq(c, 1, p - 1) \o SubSeq(c, p + 1, Len(c))

\* _cleanup: drop items from the front until one has not expired at time t.
Cleanup(c, t) ==
  LET kept == {i \in 1..(Len(c) + 1) :
                 \A j \in 1..(i - 1) : c[j].expiry < t}
      first == CHOOSE i \in kept : \A j \in kept : j <= i
  IN  SubSeq(c, first, Len(c))

\* Mutant: an item is a hit only before its expiry.
Live_Strict(c, k, t) == HasKey(c, k) /\ c[At(c, k)].expiry > t

\* A hit: the key is present and has not expired at time t.
Live(c, k, t) == HasKey(c, k) /\ c[At(c, k)].expiry >= t

\* An expired item of the key itself is popped ...
DropExpired(c, k) == IF HasKey(c, k) THEN Without(c, At(c, k)) ELSE c

\* Mutant: the cache is full one item too early.
MakeRoom_Early(c) == IF Len(c) >= MaxSize - 1 /\ c # <<>> THEN Tail(c) ELSE c

\* ... and a full cache loses its oldest item, whoever it belongs to.
MakeRoom(c) == IF Len(c) >= MaxSize THEN Tail(c) ELSE c

\* Mutant: the expiry is reckoned backwards.
Insert_Past(c, k, t) == Append(c, [key |-> k, expiry |-> t - TTL])

Insert(c, k, t) == Append(c, [key |-> k, expiry |-> t + TTL])

----------------------------------------------------------------------------
Init ==
  /\ cache = <<>>
  /\ now = 0
  /\ log = <<>>
  /\ verdict = [key |-> "none", fresh |-> FALSE]

Tick ==
  /\ now < MaxTime
  /\ now' = now + 1
  /\ UNCHANGED <<cache, log, verdict>>

\* check_and_set(k) returning False; t is its own reading of the clock.
CheckDuplicate(k, t) ==
  LET cleaned == Cleanup(cache, now)
  IN  /\ Live(cleaned, k, t)
      /\ cache' = cleaned
      /\ verdict' = [key |-> k, fresh |-> FALSE]
      /\ log' = log

\* check_and_set(k) returning True.
CheckFresh(k, t) ==
  LET cleaned == Cleanup(cache, now)
  IN  /\ Len(log) < MaxAdmissions
      /\ ~ Live(cleaned, k, t)
      /\ cache' = Insert(MakeRoom(DropExpired(cleaned, k)), k, t)
      /\ verdict' = [key |-> k, fresh |-> TRUE]
      /\ log' = Append(log, [key |-> k, at |-> t])

CheckAndSet(k) ==
  \E t \in now..MaxTime :
    /\ t <= now + 1
    /\ now' = t
    /\ CheckDuplicate(k, t) \/ CheckFresh(k, t)

Next == Tick \/ \E k \in Key : CheckAndSet(k)

Spec == Init /\ [][Next]_vars

----------------------------------------------------------------------------
(* Properties.                                                             *)

\* One item per key, and never more than max_size of them, although _cleanup
\* stops at the first unexpired item and an expired key may be reinserted
\* behind it (deduplicator.py:31-49).
OneItemPerKey ==
  /\ Len(cache) <= MaxSize
  /\ \A i, j \in DOMAIN cache : cache[i].key = cache[j].key => i = j

\* The types of the variables.
TypeOK ==
  /\ cache \in Seq(Item) /\ OneItemPerKey
  /\ now \in 0..MaxTime
  /\ log \in Seq([key : Key, at : Nat])
  /\ verdict \in [key : Key \cup {"none"}, fresh : BOOLEAN]

\* An admission among the last MaxSize that is not older than TTL is still
\* in the cache: neither the cleanup of the front nor the eviction of the
\* oldest item removes a key that a later check must call a duplicate
\* (deduplicator.py:22-29, 45-46).
RecentAdmissionsKept ==
  \A i \in DOMAIN log :
    (Len(log) - i < MaxSize /\ now <= log[i].at + TTL)
      => Live(cache, log[i].key, now)

\* Every answer of check_and_set is the one the deduplication window
\* promises: a key is refused only because of a recent admission, and
\* admitted again only after expiry or MaxSize further admissions
\* (deduplicator.py:31-49).
Window == INSTANCE DedupWindow
ImplementsWindow == Window!WindowSpec
=============================================================================
