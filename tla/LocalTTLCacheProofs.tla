------------------------ MODULE LocalTTLCacheProofs ------------------------
(***************************************************************************)
(* Type correctness of LocalTTLCache, and that it implements DedupWindow,  *)
(* for every set of keys, time to live, size and bound.  The argument: the *)
(* unexpired part of the cache is, item by item, the end of the history of *)
(* admissions, because an expired item of a key can only be popped from in *)
(* front of the unexpired ones and a full cache loses the item in front.   *)
(***************************************************************************)
EXTENDS LocalTTLCache, WellFoundedInduction, SequenceTheorems, TLAPS

Admission == [key : Key, at : Nat]

\* The item an admission puts into the cache.
ItemOf(a) == [key |-> a.key, expiry |-> a.at + TTL]

\* The place d places before the end of a sequence.
FromEnd(s, d) == s[Len(s) - d]

KeysDiffer(c) == \A i, j \in DOMAIN c : c[i].key = c[j].key => i = j

\* Later insertions expire later, and none after a full time to live.
InOrder(c, t) ==
  /\ \A i, j \in DOMAIN c : i <= j => c[i].expiry <= c[j].expiry
  /\ \A i \in DOMAIN c : c[i].expiry <= t + TTL

\* An unexpired item belongs to the admission at the same distance from the
\* end of the history lg ...
ItemsAreAdmissions(c, lg, t) ==
  \A d \in 0..(Len(c) - 1) : FromEnd(c, d).expiry >= t =>
    d < Len(lg) /\ FromEnd(c, d) = ItemOf(FromEnd(lg, d))

\* ... and an unexpired one of the last MaxSize admissions has its item.
AdmissionsAreItems(c, lg, t) ==
  \A d \in 0..(MaxSize - 1) :
    (d < Len(lg) /\ t <= FromEnd(lg, d).at + TTL) =>
      d < Len(c) /\ FromEnd(c, d) = ItemOf(FromEnd(lg, d))

TailOfLog(c, lg, t) ==
  /\ KeysDiffer(c) /\ InOrder(c, t)
  /\ ItemsAreAdmissions(c, lg, t) /\ AdmissionsAreItems(c, lg, t)

IInv == TypeOK /\ TailOfLog(cache, log, now)

----------------------------------------------------------------------------
(* Where _cleanup stops.                                                   *)

LEMMA LeastNatural ==
  ASSUME NEW T \in SUBSET Nat, T # {}
  PROVE  \E x \in T : \A y \in T : x <= y
<1>1. IsWellFoundedOn(OpToRel(<, Nat), Nat)
  BY NatLessThanWellFounded, Zenon
<1>2. PICK R : /\ IsWellFoundedOn(R, Nat)
               /\ \A x, y \in Nat : y < x => <<y, x>> \in R
  <2>1. \A x, y \in Nat : y < x => <<y, x>> \in OpToRel(<, Nat)
    BY DEF OpToRel
  <2>2. QED BY <1>1, <2>1, Zenon
<1>3. PICK x \in T : \A y \in T : ~ (<<y, x>> \in R)
  BY <1>2, WFMin
<1>4. ASSUME NEW y \in T PROVE x <= y
  <2>1. x \in Nat /\ y \in Nat
    OBVIOUS
  <2>2. ~ (y < x)
    BY <2>1, <1>2, <1>3, Zenon
  <2>3. QED BY <2>1, <2>2
<1>5. QED BY <1>4

LEMMA ItemFacts ==
  ASSUME NEW c \in Seq(Item)
  PROVE  /\ Len(c) \in Nat /\ DOMAIN c = 1..Len(c)
         /\ \A i \in 1..Len(c) :
              /\ c[i] \in Item /\ c[i].key \in Key /\ c[i].expiry \in Nat
              /\ c[i] = [key |-> c[i].key, expiry |-> c[i].expiry]
<1>1. /\ Len(c) \in Nat /\ DOMAIN c = 1..Len(c)
      /\ \A i \in 1..Len(c) : c[i] \in Item
  BY LenProperties, ElementOfSeq
<1>2. \A x \in Item : /\ x.key \in Key /\ x.expiry \in Nat
                      /\ x = [key |-> x.key, expiry |-> x.expiry]
  BY DEF Item
<1>3. QED BY <1>1, <1>2

LEMMA LogFacts ==
  ASSUME NEW lg \in Seq(Admission)
  PROVE  /\ Len(lg) \in Nat /\ DOMAIN lg = 1..Len(lg)
         /\ \A i \in 1..Len(lg) : lg[i].key \in Key /\ lg[i].at \in Nat
         /\ \A d \in Nat : d < Len(lg) => FromEnd(lg, d).at \in Nat
<1>1. /\ Len(lg) \in Nat /\ DOMAIN lg = 1..Len(lg)
      /\ \A i \in 1..Len(lg) : lg[i] \in Admission
  BY LenProperties, ElementOfSeq
<1>2. \A x \in Admission : x.key \in Key /\ x.at \in Nat
  BY DEF Admission
<1>3. \A d \in Nat : d < Len(lg) => Len(lg) - d \in 1..Len(lg)
  BY <1>1
<1>4. QED BY <1>1, <1>2, <1>3 DEF FromEnd

\* Cleanup drops the n items in front, all of them expired, and stops at the
\* end or at the first item that has not expired.
LEMMA CleanupDrops ==
  ASSUME NEW c \in Seq(Item), NEW t \in Int
  PROVE  \E n \in 0..Len(c) :
           /\ Cleanup(c, t) = SubSeq(c, n + 1, Len(c))
           /\ \A j \in 1..n : c[j].expiry < t
           /\ n < Len(c) => c[n + 1].expiry >= t
<1> DEFINE kept == {i \in 1..(Len(c) + 1) :
                      \A j \in 1..(i - 1) : c[j].expiry < t}
           IsLast(i) == i \in kept /\ \A j \in kept : j <= i
           behind == {m \in 0..Len(c) : Len(c) + 1 - m \in kept}
<1>0. Len(c) \in Nat /\ \A i \in 1..Len(c) : c[i].expiry \in Nat
  BY ItemFacts
<1>1. Len(c) \in behind
  BY <1>0
<1>2. PICK m \in behind : \A y \in behind : m <= y
  <2>1. behind \in SUBSET Nat /\ behind # {}
    BY <1>1
  <2> HIDE DEF behind
  <2>2. QED BY <2>1, LeastNatural
<1>3. IsLast(Len(c) + 1 - m)
  <2>1. Len(c) + 1 - m \in kept
    BY <1>2
  <2>2. ASSUME NEW j \in kept PROVE j <= Len(c) + 1 - m
    <3>1. Len(c) + 1 - j \in behind
      BY <1>0
    <3>2. m <= Len(c) + 1 - j
      BY <1>2, <3>1
    <3>3. m \in Nat /\ j \in Nat
      BY <1>0
    <3>4. QED BY <1>0, <3>2, <3>3
  <2>3. QED BY <2>1, <2>2
<1>4. PICK first : IsLast(first) /\ Cleanup(c, t) = SubSeq(c, first, Len(c))
  <2>1. Cleanup(c, t) = SubSeq(c, CHOOSE i : IsLast(i), Len(c))
    BY DEF Cleanup
  <2>2. QED BY <1>3, <2>1
<1>5. first \in 1..(Len(c) + 1) /\ \A j \in 1..(first - 1) : c[j].expiry < t
  BY <1>4
<1>6. ASSUME first - 1 < Len(c), ~ (c[first].expiry >= t) PROVE FALSE
  <2>1. first \in 1..Len(c) /\ c[first].expiry < t
    BY <1>0, <1>5, <1>6
  <2>2. first + 1 \in kept
    BY <1>0, <1>5, <2>1
  <2>3. \A j \in kept : j <= first
    BY <1>4
  <2> HIDE DEF kept
  <2>4. first + 1 <= first
    BY <2>2, <2>3
  <2>5. QED BY <1>5, <2>4
<1>7. QED
  <2>1. first - 1 \in 0..Len(c) /\ (first - 1) + 1 = first
    BY <1>0, <1>5
  <2>2. QED BY <1>4, <1>5, <1>6, <2>1

----------------------------------------------------------------------------
(* The operations of the cache on a TailOfLog.                             *)

Caches == {c \in Seq(Item) : Len(c) <= MaxSize}

\* Two sequences have the same d-th item from the end if the first is what
\* is left of the second when n items are dropped from its front.
LEMMA SuffixFacts ==
  ASSUME NEW c \in Seq(Item), NEW n \in 0..Len(c)
  PROVE  LET s == SubSeq(c, n + 1, Len(c))
         IN  /\ s \in Seq(Item) /\ Len(s) = Len(c) - n
             /\ \A i \in 1..Len(s) : s[i] = c[i + n]
             /\ \A d \in 0..(Len(s) - 1) : FromEnd(s, d) = FromEnd(c, d)
<1> DEFINE s == SubSeq(c, n + 1, Len(c))
<1>0. Len(c) \in Nat /\ \A i \in 1..Len(c) : c[i] \in Item
  BY ItemFacts
<1>1. /\ s \in Seq(Item)
      /\ Len(s) = IF n + 1 <= Len(c) THEN Len(c) - (n + 1) + 1 ELSE 0
      /\ \A i \in 1..(Len(c) - (n + 1) + 1) : s[i] = c[(n + 1) + i - 1]
  <2>1. /\ n + 1 \in Int /\ Len(c) \in Int
        /\ \A i \in (n + 1)..Len(c) : c[i] \in Item
    BY <1>0
  <2>2. QED BY <2>1, SubSeqProperties
<1> HIDE DEF s
<1>2. Len(s) = Len(c) - n
  BY <1>0, <1>1
<1>3. ASSUME NEW i \in 1..Len(s) PROVE s[i] = c[i + n]
  <2>1. i \in 1..(Len(c) - (n + 1) + 1) /\ (n + 1) + i - 1 = i + n
    BY <1>0, <1>2
  <2>2. QED BY <1>1, <2>1
<1>4. ASSUME NEW d \in 0..(Len(s) - 1) PROVE FromEnd(s, d) = FromEnd(c, d)
  <2>1. Len(s) - d \in 1..Len(s) /\ (Len(s) - d) + n = Len(c) - d
    BY <1>0, <1>2
  <2>2. QED BY <1>3, <2>1 DEF FromEnd
<1>5. QED BY <1>1, <1>2, <1>3, <1>4 DEF s

\* Dropping expired items from the front disturbs nothing.
LEMMA CleanupKeeps ==
  ASSUME NEW c \in Caches, NEW lg, NEW t \in Nat, TailOfLog(c, lg, t)
  PROVE  /\ Cleanup(c, t) \in Caches
         /\ TailOfLog(Cleanup(c, t), lg, t)
<1>0. c \in Seq(Item) /\ Len(c) <= MaxSize /\ MaxSize \in Nat /\ t \in Int
  BY CacheAssumption DEF Caches
<1>1. PICK n \in 0..Len(c) :
        /\ Cleanup(c, t) = SubSeq(c, n + 1, Len(c))
        /\ \A j \in 1..n : c[j].expiry < t
        /\ n < Len(c) => c[n + 1].expiry >= t
  BY <1>0, CleanupDrops
<1> DEFINE s == Cleanup(c, t)
<1>2. /\ s \in Seq(Item) /\ Len(s) = Len(c) - n
      /\ \A i \in 1..Len(s) : s[i] = c[i + n]
      /\ \A d \in 0..(Len(s) - 1) : FromEnd(s, d) = FromEnd(c, d)
  BY <1>0, <1>1, SuffixFacts
<1>3. /\ Len(c) \in Nat /\ Len(s) \in Nat
      /\ DOMAIN c = 1..Len(c) /\ DOMAIN s = 1..Len(s)
      /\ \A i \in 1..Len(c) : c[i].expiry \in Nat
  BY <1>0, <1>2, ItemFacts
<1> HIDE DEF s
<1>4. s \in Caches
  BY <1>0, <1>2, <1>3 DEF Caches
<1>5. KeysDiffer(s)
  <2> SUFFICES ASSUME NEW i \in 1..Len(s), NEW j \in 1..Len(s),
                      s[i].key = s[j].key
               PROVE  i = j
    BY <1>3 DEF KeysDiffer
  <2>1. /\ i + n \in DOMAIN c /\ j + n \in DOMAIN c
        /\ c[i + n].key = c[j + n].key
    BY <1>2, <1>3
  <2>2. i + n = j + n
    BY <2>1 DEF TailOfLog, KeysDiffer
  <2>3. QED BY <2>2
<1>6. InOrder(s, t)
  <2>1. ASSUME NEW i \in 1..Len(s), NEW j \in 1..Len(s), i <= j
        PROVE  s[i].expiry <= s[j].expiry /\ s[i].expiry <= t + TTL
    <3>1. i + n \in DOMAIN c /\ j + n \in DOMAIN c /\ i + n <= j + n
      BY <1>2, <1>3, <2>1
    <3>2. /\ c[i + n].expiry <= c[j + n].expiry
          /\ c[i + n].expiry <= t + TTL
      BY <3>1 DEF TailOfLog, InOrder
    <3>3. QED BY <1>2, <3>2
  <2>2. ASSUME NEW i \in 1..Len(s) PROVE s[i].expiry <= t + TTL
    <3>1. i <= i
      OBVIOUS
    <3>2. QED BY <2>1, <3>1
  <2>3. QED BY <1>3, <2>1, <2>2 DEF InOrder
<1>7. ItemsAreAdmissions(s, lg, t)
  <2> SUFFICES ASSUME NEW d \in 0..(Len(s) - 1), FromEnd(s, d).expiry >= t
               PROVE  d < Len(lg) /\ FromEnd(s, d) = ItemOf(FromEnd(lg, d))
    BY DEF ItemsAreAdmissions
  <2>1. d \in 0..(Len(c) - 1) /\ FromEnd(s, d) = FromEnd(c, d)
    BY <1>2, <1>3
  <2>2. QED BY <2>1 DEF TailOfLog, ItemsAreAdmissions
<1>8. AdmissionsAreItems(s, lg, t)
  <2> SUFFICES ASSUME NEW d \in 0..(MaxSize - 1), d < Len(lg),
                      t <= FromEnd(lg, d).at + TTL
               PROVE  d < Len(s) /\ FromEnd(s, d) = ItemOf(FromEnd(lg, d))
    BY DEF AdmissionsAreItems
  <2>1. d < Len(c) /\ FromEnd(c, d) = ItemOf(FromEnd(lg, d))
    BY DEF TailOfLog, AdmissionsAreItems
  <2>2. ~ (c[Len(c) - d].expiry < t)
    <3>1. /\ c[Len(c) - d].expiry = FromEnd(lg, d).at + TTL
          /\ c[Len(c) - d].expiry \in Nat
      BY <1>3, <2>1 DEF FromEnd, ItemOf
    <3>2. QED BY <3>1
  <2>3. ~ (Len(c) - d \in 1..n)
    BY <1>1, <2>2
  <2>4. d < Len(s)
    BY <1>2, <1>3, <2>1, <2>3
  <2>5. FromEnd(s, d) = FromEnd(c, d)
    BY <1>2, <1>3, <2>4
  <2>6. QED BY <2>1, <2>4, <2>5
<1>9. QED BY <1>4, <1>5, <1>6, <1>7, <1>8 DEF s, TailOfLog


\* Time passes: fewer items are unexpired, and the rest stays as it is.
LEMMA TimePasses ==
  ASSUME NEW c \in Caches, NEW lg \in Seq(Admission), NEW t \in Nat,
         NEW u \in Nat, t <= u, TailOfLog(c, lg, t)
  PROVE  TailOfLog(c, lg, u)
<1>0. /\ c \in Seq(Item) /\ Len(c) \in Nat /\ DOMAIN c = 1..Len(c)
      /\ \A i \in 1..Len(c) : c[i].expiry \in Nat
      /\ TTL \in Nat
  BY ItemFacts, CacheAssumption DEF Caches
<1>1. InOrder(c, u)
  <2>1. ASSUME NEW i \in DOMAIN c PROVE c[i].expiry <= u + TTL
    <3>1. c[i].expiry <= t + TTL /\ c[i].expiry \in Nat
      BY <1>0 DEF TailOfLog, InOrder
    <3>2. QED BY <1>0, <3>1
  <2>2. QED BY <2>1 DEF TailOfLog, InOrder
<1>2. ItemsAreAdmissions(c, lg, u)
  <2> SUFFICES ASSUME NEW d \in 0..(Len(c) - 1), FromEnd(c, d).expiry >= u
               PROVE  d < Len(lg) /\ FromEnd(c, d) = ItemOf(FromEnd(lg, d))
    BY DEF ItemsAreAdmissions
  <2>1. Len(c) - d \in 1..Len(c)
    BY <1>0
  <2>2. FromEnd(c, d).expiry \in Nat
    BY <1>0, <2>1 DEF FromEnd
  <2>3. FromEnd(c, d).expiry >= t
    BY <2>2
  <2>4. QED BY <2>3 DEF TailOfLog, ItemsAreAdmissions
<1>3. AdmissionsAreItems(c, lg, u)
  <2> SUFFICES ASSUME NEW d \in 0..(MaxSize - 1), d < Len(lg),
                      u <= FromEnd(lg, d).at + TTL
               PROVE  d < Len(c) /\ FromEnd(c, d) = ItemOf(FromEnd(lg, d))
    BY DEF AdmissionsAreItems
  <2>1. FromEnd(lg, d).at \in Nat
    BY LogFacts, CacheAssumption
  <2>2. t <= FromEnd(lg, d).at + TTL
    BY <1>0, <2>1
  <2>3. QED BY <2>2 DEF TailOfLog, AdmissionsAreItems
<1>4. QED BY <1>1, <1>2, <1>3 DEF TailOfLog

\* The promise of the window, for a history lg.
Recent(lg, k, t) ==
  \E i \in DOMAIN lg : /\ lg[i].key = k
                       /\ t <= lg[i].at + TTL
                       /\ Len(lg) - i < MaxSize

\* At is the only position of its key.
LEMMA AtFacts ==
  ASSUME NEW c, KeysDiffer(c), NEW k, HasKey(c, k)
  PROVE  /\ At(c, k) \in DOMAIN c /\ c[At(c, k)].key = k
         /\ \A i \in DOMAIN c : c[i].key = k => i = At(c, k)
<1>1. At(c, k) \in DOMAIN c /\ c[At(c, k)].key = k
  BY DEF At, HasKey
<1>2. QED BY <1>1 DEF KeysDiffer

\* The cache answers as the window does.
LEMMA LiveIsRecent ==
  ASSUME NEW c \in Caches, NEW lg \in Seq(Admission), NEW t \in Nat,
         TailOfLog(c, lg, t), NEW k
  PROVE  Live(c, k, t) <=> Recent(lg, k, t)
<1>0. /\ c \in Seq(Item) /\ Len(c) \in Nat /\ DOMAIN c = 1..Len(c)
      /\ Len(c) <= MaxSize /\ MaxSize \in Nat
      /\ Len(lg) \in Nat /\ DOMAIN lg = 1..Len(lg)
      /\ KeysDiffer(c) /\ TTL \in Nat
  BY ItemFacts, LogFacts, CacheAssumption DEF Caches, TailOfLog
<1>1. ASSUME Live(c, k, t) PROVE Recent(lg, k, t)
  <2> DEFINE p == At(c, k)
             d == Len(c) - p
             i == Len(lg) - d
  <2>1. p \in 1..Len(c) /\ c[p].key = k /\ c[p].expiry >= t
    BY <1>0, <1>1, AtFacts DEF Live
  <2>2. d \in 0..(Len(c) - 1) /\ FromEnd(c, d) = c[p]
    BY <1>0, <2>1 DEF FromEnd
  <2>3. d < Len(lg) /\ c[p] = ItemOf(lg[i])
    BY <2>1, <2>2 DEF TailOfLog, ItemsAreAdmissions, FromEnd
  <2>4. i \in DOMAIN lg /\ Len(lg) - i = d /\ d < MaxSize
    BY <1>0, <2>2, <2>3
  <2>5. lg[i].key = k /\ lg[i].at + TTL >= t
    BY <2>1, <2>3 DEF ItemOf
  <2>6. lg[i].at \in Nat
    BY <2>4, LogFacts
  <2>7. t <= lg[i].at + TTL
    BY <1>0, <2>5, <2>6
  <2>8. QED BY <2>4, <2>5, <2>7 DEF Recent
<1>2. ASSUME Recent(lg, k, t) PROVE Live(c, k, t)
  <2>1. PICK i \in 1..Len(lg) : /\ lg[i].key = k
                                /\ t <= lg[i].at + TTL
                                /\ Len(lg) - i < MaxSize
    BY <1>0, <1>2 DEF Recent
  <2> DEFINE d == Len(lg) - i
             p == Len(c) - d
  <2>2. d \in 0..(MaxSize - 1) /\ d < Len(lg) /\ FromEnd(lg, d) = lg[i]
    BY <1>0, <2>1 DEF FromEnd
  <2>3. d < Len(c) /\ c[p] = ItemOf(lg[i])
    BY <2>1, <2>2 DEF TailOfLog, AdmissionsAreItems, FromEnd
  <2>4. p \in DOMAIN c
    BY <1>0, <2>2, <2>3
  <2>5. c[p].key = k /\ c[p].expiry = lg[i].at + TTL
    BY <2>1, <2>3 DEF ItemOf
  <2>6. lg[i].at \in Nat
    BY <2>1, LogFacts
  <2>7. c[p].expiry >= t
    BY <1>0, <2>1, <2>5, <2>6
  <2>8. HasKey(c, k) /\ p = At(c, k)
    BY <1>0, <2>4, <2>5, AtFacts DEF HasKey
  <2>9. QED BY <2>7, <2>8 DEF Live
<1>3. QED BY <1>1, <1>2

\* Taking an item out of the middle.
LEMMA WithoutFacts ==
  ASSUME NEW c \in Seq(Item), NEW q \in 1..Len(c)
  PROVE  /\ Without(c, q) \in Seq(Item) /\ Len(Without(c, q)) = Len(c) - 1
         /\ \A i \in 1..(Len(c) - 1) :
              Without(c, q)[i] = IF i < q THEN c[i] ELSE c[i + 1]
<1> DEFINE front == SubSeq(c, 1, q - 1)
           back == SubSeq(c, q + 1, Len(c))
<1>0. Len(c) \in Nat /\ \A i \in 1..Len(c) : c[i] \in Item
  BY ItemFacts
<1>1. /\ front \in Seq(Item) /\ Len(front) = q - 1
      /\ \A i \in 1..(q - 1) : front[i] = c[i]
  <2>1. /\ 1 \in Int /\ q - 1 \in Int
        /\ \A i \in 1..(q - 1) : c[i] \in Item
    BY <1>0
  <2>2. /\ front \in Seq(Item)
        /\ Len(front) = IF 1 <= q - 1 THEN (q - 1) - 1 + 1 ELSE 0
        /\ \A i \in 1..((q - 1) - 1 + 1) : front[i] = c[1 + i - 1]
    BY <2>1, SubSeqProperties
  <2> HIDE DEF front
  <2>3. \A i \in 1..(q - 1) : 1 + i - 1 = i /\ i \in 1..((q - 1) - 1 + 1)
    BY <1>0
  <2>4. QED BY <1>0, <2>2, <2>3
<1>2. /\ back \in Seq(Item) /\ Len(back) = Len(c) - q
      /\ \A i \in 1..(Len(c) - q) : back[i] = c[i + q]
  BY <1>0, SuffixFacts
<1>3. /\ front \o back \in Seq(Item)
      /\ Len(front \o back) = Len(front) + Len(back)
      /\ \A i \in 1..(Len(front) + Len(back)) :
           (front \o back)[i] = IF i <= Len(front) THEN front[i]
                                ELSE back[i - Len(front)]
  BY <1>1, <1>2, ConcatProperties
<1> HIDE DEF front, back
<1>4. Len(front) + Len(back) = Len(c) - 1
  BY <1>0, <1>1, <1>2
<1>5. ASSUME NEW i \in 1..(Len(c) - 1)
      PROVE  (front \o back)[i] = IF i < q THEN c[i] ELSE c[i + 1]
  <2>1. (front \o back)[i] = IF i <= q - 1 THEN front[i]
                             ELSE back[i - (q - 1)]
    BY <1>1, <1>3, <1>4
  <2>2. CASE i < q
    <3>1. i \in 1..(q - 1)
      BY <1>0, <2>2
    <3>2. QED BY <1>1, <2>1, <2>2, <3>1
  <2>3. CASE ~ (i < q)
    <3>1. /\ i - (q - 1) \in 1..(Len(c) - q)
          /\ (i - (q - 1)) + q = i + 1 /\ ~ (i <= q - 1)
      BY <1>0, <2>3
    <3>2. QED BY <1>2, <2>1, <2>3, <3>1
  <2>4. QED BY <2>2, <2>3
<1>6. Without(c, q) = front \o back
  BY DEF Without, front, back
<1>7. QED BY <1>3, <1>4, <1>5, <1>6

\* Popping an expired item disturbs nothing: whatever is unexpired lies
\* behind it.
LEMMA PopKeeps ==
  ASSUME NEW c \in Caches, NEW lg, NEW t \in Nat, TailOfLog(c, lg, t),
         NEW q \in 1..Len(c), c[q].expiry < t
  PROVE  Without(c, q) \in Caches /\ TailOfLog(Without(c, q), lg, t)
<1> DEFINE s == Without(c, q)
           Old(i) == IF i < q THEN i ELSE i + 1
<1>0. /\ c \in Seq(Item) /\ Len(c) \in Nat /\ DOMAIN c = 1..Len(c)
      /\ Len(c) <= MaxSize /\ MaxSize \in Nat
      /\ \A i \in 1..Len(c) : c[i].expiry \in Nat
  BY ItemFacts, CacheAssumption DEF Caches
<1>1. /\ s \in Seq(Item) /\ Len(s) = Len(c) - 1
      /\ \A i \in 1..Len(s) : s[i] = c[Old(i)]
  <2>1. /\ s \in Seq(Item) /\ Len(s) = Len(c) - 1
        /\ \A i \in 1..(Len(c) - 1) : s[i] = IF i < q THEN c[i] ELSE c[i + 1]
    BY <1>0, WithoutFacts
  <2> HIDE DEF s
  <2>2. QED BY <2>1
<1>2. /\ \A i \in 1..Len(s) : Old(i) \in 1..Len(c) /\ Old(i) # q
      /\ \A i, j \in 1..Len(s) : /\ Old(i) = Old(j) => i = j
                                 /\ i <= j => Old(i) <= Old(j)
  BY <1>0, <1>1
<1>3. Len(s) \in Nat /\ DOMAIN s = 1..Len(s) /\ s \in Caches
  BY <1>0, <1>1, ItemFacts DEF Caches
<1>4. Len(c) \in Nat /\ Len(s) \in Nat /\ Len(s) = Len(c) - 1 /\ q \in Nat
  BY <1>1, <1>3, <1>0
<1> HIDE DEF s, Old
<1>5. KeysDiffer(s)
  <2> SUFFICES ASSUME NEW i \in 1..Len(s), NEW j \in 1..Len(s),
                      s[i].key = s[j].key
               PROVE  i = j
    BY <1>3 DEF KeysDiffer
  <2>1. /\ Old(i) \in DOMAIN c /\ Old(j) \in DOMAIN c
        /\ c[Old(i)].key = c[Old(j)].key
    BY <1>0, <1>1, <1>2
  <2>2. Old(i) = Old(j)
    BY <2>1 DEF TailOfLog, KeysDiffer
  <2>3. QED BY <1>2, <2>2
<1>6. InOrder(s, t)
  <2>1. ASSUME NEW i \in 1..Len(s), NEW j \in 1..Len(s), i <= j
        PROVE  s[i].expiry <= s[j].expiry
    <3>1. Old(i) \in DOMAIN c /\ Old(j) \in DOMAIN c /\ Old(i) <= Old(j)
      BY <1>0, <1>2, <2>1
    <3>2. c[Old(i)].expiry <= c[Old(j)].expiry
      BY <3>1 DEF TailOfLog, InOrder
    <3>3. QED BY <1>1, <3>2
  <2>2. ASSUME NEW i \in 1..Len(s) PROVE s[i].expiry <= t + TTL
    <3>1. Old(i) \in DOMAIN c
      BY <1>0, <1>2
    <3>2. c[Old(i)].expiry <= t + TTL
      BY <3>1 DEF TailOfLog, InOrder
    <3>3. QED BY <1>1, <3>2
  <2>3. QED BY <1>3, <2>1, <2>2 DEF InOrder
<1>7. \A i \in 1..Len(c) : c[i].expiry >= t => i > q
  <2> SUFFICES ASSUME NEW i \in 1..Len(c), c[i].expiry >= t, i <= q
               PROVE  FALSE
    BY <1>0
  <2>1. c[i].expiry <= c[q].expiry
    BY <1>0 DEF TailOfLog, InOrder
  <2>2. QED BY <1>0, <2>1
<1>8. ASSUME NEW d \in 0..(Len(c) - 1), FromEnd(c, d).expiry >= t
      PROVE  d < Len(s) /\ FromEnd(s, d) = FromEnd(c, d)
  <2>1. Len(c) - d \in 1..Len(c) /\ Len(c) - d > q
    BY <1>0, <1>7, <1>8 DEF FromEnd
  <2>2. Len(s) - d \in 1..Len(s) /\ Old(Len(s) - d) = Len(c) - d
    BY <1>4, <2>1 DEF Old
  <2>3. s[Len(s) - d] = c[Len(c) - d]
    BY <1>1, <2>2
  <2>4. QED BY <1>4, <2>2, <2>3 DEF FromEnd
<1>9. ASSUME NEW d \in 0..(Len(s) - 1), FromEnd(s, d).expiry >= t
      PROVE  d \in 0..(Len(c) - 1) /\ FromEnd(s, d) = FromEnd(c, d)
  <2>1. Len(s) - d \in 1..Len(s)
    BY <1>3
  <2>2. Old(Len(s) - d) > q
    BY <1>1, <1>2, <1>7, <1>9, <2>1 DEF FromEnd
  <2>3. Old(Len(s) - d) = Len(c) - d
    BY <1>4, <2>1, <2>2 DEF Old
  <2>4. s[Len(s) - d] = c[Len(c) - d]
    BY <1>1, <2>1, <2>3
  <2>5. QED BY <1>4, <2>4 DEF FromEnd
<1>10. ItemsAreAdmissions(s, lg, t)
  <2> SUFFICES ASSUME NEW d \in 0..(Len(s) - 1), FromEnd(s, d).expiry >= t
               PROVE  d < Len(lg) /\ FromEnd(s, d) = ItemOf(FromEnd(lg, d))
    BY DEF ItemsAreAdmissions
  <2>1. d \in 0..(Len(c) - 1) /\ FromEnd(s, d) = FromEnd(c, d)
    BY <1>9
  <2>2. QED BY <2>1 DEF TailOfLog, ItemsAreAdmissions
<1>11. AdmissionsAreItems(s, lg, t)
  <2> SUFFICES ASSUME NEW d \in 0..(MaxSize - 1), d < Len(lg),
                      t <= FromEnd(lg, d).at + TTL
               PROVE  d < Len(s) /\ FromEnd(s, d) = ItemOf(FromEnd(lg, d))
    BY DEF AdmissionsAreItems
  <2>1. d < Len(c) /\ FromEnd(c, d) = ItemOf(FromEnd(lg, d))
    BY DEF TailOfLog, AdmissionsAreItems
  <2>2. d \in 0..(Len(c) - 1) /\ FromEnd(c, d).expiry >= t
    <3>1. FromEnd(c, d).expiry = FromEnd(lg, d).at + TTL
      BY <2>1 DEF ItemOf
    <3>2. FromEnd(c, d).expiry \in Nat
      BY <1>0, <2>1 DEF FromEnd
    <3>3. QED BY <1>0, <2>1, <3>1, <3>2
  <2>3. QED BY <1>8, <2>1, <2>2
<1>12. QED BY <1>3, <1>5, <1>6, <1>10, <1>11 DEF s, TailOfLog

LEMMA DropExpiredKeeps ==
  ASSUME NEW c \in Caches, NEW lg, NEW t \in Nat, TailOfLog(c, lg, t), NEW k,
         ~ Live(c, k, t)
  PROVE  /\ DropExpired(c, k) \in Caches
         /\ TailOfLog(DropExpired(c, k), lg, t)
         /\ ~ HasKey(DropExpired(c, k), k)
<1>0. /\ c \in Seq(Item) /\ Len(c) \in Nat /\ DOMAIN c = 1..Len(c)
      /\ \A i \in 1..Len(c) : c[i].expiry \in Nat
      /\ KeysDiffer(c)
  BY ItemFacts DEF Caches, TailOfLog
<1>1. CASE ~ HasKey(c, k)
  BY <1>1 DEF DropExpired
<1>2. CASE HasKey(c, k)
  <2> DEFINE q == At(c, k)
  <2>1. /\ q \in 1..Len(c) /\ c[q].key = k
        /\ \A i \in DOMAIN c : c[i].key = k => i = q
    BY <1>0, <1>2, AtFacts
  <2>2. c[q].expiry < t
    BY <1>0, <1>2, <2>1 DEF Live
  <2>3. DropExpired(c, k) = Without(c, q)
    BY <1>2 DEF DropExpired
  <2> HIDE DEF q
  <2>4. Without(c, q) \in Caches /\ TailOfLog(Without(c, q), lg, t)
    BY <2>1, <2>2, PopKeeps
  <2>5. ~ HasKey(Without(c, q), k)
    <3>1. /\ DOMAIN Without(c, q) = 1..(Len(c) - 1)
          /\ \A i \in 1..(Len(c) - 1) :
               Without(c, q)[i] = IF i < q THEN c[i] ELSE c[i + 1]
      BY <1>0, <2>1, WithoutFacts, ItemFacts
    <3>2. \A i \in 1..(Len(c) - 1) :
            /\ i \in DOMAIN c /\ i + 1 \in DOMAIN c
            /\ i < q => i # q
            /\ ~ (i < q) => i + 1 # q
      BY <1>0, <2>1
    <3>3. ASSUME NEW i \in 1..(Len(c) - 1), Without(c, q)[i].key = k
          PROVE  FALSE
      BY <2>1, <3>1, <3>2, <3>3
    <3>4. QED BY <3>1, <3>3 DEF HasKey
  <2>6. QED BY <2>3, <2>4, <2>5
<1>3. QED BY <1>1, <1>2

\* Making room drops at most the item in front, which then lies MaxSize
\* places from the end.
LEMMA MakeRoomFacts ==
  ASSUME NEW c \in Caches
  PROVE  \E n \in 0..Len(c) :
           /\ MakeRoom(c) = SubSeq(c, n + 1, Len(c))
           /\ Len(c) - n < MaxSize
           /\ n = 0 \/ Len(c) - n = MaxSize - 1
<1>0. /\ c \in Seq(Item) /\ Len(c) \in Nat /\ Len(c) <= MaxSize
      /\ MaxSize \in Nat \ {0}
  BY ItemFacts, CacheAssumption DEF Caches
<1>1. CASE Len(c) >= MaxSize
  <2>1. c # <<>>
    BY <1>0, <1>1
  <2>2. MakeRoom(c) = SubSeq(c, 1 + 1, Len(c))
    BY <1>0, <1>1, <2>1, TailIsSubSeq DEF MakeRoom
  <2>3. 1 \in 0..Len(c) /\ Len(c) - 1 < MaxSize /\ Len(c) - 1 = MaxSize - 1
    BY <1>0, <1>1
  <2>4. QED BY <2>2, <2>3
<1>2. CASE ~ (Len(c) >= MaxSize)
  <2>1. MakeRoom(c) = SubSeq(c, 0 + 1, Len(c))
    BY <1>0, <1>2, SubSeqFull DEF MakeRoom
  <2>2. 0 \in 0..Len(c) /\ Len(c) - 0 < MaxSize
    BY <1>0, <1>2
  <2>3. QED BY <2>1, <2>2
<1>3. QED BY <1>1, <1>2

\* An admission appends to both the cache and the history.
LEMMA AdmissionKeeps ==
  ASSUME NEW c \in Caches, NEW lg \in Seq(Admission), NEW t \in Nat,
         NEW k \in Key, TailOfLog(c, lg, t), ~ HasKey(c, k)
  PROVE  LET s == Insert(MakeRoom(c), k, t)
         IN  s \in Caches /\ TailOfLog(s, Append(lg, [key |-> k, at |-> t]), t)
<1> DEFINE m == MakeRoom(c)
           new == [key |-> k, expiry |-> t + TTL]
           s == Append(m, new)
           a == [key |-> k, at |-> t]
           h == Append(lg, a)
<1>0. /\ c \in Seq(Item) /\ Len(c) \in Nat /\ DOMAIN c = 1..Len(c)
      /\ Len(c) <= MaxSize /\ MaxSize \in Nat \ {0} /\ TTL \in Nat
      /\ \A i \in 1..Len(c) : c[i].expiry \in Nat
  BY ItemFacts, CacheAssumption DEF Caches
<1>1. PICK n \in 0..Len(c) :
        /\ m = SubSeq(c, n + 1, Len(c))
        /\ Len(c) - n < MaxSize
        /\ n = 0 \/ Len(c) - n = MaxSize - 1
  BY MakeRoomFacts
<1>2. /\ m \in Seq(Item) /\ Len(m) = Len(c) - n
      /\ \A i \in 1..Len(m) : m[i] = c[i + n]
  <2> DEFINE sub == SubSeq(c, n + 1, Len(c))
  <2>1. /\ sub \in Seq(Item) /\ Len(sub) = Len(c) - n
        /\ \A i \in 1..Len(sub) : sub[i] = c[i + n]
    BY <1>0, SuffixFacts
  <2>2. m = sub
    BY <1>1
  <2> HIDE DEF m, sub
  <2>3. QED BY <2>1, <2>2
<1>3. new \in Item /\ a \in Admission
  BY <1>0 DEF Item, Admission
<1> HIDE DEF m
<1>4. /\ s \in Seq(Item) /\ Len(s) = Len(m) + 1
      /\ \A i \in 1..Len(m) : s[i] = m[i]
      /\ s[Len(m) + 1] = new
  BY <1>2, <1>3, AppendProperties
<1>5. /\ h \in Seq(Admission) /\ Len(h) = Len(lg) + 1 /\ Len(lg) \in Nat
      /\ \A i \in 1..Len(lg) : h[i] = lg[i]
      /\ h[Len(lg) + 1] = a
  BY <1>3, AppendProperties, LogFacts
<1>6. /\ new.key = k /\ new.expiry = t + TTL /\ new = ItemOf(a)
      /\ a.key = k /\ a.at = t
  BY DEF ItemOf
<1> HIDE DEF s, h, new, a
<1>7. /\ Len(m) \in Nat /\ Len(s) = Len(m) + 1 /\ Len(m) = Len(c) - n
      /\ n \in Nat /\ Len(m) < MaxSize
      /\ n = 0 \/ Len(m) = MaxSize - 1
      /\ Len(s) \in Nat /\ DOMAIN s = 1..Len(s)
  <2>1. /\ Len(m) \in Nat /\ Len(s) \in Nat
        /\ DOMAIN s = 1..Len(s)
    BY <1>2, <1>4, ItemFacts
  <2>2. Len(s) = Len(m) + 1 /\ Len(m) = Len(c) - n
    BY <1>2, <1>4
  <2>3. n \in Nat /\ Len(m) < MaxSize /\ (n = 0 \/ Len(m) = MaxSize - 1)
    <3>1. Len(c) - n < MaxSize /\ (n = 0 \/ Len(c) - n = MaxSize - 1)
      BY <1>1
    <3>2. n \in Nat
      BY <1>0
    <3>3. QED BY <2>2, <3>1, <3>2
  <2>4. QED BY <2>1, <2>2, <2>3
<1>8. s \in Caches
  BY <1>0, <1>4, <1>7 DEF Caches
<1>9. /\ \A i \in 1..Len(m) : i + n \in 1..Len(c) /\ s[i] = c[i + n]
      /\ s[Len(s)] = new
  <2>1. \A i \in 1..Len(m) : i + n \in 1..Len(c)
    BY <1>0, <1>7
  <2>2. QED BY <1>2, <1>4, <1>7, <2>1
<1>10. KeysDiffer(s)
  <2> SUFFICES ASSUME NEW i \in 1..Len(s), NEW j \in 1..Len(s),
                      s[i].key = s[j].key
               PROVE  i = j
    BY <1>7 DEF KeysDiffer
  <2>1. \A l \in 1..Len(m) : s[l].key # k
    BY <1>0, <1>9 DEF HasKey
  <2>2. CASE i \in 1..Len(m) /\ j \in 1..Len(m)
    <3>1. /\ i + n \in DOMAIN c /\ j + n \in DOMAIN c
          /\ c[i + n].key = c[j + n].key
      BY <1>0, <1>9, <2>2
    <3>2. i + n = j + n
      BY <3>1 DEF TailOfLog, KeysDiffer
    <3>3. QED BY <1>7, <3>2
  <2>3. CASE i \notin 1..Len(m)
    <3>1. i = Len(s)
      BY <1>7, <2>3
    <3>2. j \notin 1..Len(m)
      BY <1>6, <1>9, <2>1, <3>1
    <3>3. QED BY <1>7, <3>1, <3>2
  <2>4. CASE j \notin 1..Len(m)
    <3>1. j = Len(s)
      BY <1>7, <2>4
    <3>2. i \notin 1..Len(m)
      BY <1>6, <1>9, <2>1, <3>1
    <3>3. QED BY <1>7, <3>1, <3>2
  <2>5. QED BY <2>2, <2>3, <2>4
<1>11. InOrder(s, t)
  <2>1. ASSUME NEW i \in 1..Len(m)
        PROVE  s[i].expiry <= t + TTL
    <3>1. i + n \in DOMAIN c
      BY <1>0, <1>9
    <3>2. c[i + n].expiry <= t + TTL
      BY <3>1 DEF TailOfLog, InOrder
    <3>3. QED BY <1>9, <3>2
  <2>2. ASSUME NEW i \in 1..Len(s) PROVE s[i].expiry <= t + TTL
    <3>1. CASE i \in 1..Len(m)
      BY <2>1, <3>1
    <3>2. CASE i \notin 1..Len(m)
      <4>1. i = Len(s) /\ t + TTL <= t + TTL
        BY <1>0, <1>7, <3>2
      <4>2. QED BY <1>6, <1>9, <4>1
    <3>3. QED BY <3>1, <3>2
  <2>3. ASSUME NEW i \in 1..Len(s), NEW j \in 1..Len(s), i <= j
        PROVE  s[i].expiry <= s[j].expiry
    <3>1. CASE j \in 1..Len(m)
      <4>1. i \in 1..Len(m)
        BY <1>7, <2>3, <3>1
      <4>2. i + n \in DOMAIN c /\ j + n \in DOMAIN c /\ i + n <= j + n
        BY <1>0, <1>7, <1>9, <2>3, <3>1, <4>1
      <4>3. c[i + n].expiry <= c[j + n].expiry
        BY <4>2 DEF TailOfLog, InOrder
      <4>4. QED BY <1>9, <3>1, <4>1, <4>3
    <3>2. CASE j \notin 1..Len(m)
      <4>1. j = Len(s)
        BY <1>7, <3>2
      <4>2. QED BY <1>6, <1>9, <2>2, <4>1
    <3>3. QED BY <3>1, <3>2
  <2>4. QED BY <1>7, <2>2, <2>3 DEF InOrder
<1>12. FromEnd(s, 0) = ItemOf(FromEnd(h, 0))
  BY <1>4, <1>5, <1>6, <1>7 DEF FromEnd
<1>13. ASSUME NEW d \in 1..(Len(s) - 1)
       PROVE  d - 1 \in 0..(Len(c) - 1) /\ FromEnd(s, d) = FromEnd(c, d - 1)
  <2>1. /\ Len(s) - d \in 1..Len(m)
        /\ (Len(s) - d) + n = Len(c) - (d - 1) /\ d - 1 \in 0..(Len(c) - 1)
    BY <1>0, <1>7
  <2>2. QED BY <1>9, <2>1 DEF FromEnd
<1>14. ASSUME NEW d \in 1..Len(lg)
       PROVE  FromEnd(h, d) = FromEnd(lg, d - 1)
  <2>1. Len(h) - d \in 1..Len(lg) /\ Len(h) - d = Len(lg) - (d - 1)
    BY <1>5
  <2>2. QED BY <1>5, <2>1 DEF FromEnd
<1>15. ItemsAreAdmissions(s, h, t)
  <2> SUFFICES ASSUME NEW d \in 0..(Len(s) - 1), FromEnd(s, d).expiry >= t
               PROVE  d < Len(h) /\ FromEnd(s, d) = ItemOf(FromEnd(h, d))
    BY DEF ItemsAreAdmissions
  <2>1. CASE d = 0
    BY <1>5, <1>12, <2>1
  <2>2. CASE d # 0
    <3>1. d \in 1..(Len(s) - 1)
      BY <1>7, <2>2
    <3>2. /\ d - 1 < Len(lg)
          /\ FromEnd(c, d - 1) = ItemOf(FromEnd(lg, d - 1))
      BY <1>13, <3>1 DEF TailOfLog, ItemsAreAdmissions
    <3>3. d \in 1..Len(lg) /\ d < Len(h)
      BY <1>5, <3>1, <3>2
    <3>4. QED BY <1>13, <1>14, <3>1, <3>2, <3>3
  <2>3. QED BY <2>1, <2>2
<1>16. AdmissionsAreItems(s, h, t)
  <2> SUFFICES ASSUME NEW d \in 0..(MaxSize - 1), d < Len(h),
                      t <= FromEnd(h, d).at + TTL
               PROVE  d < Len(s) /\ FromEnd(s, d) = ItemOf(FromEnd(h, d))
    BY DEF AdmissionsAreItems
  <2>1. CASE d = 0
    BY <1>7, <1>12, <2>1
  <2>2. CASE d # 0
    <3>1. d \in 1..Len(lg) /\ d - 1 < Len(lg)
          /\ d - 1 \in 0..(MaxSize - 1)
      BY <1>0, <1>5, <2>2
    <3>2. FromEnd(h, d) = FromEnd(lg, d - 1)
      BY <1>14, <3>1
    <3>3. /\ d - 1 < Len(c)
          /\ FromEnd(c, d - 1) = ItemOf(FromEnd(lg, d - 1))
      BY <3>1, <3>2 DEF TailOfLog, AdmissionsAreItems
    <3>4. d \in 1..(Len(s) - 1) /\ d < Len(s)
      BY <1>0, <1>7, <2>2, <3>3
    <3>5. QED BY <1>13, <3>2, <3>3, <3>4
  <2>3. QED BY <2>1, <2>2
<1>17. s = Insert(MakeRoom(c), k, t)
  BY DEF s, m, new, Insert
<1>18. QED
  BY <1>8, <1>10, <1>11, <1>15, <1>16, <1>17 DEF TailOfLog, h, a

----------------------------------------------------------------------------
(* The invariant.                                                          *)

LEMMA CachesType == TypeOK => cache \in Caches /\ log \in Seq(Admission)
BY DEF TypeOK, OneItemPerKey, Caches, Admission

\* What a check leaves behind, whichever way it ends.
LEMMA CheckKeeps ==
  ASSUME IInv, NEW k \in Key, CheckAndSet(k)
  PROVE  /\ IInv'
         /\ now <= now' /\ now' \in 0..MaxTime
         /\ \/ Recent(log, k, now') /\ verdict' = [key |-> k, fresh |-> FALSE]
               /\ log' = log
            \/ ~ Recent(log, k, now') /\ verdict' = [key |-> k, fresh |-> TRUE]
               /\ log' = Append(log, [key |-> k, at |-> now'])
<1> DEFINE cleaned == Cleanup(cache, now)
<1>1. /\ cache \in Caches /\ log \in Seq(Admission) /\ now \in 0..MaxTime
      /\ MaxTime \in Nat /\ now \in Nat
      /\ TailOfLog(cache, log, now)
  BY CachesType, CacheAssumption DEF IInv, TypeOK
<1>2. PICK t \in now..MaxTime : now' = t /\ (CheckDuplicate(k, t) \/ CheckFresh(k, t))
  BY DEF CheckAndSet
<1>3. t \in Nat /\ now <= t /\ t \in 0..MaxTime
  BY <1>1, <1>2
<1>4. cleaned \in Caches /\ TailOfLog(cleaned, log, t)
  BY <1>1, <1>3, CleanupKeeps, TimePasses
<1>5. Live(cleaned, k, t) <=> Recent(log, k, t)
  BY <1>1, <1>3, <1>4, LiveIsRecent
<1> HIDE DEF cleaned
<1>6. CASE CheckDuplicate(k, t)
  <2>1. /\ Live(cleaned, k, t) /\ cache' = cleaned
        /\ verdict' = [key |-> k, fresh |-> FALSE] /\ log' = log
    BY <1>6 DEF CheckDuplicate, cleaned
  <2>2. TypeOK' /\ TailOfLog(cache', log', now')
    BY <1>1, <1>2, <1>3, <1>4, <2>1
    DEF IInv, TypeOK, OneItemPerKey, Caches, TailOfLog, KeysDiffer
  <2>3. QED BY <1>2, <1>3, <1>5, <2>1, <2>2 DEF IInv
<1>7. CASE CheckFresh(k, t)
  <2> DEFINE s == Insert(MakeRoom(DropExpired(cleaned, k)), k, t)
  <2>1. /\ ~ Live(cleaned, k, t) /\ cache' = s
        /\ verdict' = [key |-> k, fresh |-> TRUE]
        /\ log' = Append(log, [key |-> k, at |-> t])
    BY <1>7 DEF CheckFresh, cleaned
  <2>2. /\ DropExpired(cleaned, k) \in Caches
        /\ TailOfLog(DropExpired(cleaned, k), log, t)
        /\ ~ HasKey(DropExpired(cleaned, k), k)
    BY <1>3, <1>4, <2>1, DropExpiredKeeps
  <2>3. s \in Caches /\ TailOfLog(s, log', t)
    BY <1>1, <1>3, <2>1, <2>2, AdmissionKeeps
  <2> HIDE DEF s
  <2>4. log' \in Seq(Admission)
    <3>1. [key |-> k, at |-> t] \in Admission
      BY <1>3 DEF Admission
    <3>2. QED BY <1>1, <2>1, <3>1, AppendProperties
  <2>5. TypeOK' /\ TailOfLog(cache', log', now')
    BY <1>2, <1>3, <2>1, <2>3, <2>4
    DEF TypeOK, OneItemPerKey, Caches, TailOfLog, KeysDiffer, Admission
  <2>6. QED BY <1>2, <1>3, <1>5, <2>1, <2>5 DEF IInv
<1>8. QED BY <1>2, <1>6, <1>7

LEMMA IInvInit == Init => IInv
<1> SUFFICES ASSUME Init PROVE IInv
  OBVIOUS
<1>1. TypeOK
  BY CacheAssumption DEF Init, TypeOK, OneItemPerKey
<1>2. TailOfLog(cache, log, now)
  BY CacheAssumption
  DEF Init, TailOfLog, KeysDiffer, InOrder, ItemsAreAdmissions,
      AdmissionsAreItems
<1>3. QED BY <1>1, <1>2 DEF IInv

LEMMA IInvStep == IInv /\ [Next]_vars => IInv'
<1> SUFFICES ASSUME IInv, [Next]_vars PROVE IInv'
  OBVIOUS
<1>1. CASE UNCHANGED vars
  BY <1>1 DEF vars, IInv, TypeOK, OneItemPerKey, TailOfLog
<1>2. CASE Tick
  <2>1. /\ cache \in Caches /\ log \in Seq(Admission)
        /\ TailOfLog(cache, log, now)
        /\ now \in Nat /\ now + 1 \in Nat /\ now <= now + 1
        /\ now + 1 \in 0..MaxTime
    BY <1>2, CachesType, CacheAssumption DEF IInv, TypeOK, Tick
  <2>2. TailOfLog(cache, log, now + 1)
    BY <2>1, TimePasses
  <2>3. QED BY <1>2, <2>1, <2>2 DEF Tick, IInv, TypeOK, OneItemPerKey
<1>3. ASSUME NEW k \in Key, CheckAndSet(k) PROVE IInv'
  BY <1>3, CheckKeeps
<1>4. QED BY <1>1, <1>2, <1>3 DEF Next

----------------------------------------------------------------------------
(* The theorems.                                                           *)

\* The unexpired part of the cache is the end of the history of admissions.
THEOREM CacheIsTailOfLog == Spec => []IInv
<1>1. QED BY IInvInit, IInvStep, PTL DEF Spec

\* The cache is well formed, has one item per key and at most MaxSize.
THEOREM TypeCorrect == Spec => []TypeOK
<1>1. IInv => TypeOK
  BY DEF IInv
<1>2. QED BY <1>1, CacheIsTailOfLog, PTL

\* Whatever is expired, popped or evicted, an admission among the last
\* MaxSize that is not older than TTL is still a hit.
THEOREM RecentAdmissionsStay == Spec => []RecentAdmissionsKept
<1>1. IInv => RecentAdmissionsKept
  <2> SUFFICES ASSUME IInv, NEW i \in DOMAIN log,
                      Len(log) - i < MaxSize, now <= log[i].at + TTL
               PROVE  Live(cache, log[i].key, now)
    BY DEF RecentAdmissionsKept
  <2>1. /\ cache \in Caches /\ log \in Seq(Admission) /\ now \in Nat
        /\ TailOfLog(cache, log, now)
    BY CachesType, CacheAssumption DEF IInv, TypeOK
  <2>2. Recent(log, log[i].key, now)
    BY DEF Recent
  <2>3. QED BY <2>1, <2>2, LiveIsRecent
<1>2. QED BY <1>1, CacheIsTailOfLog, PTL

\* LocalTTLCache implements the deduplication window: every answer of
\* check_and_set is the one DedupWindow gives.
THEOREM CacheImplementsWindow == Spec => ImplementsWindow
<1>1. Init => Window!WindowInit
  BY DEF Init, Window!WindowInit
<1>2. IInv /\ [Next]_vars => [Window!WindowNext]_(Window!windowVars)
  <2> SUFFICES ASSUME IInv, [Next]_vars
               PROVE  [Window!WindowNext]_(Window!windowVars)
    OBVIOUS
  <2>1. now \in Nat /\ MaxTime \in Nat
    BY CacheAssumption DEF IInv, TypeOK
  <2>2. CASE UNCHANGED vars
    BY <2>2 DEF vars, Window!windowVars
  <2>3. CASE Tick
    <3>1. now' \in Nat /\ now' >= now
      BY <2>1, <2>3 DEF Tick
    <3>2. QED BY <2>3, <3>1 DEF Tick, Window!WindowNext, Window!Wait
  <2>4. ASSUME NEW k \in Key, CheckAndSet(k) PROVE Window!WindowNext
    <3>1. now' \in Nat /\ now' >= now
      <4>1. now <= now' /\ now' \in 0..MaxTime
        BY <2>4, CheckKeeps
      <4>2. QED BY <2>1, <4>1
    <3>2. Recent(log, k, now') <=> Window!Remembered(k, now')
      BY DEF Recent, Window!Remembered
    <3>3. Window!Duplicate(k) \/ Window!Admit(k)
      BY <2>4, <3>2, CheckKeeps DEF Window!Duplicate, Window!Admit
    <3>4. QED BY <3>1, <3>3 DEF Window!WindowNext
  <2>5. QED BY <2>2, <2>3, <2>4 DEF Next
<1>3. QED
  BY <1>1, <1>2, CacheIsTailOfLog, PTL
  DEF Spec, ImplementsWindow, Window!WindowSpec
=============================================================================
