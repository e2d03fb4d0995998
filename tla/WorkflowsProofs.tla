---------------------------- MODULE WorkflowsProofs ----------------------------
(***************************************************************************)
(* Proofs about Workflows: its types, what is missing from a profile, that *)
(* the alerts of a wallet nobody follows end, and that the trades that an  *)
(* instance publishes are never all there is to what it finds.             *)
(***************************************************************************)
EXTENDS Workflows, SumProofs

EventField ==
  {"kind", "info", "wallet", "token", "tx", "trade", "price", "smart"}
HandField == {"event", "profile", "pc", "old", "stale"}
ProfileField ==
  {"txs", "hours", "swaps", "transfers", "liquidity", "deployed", "funder",
   "parties", "position", "times", "cycles", "labels"}
PositionField ==
  {"trades", "bought", "sold", "balance", "price", "since", "last", "held"}
MemField ==
  {"volume", "price", "flow", "funded", "edges", "analysis", "report"}
FlowField == {"transfers", "removals", "trades", "blind"}

Reason == {"race", "database", "zone"}
Sender == {e.tx.sender : e \in Inputs} \cup {Unknown}
Deal == [trader : Sender, buy : BOOLEAN, usd : Nat, at : Int]
Confidence == {50, 70, 80, 85, 99}

\* An event, when the wallets of D have a saved profile: a derived one that
\* names a wallet is an alert of a wallet with a profile, and none shows a
\* sale, a trade or a native transfer.
EventOk(e, D) ==
  /\ DOMAIN e = EventField
  /\ e.info \in BOOLEAN /\ e.token \in BOOLEAN
  /\ e.wallet \in Wallet \cup {NoOne}
  /\ e.tx.usd \in Nat /\ e.tx.sender \in Sender
  /\ e.tx.naive \in BOOLEAN /\ e.tx.sound \in BOOLEAN
  /\ Derived(e) /\ e.wallet # NoOne => ~e.info /\ ~e.token /\ e.wallet \in D
  /\ Derived(e) => /\ e.trade # "sell"
                   /\ Decodes(e) => Assets(e.tx) = {} /\ Action(e.tx) # "SWAP"

ProfileOk(p) ==
  /\ DOMAIN p = ProfileField
  /\ p.txs \in Nat /\ p.swaps \in Nat /\ p.transfers \in Nat
  /\ p.liquidity \in Nat /\ p.deployed \in Nat
  /\ p.swaps + p.transfers + p.liquidity + p.deployed <= p.txs
  /\ DOMAIN p.position = PositionField
  /\ p.position.trades \in Nat
  /\ p.position.bought \in Nat
  /\ p.position.balance \in 0..p.position.bought

\* The labels of a profile are those it deserves.
Labelled(p) == ProfileOk(p) /\ p.labels = Labels(p)

\* A funding without a zone comes from an event without one.
Zoned(p) ==
  \A f \in p.funder : f.naive \in BOOLEAN /\ (f.naive => zoneless)

\* An event of d is the sale of a deal.
SoldIn(d, deal) ==
  \E e \in d : /\ e.trade = "sell" /\ e.tx.sender = deal.trader
               /\ e.tx.usd = deal.usd

\* The memory of an instance that the inputs d were delivered to: every sale,
\* every trade of the flow and every funding is that of one of them, and the
\* analysis is one of the deals that there are.
MemOk(m, d) ==
  /\ DOMAIN m = MemField /\ DOMAIN m.flow = FlowField
  /\ m.volume \in Seq(Deal)
  /\ \A k \in DOMAIN m.volume :
       ~m.volume[k].buy => SoldIn(d, m.volume[k])
  /\ \E t : m.analysis = VolumeAnalysis(m.volume, t)
  /\ \E E : m.flow.trades \in Seq(E)
  /\ \A t \in ToSet(m.flow.trades) :
       \E e \in d : e.tx.sender = t.trader /\ e.tx.at = t.at
  /\ \A w \in DOMAIN m.funded :
       \E e \in d : e.tx.receiver = w /\ e.tx.sender = m.funded[w]
  /\ \A x \in DOMAIN m.edges : m.edges[x] \in Confidence

\* What a task in progress has recorded: never more than one handling, and
\* exactly one on top of the saved profile while that is not outdated.
HandOk(i) ==
  LET h == hand[i]
      w == h.event.wallet IN
  /\ DOMAIN h = HandField
  /\ EventOk(h.event, DOMAIN store)
  /\ w \in Wallet /\ w # NoOne
  /\ h.pc \in {"relate", "save"}
  /\ Labelled(h.profile) /\ Zoned(h.profile)
  /\ h.stale \in BOOLEAN
  /\ h.profile.txs <= counts[w].txs + One(ShowsTransaction(h.event))
  /\ h.profile.position.trades <= counts[w].trades + One(ShowsTrade(h.event))
  /\ ~h.stale =>
       /\ h.profile.txs = Loaded(w).txs + One(ShowsTransaction(h.event))
       /\ h.profile.position.trades =
            Loaded(w).position.trades + One(ShowsTrade(h.event))
  /\ Derived(h.event) => h.old = h.profile.labels

HandsInv == \A i \in Instance : hand[i] # Idle => HandOk(i)

TopicInv == \A e \in BagToSet(topic) : EventOk(e, DOMAIN store)

StoreInv ==
  /\ DOMAIN store \subseteq Wallet
  /\ \A w \in DOMAIN store : Labelled(store[w]) /\ Zoned(store[w])

Count == [tasks : Nat, txs : Nat, trades : Nat, alerts : Nat]

ShapeInv ==
  /\ DOMAIN hand = Instance /\ DOMAIN mem = Instance
  /\ DOMAIN delivered = Instance
  /\ counts \in [Wallet -> Count] /\ excused \in [Wallet -> SUBSET Reason]
  /\ now \in Int /\ zoneless \in BOOLEAN

MemInv == \A i \in Instance : MemOk(mem[i], delivered[i])

IInv ==
  /\ ShapeInv
  /\ HandsInv
  /\ TopicInv
  /\ StoreInv
  /\ MemInv
  /\ UpdatesKept
  /\ AlertsEnd

----------------------------------------------------------------------------
\* The analysis of the trade volume.

Usd(v) == [k \in DOMAIN v |-> v[k].usd]

LEMMA DealIn ==
  ASSUME NEW v \in Seq(Deal), NEW k \in DOMAIN v
  PROVE  v[k] \in Deal /\ v[k].usd \in Nat
<1>1. v[k] \in Deal
  OBVIOUS
<1> QED
  BY <1>1 DEF Deal

LEMMA VolumeIsSum ==
  ASSUME NEW v \in Seq(Deal)
  PROVE  Volume(v) = Sum(Usd(v), 1..Len(v)) /\ Volume(v) \in Nat
<1> DEFINE n == Len(v)
           g == CHOOSE g : g = [S \in SUBSET DOMAIN v |->
                  IF S = {} THEN 0
                  ELSE g[S \ {Max(S)}]
                       + (IF TRUE THEN v[Max(S)].usd ELSE 0)]
<1>1. Volume(v) = g[DOMAIN v]
  BY DEF Volume, UsdOf, FoldLeft, MapThenFoldSet
<1>2. /\ n \in Nat /\ DOMAIN v = 1..n
      /\ \A k \in 1..n : Usd(v)[k] \in Nat /\ Usd(v)[k] = v[k].usd
  BY DealIn DEF Usd
<1>3. \A h : FromLast(h, Usd(v), n) = [S \in SUBSET DOMAIN v |->
               IF S = {} THEN 0
               ELSE h[S \ {Max(S)}] + (IF TRUE THEN v[Max(S)].usd ELSE 0)]
  <2> SUFFICES ASSUME NEW h, NEW S \in SUBSET (1..n), S # {}
               PROVE  Usd(v)[Max(S)] = v[Max(S)].usd
    BY <1>2 DEF FromLast
  <2> HIDE DEF n
  <2>1. Max(S) \in S
    BY <1>2, LastIn
  <2> QED
    BY <1>2, <2>1
<1>4. \E h : h = FromLast(h, Usd(v), n)
  <2> HIDE DEF n
  <2> QED
    BY <1>2, SumFromLastExists
<1>5. g = FromLast(g, Usd(v), n)
  <2>1. \E h : h = [S \in SUBSET DOMAIN v |->
               IF S = {} THEN 0
               ELSE h[S \ {Max(S)}] + (IF TRUE THEN v[Max(S)].usd ELSE 0)]
    <3> HIDE DEF n, g
    <3>1. PICK h : h = FromLast(h, Usd(v), n)
      BY <1>4
    <3>2. h = [S \in SUBSET DOMAIN v |->
               IF S = {} THEN 0
               ELSE h[S \ {Max(S)}] + (IF TRUE THEN v[Max(S)].usd ELSE 0)]
      BY <1>3, <3>1, Zenon
    <3> QED
      BY <3>2, Zenon
  <2>2. g = [S \in SUBSET DOMAIN v |->
               IF S = {} THEN 0
               ELSE g[S \ {Max(S)}] + (IF TRUE THEN v[Max(S)].usd ELSE 0)]
    BY <2>1, Zenon
  <2> QED
    BY <1>3, <2>2, Zenon
<1> HIDE DEF g, n
<1>6. g[1..n] = Sum(Usd(v), 1..n)
  BY <1>2, <1>5, SumFromLast
<1>7. IsFiniteSet(1..n)
  BY <1>2, FS_Interval
<1>8. Sum(Usd(v), 1..n) \in Nat
  BY <1>2, <1>7, SumNat
<1> QED
  BY <1>1, <1>2, <1>6, <1>8 DEF n

\* The amounts of a pair.
PairUsd(v) == [p \in WashPairs(v) |-> v[p[1]].usd + v[p[2]].usd]

LEMMA PairsFinite ==
  ASSUME NEW v \in Seq(Deal)
  PROVE  /\ IsFiniteSet(WashPairs(v))
         /\ \A p \in WashPairs(v) :
              /\ p[1] \in DOMAIN v /\ p[2] \in DOMAIN v
              /\ v[p[1]].trader = v[p[2]].trader
              /\ v[p[1]].buy # v[p[2]].buy
              /\ PairUsd(v)[p] \in Nat
<1>1. IsFiniteSet(DOMAIN v)
  <2>1. DOMAIN v = 1..Len(v) /\ Len(v) \in Nat
    OBVIOUS
  <2> QED
    BY <2>1, FS_Interval
<1>2. IsFiniteSet((DOMAIN v) \X (DOMAIN v))
  BY <1>1, FS_Product
<1>3. WashPairs(v) \subseteq (DOMAIN v) \X (DOMAIN v)
  BY DEF WashPairs
<1>4. IsFiniteSet(WashPairs(v))
  BY <1>2, <1>3, FS_Subset
<1>5. ASSUME NEW p \in WashPairs(v)
      PROVE  /\ p[1] \in DOMAIN v /\ p[2] \in DOMAIN v
             /\ v[p[1]].trader = v[p[2]].trader
             /\ v[p[1]].buy # v[p[2]].buy
             /\ PairUsd(v)[p] \in Nat
  <2>1. /\ p[1] \in DOMAIN v /\ p[2] \in DOMAIN v
        /\ v[p[1]].trader = v[p[2]].trader
        /\ v[p[1]].buy # v[p[2]].buy
    BY DEF WashPairs
  <2>2. v[p[1]].usd \in Nat /\ v[p[2]].usd \in Nat
    BY <2>1, DealIn
  <2> QED
    BY <2>1, <2>2 DEF PairUsd
<1> QED
  BY <1>4, <1>5

LEMMA WashVolumeIsSum ==
  ASSUME NEW v \in Seq(Deal)
  PROVE  /\ WashVolume(v) = Sum(PairUsd(v), WashPairs(v))
         /\ WashVolume(v) \in Nat
<1> DEFINE P == WashPairs(v)
           g == CHOOSE g : g = [s \in SUBSET P |->
                  IF s = {} THEN 0
                  ELSE (v[(CHOOSE x \in s : TRUE)[1]].usd
                          + v[(CHOOSE x \in s : TRUE)[2]].usd)
                       + g[s \ {CHOOSE x \in s : TRUE}]]
<1>1. WashVolume(v) = g[P]
  BY DEF WashVolume, MapThenSumSet, MapThenFoldSet
<1>2. IsFiniteSet(P) /\ \A p \in P : PairUsd(v)[p] \in Nat
  BY PairsFinite
<1>3. \A h : Unfolded(h, PairUsd(v), P) = [s \in SUBSET P |->
                  IF s = {} THEN 0
                  ELSE (v[(CHOOSE x \in s : TRUE)[1]].usd
                          + v[(CHOOSE x \in s : TRUE)[2]].usd)
                       + h[s \ {CHOOSE x \in s : TRUE}]]
  <2> SUFFICES ASSUME NEW s \in SUBSET P, s # {}
               PROVE  PairUsd(v)[Picked(s)] =
                        v[(CHOOSE x \in s : TRUE)[1]].usd
                          + v[(CHOOSE x \in s : TRUE)[2]].usd
    BY DEF Unfolded, Picked
  <2>1. Picked(s) \in P
    BY PickedIn
  <2>2. PairUsd(v)[Picked(s)] = v[Picked(s)[1]].usd + v[Picked(s)[2]].usd
    BY <2>1 DEF PairUsd
  <2> QED
    BY <2>2 DEF Picked
<1>4. \E h : h = Unfolded(h, PairUsd(v), P)
  BY <1>2, SumExists DEF IsSum
<1>5. g = Unfolded(g, PairUsd(v), P)
  <2>1. \E h : h = [s \in SUBSET P |->
                  IF s = {} THEN 0
                  ELSE (v[(CHOOSE x \in s : TRUE)[1]].usd
                          + v[(CHOOSE x \in s : TRUE)[2]].usd)
                       + h[s \ {CHOOSE x \in s : TRUE}]]
    <3> HIDE DEF P, g
    <3>1. PICK h : h = Unfolded(h, PairUsd(v), P)
      BY <1>4
    <3>2. h = [s \in SUBSET P |->
                  IF s = {} THEN 0
                  ELSE (v[(CHOOSE x \in s : TRUE)[1]].usd
                          + v[(CHOOSE x \in s : TRUE)[2]].usd)
                       + h[s \ {CHOOSE x \in s : TRUE}]]
      BY <1>3, <3>1, Zenon
    <3> QED
      BY <3>2, Zenon
  <2>2. g = [s \in SUBSET P |->
                  IF s = {} THEN 0
                  ELSE (v[(CHOOSE x \in s : TRUE)[1]].usd
                          + v[(CHOOSE x \in s : TRUE)[2]].usd)
                       + g[s \ {CHOOSE x \in s : TRUE}]]
    BY <2>1, Zenon
  <2> QED
    BY <1>3, <2>2, Zenon
<1> HIDE DEF g, P
<1>6. IsSum(g, PairUsd(v), P)
  BY <1>5 DEF IsSum
<1>7. g[P] = Sum(PairUsd(v), P)
  BY <1>2, <1>6, SumOf
<1>8. Sum(PairUsd(v), P) \in Nat
  BY <1>2, SumNat
<1> QED
  BY <1>1, <1>7, <1>8 DEF P

LEMMA WashScoreBounds ==
  ASSUME NEW v \in Seq(Deal)
  PROVE  /\ WashScore(v) \in 0..100
         /\ WashPairs(v) = {} => WashScore(v) = 0
<1>1. Volume(v) \in Nat /\ WashVolume(v) \in Nat
  BY VolumeIsSum, WashVolumeIsSum
<1>2. WashPairs(v) = {} => WashVolume(v) = 0
  BY WashVolumeIsSum, SumEmpty
<1>3. CASE Volume(v) = 0
  BY <1>3 DEF WashScore
<1>4. CASE Volume(v) # 0
  <2> DEFINE q == (100 * WashVolume(v)) \div Volume(v)
  <2>1. q \in Nat /\ (WashVolume(v) = 0 => q = 0)
    BY <1>1, <1>4
  <2>2. WashScore(v) = Min({100, q})
    BY <1>4 DEF WashScore
  <2> HIDE DEF q
  <2>3. WashScore(v) = IF 100 <= q THEN 100 ELSE q
    BY <2>1, <2>2, MinOfTwo
  <2> QED
    BY <1>2, <2>1, <2>3
<1> QED
  BY <1>3, <1>4

LEMMA RepetitiveNat ==
  ASSUME NEW v \in Seq(Deal)
  PROVE  Repetitive(v) \in Nat
<1> DEFINE same(n) == Cardinality({k \in DOMAIN v : v[k].usd = n})
           S == {same(n) : n \in {t.usd : t \in ToSet(v)}}
<1>0. DOMAIN v = 1..Len(v) /\ Len(v) \in Nat
  OBVIOUS
<1>1. IsFiniteSet(DOMAIN v)
  BY <1>0, FS_Interval
<1>2. \A n : same(n) \in Nat
  <2> TAKE n
  <2>1. IsFiniteSet({k \in DOMAIN v : v[k].usd = n})
    BY <1>1, FS_Subset
  <2> QED
    BY <2>1, FS_CardinalityType
<1>3. CASE Len(v) < 5
  BY <1>3 DEF Repetitive
<1>4. CASE Len(v) >= 5
  <2>1. S = {same(v[k].usd) : k \in DOMAIN v}
    BY DEF ToSet
  <2>2. IsFiniteSet(S)
    <3> HIDE DEF same
    <3> DEFINE h == [k \in DOMAIN v |-> same(v[k].usd)]
    <3>1. \A k \in DOMAIN v : h[k] \in S
      BY <2>1
    <3>2. \A n \in S : \E k \in DOMAIN v : h[k] = n
      BY <2>1
    <3>3. h \in Surjection(DOMAIN v, S)
      <4> HIDE DEF S
      <4> QED
        BY <3>1, <3>2 DEF Surjection
    <3> HIDE DEF S, h
    <3> QED
      BY <1>1, <3>3, FS_Surjection
  <2>3. S # {} /\ S \subseteq Nat
    <3>1. 1 \in DOMAIN v
      BY <1>0, <1>4
    <3>2. same(v[1].usd) \in S
      BY <2>1, <3>1
    <3> QED
      BY <1>2, <2>1, <3>2
  <2>4. Repetitive(v) = (100 * Max(S)) \div Len(v)
    BY <1>0, <1>4 DEF Repetitive
  <2> HIDE DEF S
  <2>5. Max(S) \in Nat
    <3>1. S \subseteq Int
      BY <2>3
    <3>2. Max(S) \in S
      BY <2>2, <2>3, <3>1, MaxIn
    <3> QED
      BY <2>3, <3>2
  <2> QED
    BY <1>0, <1>4, <2>4, <2>5
<1> QED
  BY <1>0, <1>3, <1>4

\* What an analysis says, whenever it was made.
LEMMA AnalysisBounds ==
  ASSUME NEW v \in Seq(Deal), NEW t
  PROVE  /\ VolumeAnalysis(v, t).wash \in 0..100
         /\ VolumeAnalysis(v, t).organic \in 0..Volume(v)
         /\ VolumeAnalysis(v, t).suspects # {} => WashPairs(v) # {}
<1> DEFINE a == VolumeAnalysis(v, t)
           raw == Volume(v)
           found == WashVolume(v) + (raw * Repetitive(v)) \div 200
           left == Min({raw, found})
<1>1. /\ a.wash = WashScore(v)
      /\ a.organic = Max({0, raw - left})
      /\ a.suspects # {} => WashScore(v) > 20
  BY DEF VolumeAnalysis
<1>2. raw \in Nat /\ WashVolume(v) \in Nat /\ Repetitive(v) \in Nat
  BY VolumeIsSum, WashVolumeIsSum, RepetitiveNat
<1>3. found \in Nat
  BY <1>2
<1> HIDE DEF found, a
<1>4. left \in 0..raw
  BY <1>2, <1>3, MinOfTwo
<1> HIDE DEF left
<1>5. a.organic \in 0..raw
  BY <1>1, <1>2, <1>4, MaxOfTwo
<1>6. a.wash \in 0..100 /\ (a.suspects # {} => WashPairs(v) # {})
  BY <1>1, WashScoreBounds
<1> QED
  BY <1>5, <1>6 DEF a

----------------------------------------------------------------------------
\* The profiles: a transaction is counted once, a trade is counted once.

LEMMA NewProfileOk == ProfileOk(NewProfile)
BY DEF ProfileOk, NewProfile, NoPosition, ProfileField, PositionField

LEMMA TransactionCounted ==
  ASSUME NEW p, ProfileOk(p), NEW w, NEW tx, NEW t
  PROVE  /\ ProfileOk(AfterTransaction(p, w, tx, t))
         /\ AfterTransaction(p, w, tx, t).txs = p.txs + 1
         /\ AfterTransaction(p, w, tx, t).position = p.position
<1>1. PICK q : q = Counted(p, tx)
  OBVIOUS
<1>2. ProfileOk(q) /\ q.txs = p.txs + 1 /\ q.position = p.position
  <2>1. PICK r, hours : r = [p EXCEPT !.txs = p.txs + 1, !.hours = hours]
                          /\ hours = p.hours \cup {(tx.at \div 12) % 24}
    OBVIOUS
  <2>2. /\ ProfileOk(r) /\ r.txs = p.txs + 1 /\ r.position = p.position
        /\ r.swaps + r.transfers + r.liquidity + r.deployed <= p.txs
    BY <2>1 DEF ProfileOk, ProfileField
  <2>3. \/ q = [r EXCEPT !.swaps = r.swaps + 1]
        \/ q = [r EXCEPT !.transfers = r.transfers + 1]
        \/ q = [r EXCEPT !.liquidity = r.liquidity + 1]
        \/ q = [r EXCEPT !.deployed = r.deployed + 1]
        \/ q = r
    BY <1>1, <2>1 DEF Counted
  <2>4. p.txs \in Nat
    BY DEF ProfileOk
  <2> QED
    BY <2>2, <2>3, <2>4 DEF ProfileOk, ProfileField
<1>3. PICK r : r = AfterTransaction(p, w, tx, t)
  OBVIOUS
<1>4. /\ DOMAIN r = ProfileField
      /\ r.txs = q.txs /\ r.swaps = q.swaps /\ r.transfers = q.transfers
      /\ r.liquidity = q.liquidity /\ r.deployed = q.deployed
      /\ r.position = q.position
  <2>1. PICK s, funder, parties :
          /\ s = [q EXCEPT !.funder = funder, !.parties = parties]
          /\ r = s \/ r = Refreshed(s, t)
    BY <1>1, <1>3 DEF AfterTransaction
  <2>2. /\ DOMAIN s = ProfileField
        /\ s.txs = q.txs /\ s.swaps = q.swaps /\ s.transfers = q.transfers
        /\ s.liquidity = q.liquidity /\ s.deployed = q.deployed
        /\ s.position = q.position
    BY <1>2, <2>1 DEF ProfileOk, ProfileField
  <2> QED
    BY <2>1, <2>2 DEF Refreshed, ProfileField
<1>5. ProfileOk(r)
  BY <1>2, <1>4 DEF ProfileOk
<1> QED
  BY <1>2, <1>3, <1>4, <1>5

\* The first funding is kept, and a new one is that of the transaction.
LEMMA FundingZoned ==
  ASSUME NEW p, ProfileOk(p), NEW w, NEW tx, NEW t,
         NEW f \in AfterTransaction(p, w, tx, t).funder
  PROVE  f \in p.funder \/ f.naive = tx.naive
<1>1. PICK q : q = Counted(p, tx)
  OBVIOUS
<1>2. DOMAIN q = ProfileField /\ q.funder = p.funder
  <2>1. PICK r, hours : r = [p EXCEPT !.txs = p.txs + 1, !.hours = hours]
                          /\ hours = p.hours \cup {(tx.at \div 12) % 24}
    OBVIOUS
  <2>2. DOMAIN r = ProfileField /\ r.funder = p.funder
    BY <2>1 DEF ProfileOk, ProfileField
  <2>3. \/ q = [r EXCEPT !.swaps = r.swaps + 1]
        \/ q = [r EXCEPT !.transfers = r.transfers + 1]
        \/ q = [r EXCEPT !.liquidity = r.liquidity + 1]
        \/ q = [r EXCEPT !.deployed = r.deployed + 1]
        \/ q = r
    BY <1>1, <2>1 DEF Counted
  <2> QED
    BY <2>2, <2>3 DEF ProfileField
<1>3. PICK s, parties, funder :
        /\ s = [q EXCEPT !.funder = funder, !.parties = parties]
        /\ \/ funder = q.funder
           \/ funder = {[by |-> tx.sender, naive |-> tx.naive]}
        /\ \/ AfterTransaction(p, w, tx, t) = s
           \/ AfterTransaction(p, w, tx, t) = Refreshed(s, t)
  BY <1>1 DEF AfterTransaction
<1>4. DOMAIN s = ProfileField /\ s.funder = funder
  BY <1>2, <1>3 DEF ProfileField
<1>5. AfterTransaction(p, w, tx, t).funder = funder
  BY <1>3, <1>4 DEF Refreshed, ProfileField
<1> QED
  BY <1>2, <1>3, <1>5

\* The balance stays between nothing and what was bought.
LEMMA TradeCounted ==
  ASSUME NEW p, ProfileOk(p), NEW trade, trade.usd \in Nat, NEW c, NEW t
  PROVE  /\ ProfileOk(AfterTrade(p, trade, c, t))
         /\ AfterTrade(p, trade, c, t).txs = p.txs
         /\ AfterTrade(p, trade, c, t).position.trades = p.position.trades + 1
         /\ AfterTrade(p, trade, c, t).funder = p.funder
<1>1. PICK old, usd : old = p.position /\ usd = trade.usd
  OBVIOUS
<1>2. /\ DOMAIN old = PositionField /\ old.trades \in Nat /\ old.bought \in Nat
      /\ old.balance \in 0..old.bought /\ usd \in Nat
  BY <1>1 DEF ProfileOk
<1>3. PICK base, price :
        /\ base = [old EXCEPT !.trades = old.trades + 1,
                              !.last = trade.at, !.price = price]
        /\ price = IF c > 0 THEN c ELSE trade.price
  OBVIOUS
<1>4. /\ DOMAIN base = PositionField /\ base.trades = old.trades + 1
      /\ base.bought = old.bought /\ base.balance = old.balance
  BY <1>2, <1>3 DEF PositionField
<1>5. PICK left : left = Left(old, trade)
  OBVIOUS
<1>6. left \in 0..old.bought
  <2>1. old.balance - usd \in Int
    BY <1>2
  <2>2. left = IF 0 >= old.balance - usd THEN 0 ELSE old.balance - usd
    BY <1>1, <1>5, <2>1, MaxOfTwo DEF Left
  <2> QED
    BY <1>2, <2>2
<1>7. PICK since, held, opened :
        /\ held = IF left = 0 /\ old.since # Never
                  THEN Append(old.held, trade.at - old.since) ELSE old.held
        /\ since = IF left = 0 THEN Never ELSE old.since
        /\ opened = IF old.since = Never THEN trade.at ELSE old.since
  OBVIOUS
<1>8. PICK pos : pos =
        CASE trade.direction = "BUY" ->
               [base EXCEPT !.bought = base.bought + usd,
                            !.balance = base.balance + usd,
                            !.since = opened]
          [] trade.direction = "SELL" ->
               [base EXCEPT !.sold = base.sold + usd, !.balance = left,
                            !.held = held, !.since = since]
          [] OTHER -> base
  OBVIOUS
<1>9. /\ DOMAIN pos = PositionField /\ pos.trades = old.trades + 1
      /\ pos.bought \in Nat /\ pos.balance \in 0..pos.bought
  <2>1. CASE trade.direction = "BUY"
    <3>1. /\ DOMAIN pos = PositionField /\ pos.trades = old.trades + 1
          /\ pos.bought = old.bought + usd
          /\ pos.balance = old.balance + usd
      BY <1>4, <1>8, <2>1 DEF PositionField
    <3> QED
      BY <1>2, <3>1
  <2>2. CASE trade.direction = "SELL"
    <3>1. /\ DOMAIN pos = PositionField /\ pos.trades = old.trades + 1
          /\ pos.bought = old.bought /\ pos.balance = left
      BY <1>4, <1>8, <2>2 DEF PositionField
    <3> QED
      BY <1>2, <1>6, <3>1
  <2>3. CASE trade.direction \notin {"BUY", "SELL"}
    <3>1. pos = base
      BY <1>8, <2>3
    <3> QED
      BY <1>2, <1>4, <3>1
  <2> QED
    BY <2>1, <2>2, <2>3
<1>10. PICK q : q = [p EXCEPT !.times = Append(p.times, trade.at),
                              !.position = pos]
  OBVIOUS
<1>11. /\ DOMAIN q = ProfileField /\ q.position = pos /\ q.txs = p.txs
       /\ q.swaps = p.swaps /\ q.transfers = p.transfers
       /\ q.liquidity = p.liquidity /\ q.deployed = p.deployed
       /\ q.funder = p.funder
  BY <1>10 DEF ProfileOk, ProfileField
<1>12. AfterTrade(p, trade, c, t) = Refreshed(q, t)
  BY <1>1, <1>2, <1>3, <1>4, <1>5, <1>7, <1>8, <1>10
  DEF AfterTrade, PositionField
<1>13. PICK r : r = Refreshed(q, t)
  OBVIOUS
<1>14. /\ DOMAIN r = ProfileField /\ r.position = pos /\ r.txs = p.txs
       /\ r.swaps = p.swaps /\ r.transfers = p.transfers
       /\ r.liquidity = p.liquidity /\ r.deployed = p.deployed
       /\ r.funder = p.funder
  BY <1>11, <1>13 DEF Refreshed, ProfileField
<1>15. ProfileOk(r)
  <2>1. /\ p.txs \in Nat /\ p.swaps \in Nat /\ p.transfers \in Nat
        /\ p.liquidity \in Nat /\ p.deployed \in Nat
        /\ p.swaps + p.transfers + p.liquidity + p.deployed <= p.txs
        /\ old.trades + 1 \in Nat
    BY <1>2 DEF ProfileOk
  <2> QED
    BY <1>9, <1>14, <2>1 DEF ProfileOk
<1> QED
  BY <1>1, <1>9, <1>12, <1>13, <1>14, <1>15

\* The labels do not depend on the labels a profile has.
LEMMA LabelsStable ==
  ASSUME NEW p, ProfileOk(p), NEW l
  PROVE  Labels([p EXCEPT !.labels = l]) = Labels(p)
<1> DEFINE q == [p EXCEPT !.labels = l]
<1>1. /\ q.txs = p.txs /\ q.swaps = p.swaps /\ q.liquidity = p.liquidity
      /\ q.transfers = p.transfers /\ q.hours = p.hours
      /\ q.deployed = p.deployed /\ q.parties = p.parties
      /\ q.position = p.position /\ q.times = p.times /\ q.cycles = p.cycles
  BY DEF ProfileOk, ProfileField
<1>2. Score(q) = Score(p)
  BY <1>1 DEF Score
<1>3. IsMarketMaker(q) = IsMarketMaker(p)
  BY <1>1 DEF IsMarketMaker
<1> HIDE DEF q
<1>4. Labels(q) = Labels(p)
  BY <1>1, <1>2, <1>3 DEF Labels
<1> QED
  BY <1>4 DEF q

LEMMA LoadedOk ==
  ASSUME StoreInv, NEW w
  PROVE  ProfileOk(Loaded(w)) /\ Zoned(Loaded(w))
<1>1. CASE w \in DOMAIN store
  BY <1>1 DEF Loaded, StoreInv, Labelled
<1>2. CASE w \notin DOMAIN store
  BY <1>2, NewProfileOk DEF Loaded, Zoned, NewProfile
<1> QED
  BY <1>1, <1>2

\* What a task makes of the profile it loads.
LEMMA UpdatedOk ==
  ASSUME StoreInv, NEW e, EventOk(e, DOMAIN store), NEW m
  PROVE  /\ Labelled(Updated(m, e))
         /\ Updated(m, e).txs =
              Loaded(e.wallet).txs + One(ShowsTransaction(e))
         /\ Updated(m, e).position.trades =
              Loaded(e.wallet).position.trades + One(ShowsTrade(e))
         /\ \A f \in Updated(m, e).funder :
              f \in Loaded(e.wallet).funder \/ f.naive = e.tx.naive
         /\ Derived(e) /\ e.wallet # NoOne
              => Updated(m, e).labels = Loaded(e.wallet).labels
<1> DEFINE w == e.wallet
           old == Loaded(w)
           p == IF ShowsTransaction(e) THEN AfterTransaction(old, w, e.tx, now)
                ELSE old
           q == IF ShowsTrade(e)
                THEN AfterTrade(p, Trade(e.tx, FALSE, <<>>, m.price), m.price,
                                now)
                ELSE p
<1>1. ProfileOk(old)
  BY LoadedOk
<1>2. /\ ProfileOk(p) /\ p.txs = old.txs + One(ShowsTransaction(e))
      /\ p.position.trades = old.position.trades
      /\ \A f \in p.funder : f \in old.funder \/ f.naive = e.tx.naive
  <2>1. CASE ShowsTransaction(e)
    <3>1. /\ ProfileOk(AfterTransaction(old, w, e.tx, now))
          /\ AfterTransaction(old, w, e.tx, now).txs = old.txs + 1
          /\ AfterTransaction(old, w, e.tx, now).position = old.position
          /\ \A f \in AfterTransaction(old, w, e.tx, now).funder :
               f \in old.funder \/ f.naive = e.tx.naive
      BY <1>1, TransactionCounted, FundingZoned
    <3> QED
      BY <2>1, <3>1 DEF One
  <2>2. CASE ~ShowsTransaction(e)
    BY <1>1, <2>2 DEF One, ProfileOk
  <2> QED
    BY <2>1, <2>2 DEF EventOk
<1>3. /\ ProfileOk(q) /\ q.txs = old.txs + One(ShowsTransaction(e))
      /\ q.position.trades = old.position.trades + One(ShowsTrade(e))
      /\ \A f \in q.funder : f \in old.funder \/ f.naive = e.tx.naive
  <2> HIDE DEF p
  <2>1. CASE ShowsTrade(e)
    <3>1. PICK t : t = Trade(e.tx, FALSE, <<>>, m.price)
      OBVIOUS
    <3>2. t.usd \in Nat
      BY <3>1 DEF Trade, EventOk
    <3>3. q = AfterTrade(p, t, m.price, now)
      BY <2>1, <3>1
    <3> HIDE DEF q
    <3>4. /\ ProfileOk(q) /\ q.txs = p.txs /\ q.funder = p.funder
          /\ q.position.trades = p.position.trades + 1
      BY <1>2, <3>2, <3>3, TradeCounted
    <3> QED
      BY <1>2, <2>1, <3>4 DEF One
  <2>2. CASE ~ShowsTrade(e)
    BY <1>2, <1>1, <2>2 DEF One, ProfileOk
  <2> QED
    BY <2>1, <2>2
<1>4. Updated(m, e) = [q EXCEPT !.labels = Labels(q)]
  BY DEF Updated
<1>5. Derived(e) /\ w # NoOne => q = old /\ old.labels = Labels(old)
  BY DEF EventOk, ShowsTransaction, ShowsTrade, Loaded, StoreInv, Labelled
<1> HIDE DEF q, old, w
<1>6. PICK u : u = Updated(m, e)
  OBVIOUS
<1>7. /\ DOMAIN u = ProfileField
      /\ u.txs = q.txs /\ u.position = q.position /\ u.labels = Labels(q)
      /\ u.swaps = q.swaps /\ u.transfers = q.transfers
      /\ u.liquidity = q.liquidity /\ u.deployed = q.deployed
      /\ u.funder = q.funder
  BY <1>3, <1>4, <1>6 DEF ProfileOk, ProfileField
<1>8. Labels(u) = Labels(q)
  BY <1>3, <1>4, <1>6, LabelsStable
<1>9. Labelled(u)
  BY <1>3, <1>7, <1>8 DEF Labelled, ProfileOk
<1> QED
  BY <1>3, <1>5, <1>6, <1>7, <1>9 DEF old, w

----------------------------------------------------------------------------
\* The topic.

LEMMA BagFacts ==
  /\ \A A, B : BagToSet(A (+) B) = BagToSet(A) \cup BagToSet(B)
  /\ \A A, B : BagToSet(A (-) B) \subseteq BagToSet(A)
  /\ \A S : BagToSet(SetToBag(S)) = S
  /\ BagToSet(EmptyBag) = {}
BY DEF BagToSet, (+), (-), SetToBag, EmptyBag

LEMMA PendingOk ==
  ASSUME TopicInv, NEW e \in Pending
  PROVE  EventOk(e, DOMAIN store)
<1>1. CASE e \in BagToSet(topic)
  BY <1>1 DEF TopicInv
<1>2. CASE e \notin BagToSet(topic)
  <2>1. PICK x \in Inputs, t \in 0..now : e = [x EXCEPT !.tx.at = t]
    BY <1>2, SMT DEF Pending
  <2>2. /\ DOMAIN e = EventField /\ e.kind = x.kind /\ e.info = x.info
        /\ e.token = x.token /\ e.wallet = x.wallet
        /\ e.tx = [x.tx EXCEPT !.at = t]
    BY <2>1, WorkflowsAssumption DEF EventField
  <2>3. /\ e.tx.usd = x.tx.usd /\ e.tx.sender = x.tx.sender
        /\ e.tx.naive = x.tx.naive /\ e.tx.sound = x.tx.sound
    BY <2>2, WorkflowsAssumption
  <2> QED
    BY <2>2, <2>3, WorkflowsAssumption DEF EventOk, Derived, Sender
<1> QED
  BY <1>1, <1>2

LEMMA EchoOk ==
  ASSUME NEW m, NEW e, NEW E, EventOk(e, E), NEW t \in Published(m, e), NEW D
  PROVE  EventOk(Echo(t), D)
<1>1. t.usd \in Nat /\ t.trader \in Sender
  BY DEF Published, Detected, Trade, EventOk
<1>2. PICK tx : tx = [NoTx EXCEPT !.sender = t.trader, !.usd = t.usd,
                                  !.at = t.at]
  OBVIOUS
<1>3. /\ tx.sender = t.trader /\ tx.usd = t.usd /\ tx.calls = {}
      /\ tx.field = "TRANSFER" /\ tx.assets = {} /\ tx.value = 0
      /\ tx.naive = FALSE /\ tx.sound = TRUE
  BY <1>2 DEF NoTx
<1>4. Assets(tx) = {}
  BY <1>3 DEF Assets
<1>5. Action(tx) # "SWAP"
  BY <1>3 DEF Action
<1>6. PICK x : x = Echo(t)
  OBVIOUS
<1>7. /\ DOMAIN x = EventField /\ x.info = TRUE /\ x.wallet = NoOne
      /\ x.token = TRUE /\ x.trade = "unsaid" /\ x.tx = tx
  BY <1>2, <1>6 DEF Echo, EventField
<1>8. EventOk(x, D)
  BY <1>1, <1>3, <1>4, <1>5, <1>7 DEF EventOk
<1> QED
  BY <1>6, <1>8

LEMMA AlertOk ==
  ASSUME NEW D, NEW w \in D, w \in Wallet
  PROVE  EventOk(Alert(w), D)
<1>1. /\ Alert(w).tx = NoTx /\ NoTx.usd = 0 /\ NoTx.sender = Unknown
      /\ NoTx.naive \in BOOLEAN /\ NoTx.sound \in BOOLEAN
  BY DEF Alert, NoTx
<1>2. ~Decodes(Alert(w))
  BY DEF Decodes, Alert
<1>3. Unknown \in Sender
  BY DEF Sender
<1>4. PICK x : x = Alert(w)
  OBVIOUS
<1>5. /\ DOMAIN x = EventField /\ ~x.info /\ x.wallet = w
      /\ ~x.token /\ x.trade = "none" /\ x.tx = NoTx
      /\ x.info \in BOOLEAN /\ x.token \in BOOLEAN
  BY <1>4 DEF Alert, EventField
<1>7. ~Decodes(x)
  BY <1>2, <1>4
<1>6. EventOk(x, D)
  BY <1>1, <1>3, <1>5, <1>7 DEF EventOk
<1> QED
  BY <1>4, <1>6

\* Events stay acceptable while profiles are added.
LEMMA EventStays ==
  ASSUME NEW e, NEW D, NEW E, D \subseteq E, EventOk(e, D)
  PROVE  EventOk(e, E)
BY DEF EventOk

----------------------------------------------------------------------------
\* The memory of an instance.

\* What derived events show: no sale, no trade, no native transfer.
LEMMA InertShows ==
  ASSUME NEW e, NEW D, EventOk(e, D), Derived(e), NEW m
  PROVE  /\ e.trade # "sell"
         /\ Detected(m, e) = {}
         /\ Decodes(e) => Funded(m, e.tx) = m.funded
BY DEF EventOk, Detected, IsTrade, Funded, HasToken

\* A memory stays acceptable while events are delivered.
LEMMA MemStays ==
  ASSUME NEW m, NEW d, NEW f, d \subseteq f, MemOk(m, d)
  PROVE  MemOk(m, f)
<1>1. \A x : SoldIn(d, x) => SoldIn(f, x)
  BY DEF SoldIn
<1> QED
  BY <1>1 DEF MemOk

LEMMA NewMemoryOk == MemOk(NewMemory, {})
<1> DEFINE m == NewMemory
<1>1. DOMAIN m = MemField /\ DOMAIN m.flow = FlowField
  BY DEF NewMemory, MemField, FlowField
<1>2. /\ m.volume = <<>> /\ m.flow.trades = <<>> /\ m.funded = <<>>
      /\ m.edges = <<>> /\ m.analysis = VolumeAnalysis(<<>>, 0)
  BY DEF NewMemory
<1> HIDE DEF m
<1>3. m.volume \in Seq(Deal) /\ m.flow.trades \in Seq({})
  BY <1>2
<1>4. ToSet(m.flow.trades) = {}
  BY <1>2 DEF ToSet
<1>5. /\ \E t : m.analysis = VolumeAnalysis(m.volume, t)
      /\ \E E : m.flow.trades \in Seq(E)
  BY <1>2, <1>3
<1>6. DOMAIN m.volume = {} /\ DOMAIN m.funded = {} /\ DOMAIN m.edges = {}
  BY <1>2
<1> QED
  BY <1>1, <1>3, <1>4, <1>5, <1>6 DEF MemOk, m

\* A deal is a sale only if the event says so.
LEMMA MarketOk ==
  ASSUME NEW m, NEW d, MemOk(m, d), NEW e, NEW D, EventOk(e, D),
         Derived(e) \/ e \in d, now \in Int
  PROVE  MemOk(AfterMarket(m, e), d)
<1>0. PICK n : n = AfterPrice(m, e)
  OBVIOUS
<1>3. DOMAIN n = MemField /\ MemOk(n, d)
  <2>1. CASE n = m
    BY <2>1 DEF MemOk
  <2>2. CASE n = [m EXCEPT !.price = e.price]
    <3>1. /\ DOMAIN n = MemField /\ n.volume = m.volume
          /\ n.analysis = m.analysis /\ n.flow = m.flow
          /\ n.funded = m.funded /\ n.edges = m.edges
      BY <2>2 DEF MemOk, MemField
    <3> QED
      BY <3>1 DEF MemOk
  <2> QED
    BY <1>0, <2>1, <2>2 DEF AfterPrice
<1>1. CASE ~e.token \/ e.trade = "none"
  BY <1>0, <1>1, <1>3 DEF AfterMarket
<1>2. CASE e.token /\ e.trade # "none"
  <2> DEFINE deal == [trader |-> e.tx.sender, buy |-> IsBuy(e),
                      usd |-> e.tx.usd, at |-> now]
             v == Append(n.volume, deal)
             a == VolumeAnalysis(v, now)
             r == [n EXCEPT !.volume = v, !.analysis = a]
  <2>1. AfterMarket(m, e) = r
    BY <1>0, <1>2 DEF AfterMarket
  <2>2. deal \in Deal
    BY DEF EventOk, Deal, IsBuy
  <2>3. ~deal.buy => SoldIn(d, deal)
    <3>1. ~deal.buy => e.trade = "sell"
      BY DEF IsBuy
    <3>2. e.trade = "sell" => e \in d
      BY DEF EventOk
    <3> QED
      BY <3>1, <3>2 DEF SoldIn
  <2> HIDE DEF deal
  <2>4. v \in Seq(Deal) /\ \A k \in DOMAIN v :
                             ~v[k].buy => SoldIn(d, v[k])
    <3>1. n.volume \in Seq(Deal)
      BY <1>3 DEF MemOk
    <3>2. /\ v \in Seq(Deal) /\ DOMAIN v = DOMAIN n.volume \cup {Len(v)}
          /\ v[Len(v)] = deal
          /\ \A k \in DOMAIN n.volume : v[k] = n.volume[k]
      BY <2>2, <3>1
    <3> HIDE DEF v, deal
    <3> QED
      BY <1>3, <2>3, <3>2 DEF MemOk
  <2> HIDE DEF v
  <2>5. \E t : a = VolumeAnalysis(v, t)
    OBVIOUS
  <2> HIDE DEF a
  <2>6. /\ DOMAIN r = MemField /\ r.volume = v /\ r.analysis = a
        /\ r.flow = n.flow /\ r.funded = n.funded /\ r.edges = n.edges
    BY <1>3 DEF MemField
  <2> HIDE DEF r
  <2>7. MemOk(r, d)
    BY <1>3, <2>4, <2>5, <2>6 DEF MemOk
  <2> QED
    BY <2>1, <2>7
<1> QED
  BY <1>1, <1>2

\* SetToSeq of the trade of an event, if there is one.
LEMMA OneInSeq ==
  ASSUME NEW S, S = {} \/ \E x : S = {x}
  PROVE  SetToSeq(S) \in Seq(S) /\ ToSet(SetToSeq(S)) = S
<1> DEFINE F == {f \in [1..Cardinality(S) -> S] : IsInjective(f)}
<1>1. CASE S = {}
  <2>1. Cardinality(S) = 0
    BY <1>1, FS_EmptySet
  <2>2. <<>> \in F
    BY <1>1, <2>1 DEF IsInjective
  <2>3. SetToSeq(S) \in F
    BY <2>2 DEF SetToSeq
  <2>4. SetToSeq(S) = <<>>
    BY <2>1, <2>3
  <2>5. PICK s : s = SetToSeq(S)
    OBVIOUS
  <2>6. s \in Seq(S)
    BY <2>4, <2>5
  <2>7. DOMAIN s = {}
    BY <2>4, <2>5
  <2>8. ToSet(s) = {}
    BY <2>7 DEF ToSet
  <2> QED
    BY <1>1, <2>5, <2>6, <2>8
<1>2. ASSUME NEW x, S = {x}
      PROVE  SetToSeq(S) \in Seq(S) /\ ToSet(SetToSeq(S)) = S
  <2>1. Cardinality(S) = 1
    BY <1>2, FS_Singleton
  <2> DEFINE f == [k \in 1..1 |-> x]
  <2>2. f \in F
    BY <1>2, <2>1 DEF IsInjective
  <2>3. SetToSeq(S) \in F
    BY <2>2 DEF SetToSeq
  <2>4. SetToSeq(S) \in [1..1 -> S]
    BY <2>1, <2>3
  <2>5. PICK s : s = SetToSeq(S)
    OBVIOUS
  <2>6. s \in [1..1 -> S] /\ s[1] = x /\ DOMAIN s = {1}
    BY <1>2, <2>4, <2>5
  <2>7. s \in Seq(S)
    <3>1. s = <<x>>
      BY <2>6
    <3> QED
      BY <1>2, <3>1
  <2>8. ToSet(s) = S
    BY <1>2, <2>6 DEF ToSet
  <2> QED
    BY <2>5, <2>7, <2>8
<1> QED
  BY <1>1, <1>2

LEMMA Joined ==
  ASSUME NEW E, NEW s \in Seq(E), NEW F, NEW t \in Seq(F)
  PROVE  s \o t \in Seq(E \cup F) /\ ToSet(s \o t) = ToSet(s) \cup ToSet(t)
<1>1. s \in Seq(E \cup F) /\ t \in Seq(E \cup F)
  OBVIOUS
<1>2. s \o t \in Seq(E \cup F)
  BY <1>1
<1>3. ASSUME NEW x \in ToSet(s \o t) PROVE x \in ToSet(s) \cup ToSet(t)
  <2>1. PICK k \in DOMAIN (s \o t) : x = (s \o t)[k]
    BY DEF ToSet
  <2>2. k \in 1..(Len(s) + Len(t))
    BY <1>1
  <2>3. CASE k <= Len(s)
    BY <1>1, <2>1, <2>2, <2>3 DEF ToSet
  <2>4. CASE k > Len(s)
    <3>1. k - Len(s) \in 1..Len(t) /\ x = t[k - Len(s)]
      BY <1>1, <2>1, <2>2, <2>4
    <3> QED
      BY <1>1, <3>1 DEF ToSet
  <2> QED
    BY <2>2, <2>3, <2>4
<1>4. ASSUME NEW x \in ToSet(s) PROVE x \in ToSet(s \o t)
  <2>1. PICK k \in DOMAIN s : x = s[k]
    BY DEF ToSet
  <2>2. k \in DOMAIN (s \o t) /\ (s \o t)[k] = x
    BY <1>1, <2>1
  <2> QED
    BY <2>2 DEF ToSet
<1>5. ASSUME NEW x \in ToSet(t) PROVE x \in ToSet(s \o t)
  <2>1. PICK k \in DOMAIN t : x = t[k]
    BY DEF ToSet
  <2>2. /\ Len(s) + k \in DOMAIN (s \o t)
        /\ (s \o t)[Len(s) + k] = x
    BY <1>1, <2>1
  <2> QED
    BY <2>2 DEF ToSet
<1> QED
  BY <1>2, <1>3, <1>4, <1>5

\* A trade of the flow and a funded wallet are those of a delivered event.
LEMMA IntelligenceOk ==
  ASSUME NEW m, NEW d, MemOk(m, d), NEW e, NEW D, EventOk(e, D),
         Derived(e) \/ e \in d
  PROVE  MemOk(AfterIntelligence(m, e), d)
<1>1. CASE ~Decodes(e)
  BY <1>1 DEF AfterIntelligence
<1>2. /\ DOMAIN Recorded(m.flow, e.tx) = FlowField
      /\ Recorded(m.flow, e.tx).trades = m.flow.trades
  BY DEF MemOk, Recorded, FlowField
<1>3. CASE Decodes(e) /\ (~HasToken(e) \/ Recorded(m.flow, e.tx).blind)
  <2>1. PICK f : f = Recorded(m.flow, e.tx)
    OBVIOUS
  <2>2. PICK r : r = [m EXCEPT !.flow = f]
    OBVIOUS
  <2>3. /\ DOMAIN r = MemField /\ r.flow = f /\ r.volume = m.volume
        /\ r.analysis = m.analysis /\ r.funded = m.funded
        /\ r.edges = m.edges
    BY <2>2 DEF MemOk, MemField
  <2>4. AfterIntelligence(m, e) = r
    BY <1>3, <2>1, <2>2 DEF AfterIntelligence
  <2> QED
    BY <1>2, <2>1, <2>3, <2>4 DEF MemOk
<1>4. CASE Decodes(e) /\ HasToken(e) /\ ~Recorded(m.flow, e.tx).blind
  <2>1. PICK f : f = Recorded(m.flow, e.tx)
    OBVIOUS
  <2>2. PICK g : g = Funded(m, e.tx)
    OBVIOUS
  <2>3. PICK q : q = [m EXCEPT !.funded = g]
    OBVIOUS
  <2>4. /\ DOMAIN q = MemField /\ q.funded = g
        /\ q.volume = m.volume /\ q.analysis = m.analysis
        /\ q.edges = m.edges
    BY <2>3 DEF MemOk, MemField
  <2>5. PICK new : new = SetToSeq(Detected(q, e))
    OBVIOUS
  <2>6. PICK flow : flow = [f EXCEPT !.trades = f.trades \o new]
    OBVIOUS
  <2>7. PICK report : report = IF Published(m, e) = {} THEN q.report
                               ELSE FlowMetrics(flow, now)
    OBVIOUS
  <2>8. PICK r : r = [q EXCEPT !.flow = flow, !.report = report]
    OBVIOUS
  <2>9. AfterIntelligence(m, e) = r
    BY <1>4, <2>1, <2>2, <2>3, <2>4, <2>5, <2>6, <2>7, <2>8
    DEF AfterIntelligence, WithTrades
  <2>10. /\ DOMAIN r = MemField /\ r.flow = flow /\ r.funded = g
         /\ r.volume = m.volume /\ r.analysis = m.analysis
         /\ r.edges = m.edges
    BY <2>4, <2>8 DEF MemField
  <2>11. DOMAIN flow = FlowField /\ flow.trades = m.flow.trades \o new
    BY <1>2, <2>1, <2>6 DEF FlowField
  <2>12. new \in Seq(Detected(q, e)) /\ ToSet(new) = Detected(q, e)
    <3>1. Detected(q, e) = {} \/ \E x : Detected(q, e) = {x}
      BY DEF Detected
    <3> QED
      BY <2>5, <3>1, OneInSeq
  <2>13. PICK E : m.flow.trades \in Seq(E)
    BY DEF MemOk
  <2>14. /\ flow.trades \in Seq(E \cup Detected(q, e))
         /\ ToSet(flow.trades) = ToSet(m.flow.trades) \cup Detected(q, e)
    BY <2>11, <2>12, <2>13, Joined
  <2>15. ASSUME NEW t \in ToSet(flow.trades)
         PROVE  \E x \in d : x.tx.sender = t.trader /\ x.tx.at = t.at
    <3>1. CASE t \in ToSet(m.flow.trades)
      BY <3>1 DEF MemOk
    <3>2. CASE t \in Detected(q, e)
      <4>1. t.trader = e.tx.sender /\ t.at = e.tx.at
        BY <3>2 DEF Detected, Trade
      <4>2. e \in d
        BY <3>2, InertShows
      <4> QED
        BY <4>1, <4>2
    <3> QED
      BY <2>14, <3>1, <3>2
  <2>16. ASSUME NEW w \in DOMAIN g
         PROVE  \E x \in d : x.tx.receiver = w /\ x.tx.sender = g[w]
    <3>1. CASE w \in DOMAIN m.funded /\ g[w] = m.funded[w]
      BY <3>1 DEF MemOk
    <3>2. CASE ~ (w \in DOMAIN m.funded /\ g[w] = m.funded[w])
      <4>1. g # m.funded
        BY <3>2
      <4>2. e \in d
        BY <1>4, <2>2, <4>1, InertShows
      <4>3. w = e.tx.receiver /\ g[w] = e.tx.sender
        BY <2>2, <3>2 DEF Funded, Put
      <4> QED
        BY <4>2, <4>3
    <3> QED
      BY <3>1, <3>2
  <2>17. \E F : r.flow.trades \in Seq(F)
    BY <2>10, <2>14
  <2>18. MemOk(r, d)
    BY <2>10, <2>11, <2>15, <2>16, <2>17 DEF MemOk
  <2> QED
    BY <2>9, <2>18
<1> QED
  BY <1>1, <1>3, <1>4

\* The edges that the wallet workflow adds.
LEMMA EdgesOk ==
  ASSUME NEW m, NEW d, MemOk(m, d),
         NEW g, \A x \in DOMAIN g : g[x] \in Confidence
  PROVE  MemOk([m EXCEPT !.edges = WithEdges(m.edges, g)], d)
<1>1. PICK n : n = WithEdges(m.edges, g)
  OBVIOUS
<1>2. \A x \in DOMAIN n : n[x] \in Confidence
  BY <1>1 DEF WithEdges, Over, MemOk
<1>3. PICK r : r = [m EXCEPT !.edges = n]
  OBVIOUS
<1>4. /\ DOMAIN r = MemField /\ r.edges = n /\ r.volume = m.volume
      /\ r.analysis = m.analysis /\ r.funded = m.funded /\ r.flow = m.flow
  BY <1>3 DEF MemOk, MemField
<1>5. MemOk(r, d)
  BY <1>2, <1>4 DEF MemOk
<1> QED
  BY <1>1, <1>3, <1>5

LEMMA ProfileEdgesOk ==
  ASSUME NEW w, NEW p
  PROVE  \A x \in DOMAIN ProfileEdges(w, p) :
           ProfileEdges(w, p)[x] \in Confidence
BY DEF ProfileEdges, Over, Confidence

LEMMA CoTradersOk ==
  ASSUME NEW S, NEW some \in [S -> {0, 70, 85}]
  PROVE  \A x \in DOMAIN CoTraders(some) : CoTraders(some)[x] \in Confidence
<1> SUFFICES ASSUME NEW p \in DOMAIN some, some[p] > 0
             PROVE  some[p] \in Confidence
  BY DEF CoTraders
<1> QED
  BY DEF Confidence

\* What an acceptable memory means for the findings.
LEMMA MemGives ==
  ASSUME NEW m, NEW d, MemOk(m, d)
  PROVE  /\ \A p \in WashPairs(m.volume) :
              SoldIn(d, m.volume[p[1]]) \/ SoldIn(d, m.volume[p[2]])
         /\ m.analysis.suspects # {} => \E e \in d : e.trade = "sell"
         /\ m.analysis.wash \in 0..100
         /\ m.analysis.organic \in 0..Volume(m.volume)
<1>1. PICK v : v = m.volume
  OBVIOUS
<1>2. v \in Seq(Deal)
  BY <1>1 DEF MemOk
<1>3. ASSUME NEW p \in WashPairs(v)
      PROVE  SoldIn(d, v[p[1]]) \/ SoldIn(d, v[p[2]])
  <2>1. /\ p[1] \in DOMAIN v /\ p[2] \in DOMAIN v
        /\ v[p[1]].trader = v[p[2]].trader
        /\ v[p[1]].buy # v[p[2]].buy
    BY <1>2, PairsFinite
  <2>2. v[p[1]].buy \in BOOLEAN /\ v[p[2]].buy \in BOOLEAN
    <3>1. v[p[1]] \in Deal /\ v[p[2]] \in Deal
      BY <1>2, <2>1, DealIn
    <3> QED
      BY <3>1 DEF Deal
  <2>3. ~v[p[1]].buy \/ ~v[p[2]].buy
    BY <2>1, <2>2
  <2> QED
    BY <1>1, <2>1, <2>3 DEF MemOk
<1>4. PICK t : m.analysis = VolumeAnalysis(v, t)
  BY <1>1 DEF MemOk
<1>5. /\ m.analysis.wash \in 0..100
      /\ m.analysis.organic \in 0..Volume(v)
      /\ m.analysis.suspects # {} => WashPairs(v) # {}
  BY <1>2, <1>4, AnalysisBounds
<1>6. WashPairs(v) # {} => \E e \in d : e.trade = "sell"
  BY <1>3 DEF SoldIn
<1> QED
  BY <1>1, <1>3, <1>5, <1>6

----------------------------------------------------------------------------
LEMMA InitInv == WorkflowsInit => IInv
<1> SUFFICES ASSUME WorkflowsInit PROVE IInv
  OBVIOUS
<1> USE DEF WorkflowsInit
<1>1. ShapeInv
  <2>1. counts \in [Wallet -> Count]
    BY DEF Count
  <2>2. excused \in [Wallet -> SUBSET Reason]
    OBVIOUS
  <2>3. /\ DOMAIN hand = Instance /\ DOMAIN mem = Instance
        /\ DOMAIN delivered = Instance /\ now \in Int
    OBVIOUS
  <2>4. zoneless \in BOOLEAN
    BY Zenon
  <2> QED
    BY ONLY <2>1, <2>2, <2>3, <2>4 DEF ShapeInv
<1>7. MemInv
  BY NewMemoryOk DEF MemInv
<1>2. HandsInv
  BY DEF HandsInv
<1>3. TopicInv
  BY BagFacts DEF TopicInv
<1>4. StoreInv
  BY DEF StoreInv
<1>5. UpdatesKept
  BY DEF UpdatesKept, Loaded, NewProfile, NoPosition
<1>6. AlertsEnd
  BY DEF AlertsEnd
<1> QED
  BY <1>1, <1>2, <1>3, <1>4, <1>5, <1>6, <1>7 DEF IInv

\* The memory after an event is taken: the input is delivered, and the edges
\* of its wallet are added.
LEMMA TakeKeepsMemory ==
  ASSUME IInv, NEW i \in Instance, NEW e, EventOk(e, DOMAIN store), Take(i, e)
  PROVE  MemInv' /\ DOMAIN mem' = Instance /\ DOMAIN delivered' = Instance
<1> USE DEF IInv
<1>1. PICK d : d = IF Derived(e) THEN delivered[i] ELSE delivered[i] \cup {e}
  OBVIOUS
<1>2. /\ DOMAIN delivered' = Instance /\ delivered'[i] = d
      /\ \A j \in Instance : j # i => delivered'[j] = delivered[j]
  <2>1. CASE Derived(e)
    BY <1>1, <2>1 DEF Take, ShapeInv
  <2>2. CASE ~Derived(e)
    BY <1>1, <2>2 DEF Take, ShapeInv
  <2> QED
    BY <2>1, <2>2
<1>3. PICK m : m = AfterIntelligence(AfterMarket(mem[i], e), e)
  OBVIOUS
<1>4. MemOk(m, d)
  <2>1. delivered[i] \subseteq d /\ (Derived(e) \/ e \in d)
    BY <1>1
  <2>2. MemOk(mem[i], d)
    BY <2>1, MemStays DEF MemInv
  <2>3. now \in Int
    BY DEF ShapeInv
  <2>4. MemOk(AfterMarket(mem[i], e), d)
    BY <2>1, <2>2, <2>3, MarketOk
  <2> QED
    BY <1>3, <2>1, <2>4, IntelligenceOk
<1>5. \E n : mem' = [mem EXCEPT ![i] = n] /\ MemOk(n, d)
  <2>1. CASE e.wallet = NoOne \/ RaisesEarly(e)
    <3>1. mem' = [mem EXCEPT ![i] = m]
      BY <1>3, <2>1 DEF Take
    <3> QED
      BY <1>4, <3>1
  <2>2. CASE e.wallet # NoOne /\ ~RaisesEarly(e)
    <3>1. PICK g : g = ProfileEdges(e.wallet, Updated(m, e))
      OBVIOUS
    <3>2. PICK n : n = [m EXCEPT !.edges = WithEdges(m.edges, g)]
      OBVIOUS
    <3>3. mem' = [mem EXCEPT ![i] = n]
      BY <1>3, <2>2, <3>1, <3>2 DEF Take
    <3>4. MemOk(n, d)
      BY <1>4, <3>1, <3>2, EdgesOk, ProfileEdgesOk
    <3> QED
      BY <3>3, <3>4
  <2> QED
    BY <2>1, <2>2
<1>6. ASSUME NEW j \in Instance PROVE MemOk(mem'[j], delivered'[j])
  BY <1>2, <1>5 DEF MemInv, ShapeInv
<1> QED
  BY <1>2, <1>5, <1>6 DEF MemInv, ShapeInv

\* What the end of a task does to the counts, and that they only grow.
LEMMA CountingOk ==
  ASSUME counts \in [Wallet -> Count], NEW e, e.wallet \in Wallet, NEW alert,
         counts' = Counting(e, alert)
  PROVE  LET w == e.wallet IN
         /\ counts' \in [Wallet -> Count]
         /\ counts'[w].txs = counts[w].txs + One(ShowsTransaction(e))
         /\ counts'[w].trades = counts[w].trades + One(ShowsTrade(e))
         /\ counts'[w].tasks = counts[w].tasks + One(~Derived(e))
         /\ counts'[w].alerts = counts[w].alerts + One(alert)
         /\ \A x \in Wallet : x # w => counts'[x] = counts[x]
         /\ \A x \in Wallet : /\ counts[x] \in Count /\ counts'[x] \in Count
                              /\ counts[x].txs <= counts'[x].txs
                              /\ counts[x].trades <= counts'[x].trades
<1>1. PICK w : w = e.wallet
  OBVIOUS
<1>2. \A t : One(t) \in Nat
  BY DEF One
<1>3. PICK new :
        new = [tasks |-> counts[w].tasks + One(~Derived(e)),
               txs |-> counts[w].txs + One(ShowsTransaction(e)),
               trades |-> counts[w].trades + One(ShowsTrade(e)),
               alerts |-> counts[w].alerts + One(alert)]
  OBVIOUS
<1>4. counts' = [counts EXCEPT ![w] = new]
  BY <1>1, <1>3 DEF Counting
<1>5. counts[w] \in Count
  BY <1>1
<1>6. /\ One(~Derived(e)) \in Nat /\ One(ShowsTransaction(e)) \in Nat
      /\ One(ShowsTrade(e)) \in Nat /\ One(alert) \in Nat
  BY <1>2
<1>7. /\ new.txs = counts[w].txs + One(ShowsTransaction(e))
      /\ new.trades = counts[w].trades + One(ShowsTrade(e))
      /\ new.tasks = counts[w].tasks + One(~Derived(e))
      /\ new.alerts = counts[w].alerts + One(alert)
      /\ new \in Count
  BY <1>3, <1>5, <1>6 DEF Count
<1>8. /\ counts'[w] = new /\ counts' \in [Wallet -> Count]
      /\ \A x \in Wallet : x # w => counts'[x] = counts[x]
  BY <1>1, <1>4, <1>7
<1>9. ASSUME NEW x \in Wallet
      PROVE  /\ counts[x] \in Count /\ counts'[x] \in Count
             /\ counts[x].txs <= counts'[x].txs
             /\ counts[x].trades <= counts'[x].trades
  <2>1. counts[x] \in Count /\ counts'[x] \in Count
    BY <1>8
  <2>2. CASE x = w
    BY <1>5, <1>6, <1>7, <1>8, <2>2 DEF Count
  <2>3. CASE x # w
    BY <1>8, <2>1, <2>3 DEF Count
  <2> QED
    BY <2>1, <2>2, <2>3
<1> QED
  BY <1>1, <1>7, <1>8, <1>9

\* A hand that no step touches stays acceptable while the counts, the profiles
\* of other wallets and the set of wallets with one grow.
LEMMA HandStays ==
  ASSUME ShapeInv, NEW i \in Instance, HandOk(i), hand'[i] = hand[i],
         DOMAIN store \subseteq DOMAIN store', zoneless => zoneless',
         \A x \in Wallet : /\ counts'[x] \in Count
                           /\ counts[x].txs <= counts'[x].txs
                           /\ counts[x].trades <= counts'[x].trades,
         Loaded(hand[i].event.wallet)' = Loaded(hand[i].event.wallet)
  PROVE  HandOk(i)'
<1>1. PICK g, x : g = hand[i] /\ x = g.event.wallet
  OBVIOUS
<1>2. /\ DOMAIN g = HandField /\ x \in Wallet /\ x # NoOne
      /\ g.pc \in {"relate", "save"} /\ g.stale \in BOOLEAN
      /\ EventOk(g.event, DOMAIN store) /\ Labelled(g.profile)
      /\ Derived(g.event) => g.old = g.profile.labels
      /\ g.profile.txs <= counts[x].txs + One(ShowsTransaction(g.event))
      /\ g.profile.position.trades
           <= counts[x].trades + One(ShowsTrade(g.event))
      /\ ~g.stale =>
           /\ g.profile.txs = Loaded(x).txs + One(ShowsTransaction(g.event))
           /\ g.profile.position.trades =
                Loaded(x).position.trades + One(ShowsTrade(g.event))
  BY <1>1 DEF HandOk
<1>3. EventOk(g.event, DOMAIN store')
  BY <1>2, EventStays
<1>4. Zoned(g.profile)'
  BY <1>1 DEF HandOk, Zoned
<1>5. /\ g.profile.txs <= counts'[x].txs + One(ShowsTransaction(g.event))
      /\ g.profile.position.trades
           <= counts'[x].trades + One(ShowsTrade(g.event))
  <2>1. /\ g.profile.txs \in Nat /\ g.profile.position.trades \in Nat
        /\ One(ShowsTransaction(g.event)) \in Nat
        /\ One(ShowsTrade(g.event)) \in Nat
    BY <1>2 DEF Labelled, ProfileOk, One
  <2>2. counts[x] \in Count /\ counts'[x] \in Count
    BY <1>2 DEF ShapeInv
  <2> QED
    BY <1>2, <2>1, <2>2 DEF Count
<1>6. Loaded(x)' = Loaded(x)
  BY <1>1
<1>7. hand'[i] = g
  BY <1>1
<1> QED
  BY <1>1, <1>2, <1>3, <1>4, <1>5, <1>6, <1>7 DEF HandOk

\* An event is taken: the profile in hand is one handling ahead, or a time
\* without a zone has lost it.
LEMMA TakeStep ==
  ASSUME IInv, NEW i \in Instance, NEW e \in Pending, Take(i, e)
  PROVE  IInv'
<1> USE DEF IInv
<1>1. EventOk(e, DOMAIN store)
  BY PendingOk
<1>2. UNCHANGED <<store, now>> /\ zoneless' = (zoneless \/ e.tx.naive)
  BY DEF Take
<1>6. MemInv' /\ DOMAIN mem' = Instance /\ DOMAIN delivered' = Instance
  BY <1>1, TakeKeepsMemory
<1>7. zoneless' \in BOOLEAN /\ (zoneless => zoneless')
  BY <1>1, <1>2 DEF EventOk, ShapeInv
<1>8. \A p : Zoned(p) => Zoned(p)'
  BY <1>7 DEF Zoned
<1>9. StoreInv' /\ \A x : Loaded(x)' = Loaded(x)
  BY <1>2, <1>8 DEF StoreInv, Loaded
<1>3. TopicInv'
  <2> DEFINE market == AfterMarket(mem[i], e)
  <2>1. ASSUME NEW x \in BagToSet(topic')
        PROVE  \/ x \in BagToSet(topic) \/ x = e
               \/ \E t \in Published(market, e) : x = Echo(t)
    <3>1. PICK fault :
            topic' =
              (IF fault = "not committed"
               THEN topic (+) SetToBag({e} \ BagToSet(topic))
               ELSE topic (-) SetToBag({e} \ ({e} \ BagToSet(topic))))
              (+) SetToBag(IF fault = "not published" THEN {}
                           ELSE {Echo(t) : t \in Published(market, e)})
      BY DEF Take
    <3> DEFINE kept == IF fault = "not committed"
                       THEN topic (+) SetToBag({e} \ BagToSet(topic))
                       ELSE topic (-) SetToBag({e} \ ({e} \ BagToSet(topic)))
               echoes == IF fault = "not published" THEN {}
                         ELSE {Echo(t) : t \in Published(market, e)}
    <3>2. \A y \in BagToSet(kept) : y \in BagToSet(topic) \/ y = e
      <4>1. BagToSet(topic (+) SetToBag({e} \ BagToSet(topic)))
              = BagToSet(topic) \cup ({e} \ BagToSet(topic))
        BY BagFacts
      <4> QED
        BY <4>1, BagFacts
    <3>3. \A y \in echoes : \E t \in Published(market, e) : y = Echo(t)
      OBVIOUS
    <3> HIDE DEF kept, echoes
    <3>4. topic' = kept (+) SetToBag(echoes)
      BY <3>1 DEF kept, echoes
    <3>5. BagToSet(topic') = BagToSet(kept) \cup echoes
      BY <3>4, BagFacts
    <3> QED
      BY <3>2, <3>3, <3>5
  <2> HIDE DEF market
  <2> QED
    BY <2>1, <1>1, <1>2, EchoOk DEF TopicInv
<1>4. CASE e.wallet = NoOne
  <2>1. UNCHANGED <<hand, counts, excused>>
    BY <1>4 DEF Take
  <2>2. ShapeInv' /\ UpdatesKept' /\ AlertsEnd'
    BY <1>2, <1>6, <1>7, <1>9, <2>1 DEF ShapeInv, UpdatesKept, AlertsEnd
  <2>3. ASSUME NEW j \in Instance, hand'[j] # Idle
        PROVE  HandOk(j)'
    <3>1. hand'[j] = hand[j] /\ HandOk(j)
      BY <2>1, <2>3 DEF HandsInv
    <3>2. \A x \in Wallet : /\ counts'[x] \in Count
                            /\ counts[x].txs <= counts'[x].txs
                            /\ counts[x].trades <= counts'[x].trades
      BY <2>1 DEF ShapeInv, Count
    <3> QED
      BY <1>2, <1>7, <1>9, <3>1, <3>2, HandStays
  <2> QED
    BY <1>3, <1>6, <1>9, <2>2, <2>3 DEF HandsInv
<1>5. CASE e.wallet # NoOne /\ ~RaisesEarly(e)
  <2>7. PICK m : m = AfterIntelligence(AfterMarket(mem[i], e), e)
    OBVIOUS
  <2>8. PICK p : p = Updated(m, e)
    OBVIOUS
  <2> DEFINE h == [event |-> e, profile |-> p, pc |-> "relate",
                   old |-> Loaded(e.wallet).labels, stale |-> FALSE]
  <2>1. hand' = [hand EXCEPT ![i] = h] /\ UNCHANGED <<counts, excused>>
    BY <1>5, <2>7, <2>8 DEF Take
  <2>6. /\ Labelled(p)
        /\ p.txs = Loaded(e.wallet).txs + One(ShowsTransaction(e))
        /\ p.position.trades =
             Loaded(e.wallet).position.trades + One(ShowsTrade(e))
        /\ \A f \in p.funder :
             f \in Loaded(e.wallet).funder \/ f.naive = e.tx.naive
        /\ Derived(e) => p.labels = Loaded(e.wallet).labels
    BY <1>1, <1>5, <2>8, UpdatedOk
  <2>2. ShapeInv' /\ UpdatesKept' /\ AlertsEnd'
    BY <1>2, <1>6, <1>7, <1>9, <2>1 DEF ShapeInv, UpdatesKept, AlertsEnd
  <2>3. ASSUME NEW j \in Instance, j # i, hand'[j] # Idle
        PROVE  HandOk(j)'
    <3>1. hand'[j] = hand[j] /\ HandOk(j)
      BY <2>1, <2>3 DEF ShapeInv, HandsInv
    <3>2. \A x \in Wallet : /\ counts'[x] \in Count
                            /\ counts[x].txs <= counts'[x].txs
                            /\ counts[x].trades <= counts'[x].trades
      BY <2>1 DEF ShapeInv, Count
    <3> QED
      BY <1>2, <1>7, <1>9, <3>1, <3>2, HandStays
  <2>4. HandOk(i)'
    <3>1. hand'[i] = h
      BY <2>1 DEF ShapeInv
    <3>2. e.wallet \in Wallet
      BY <1>1, <1>5 DEF EventOk
    <3>4. /\ Loaded(e.wallet).txs <= counts[e.wallet].txs
          /\ Loaded(e.wallet).position.trades <= counts[e.wallet].trades
          /\ ProfileOk(Loaded(e.wallet)) /\ Zoned(Loaded(e.wallet))
          /\ counts[e.wallet] \in Count
      BY <3>2, LoadedOk DEF UpdatesKept, ShapeInv
    <3>5. /\ p.txs <= counts[e.wallet].txs + One(ShowsTransaction(e))
          /\ p.position.trades <= counts[e.wallet].trades + One(ShowsTrade(e))
      BY <2>6, <3>4 DEF One, Count, ProfileOk
    <3>6. /\ DOMAIN h = HandField /\ h.event = e /\ h.profile = p
          /\ h.old = Loaded(e.wallet).labels /\ h.stale = FALSE
          /\ h.pc = "relate"
      BY DEF HandField
    <3>7. Zoned(p)'
      <4>1. ASSUME NEW f \in p.funder
            PROVE  f.naive \in BOOLEAN /\ (f.naive => zoneless')
        BY <1>1, <1>2, <1>7, <2>6, <3>4 DEF Zoned, EventOk
      <4> QED
        BY <4>1 DEF Zoned
    <3> HIDE DEF h
    <3> QED
      BY <1>1, <1>2, <1>5, <1>9, <2>1, <2>6, <3>1, <3>2, <3>5, <3>6, <3>7
      DEF HandOk
  <2>5. HandsInv'
    BY <2>3, <2>4 DEF HandsInv
  <2> QED
    BY <1>3, <1>6, <1>9, <2>2, <2>5
<1>10. CASE e.wallet # NoOne /\ RaisesEarly(e)
  <2>1. PICK w : w = e.wallet
    OBVIOUS
  <2>2. /\ UNCHANGED hand /\ counts' = Counting(e, FALSE)
        /\ excused' = [excused EXCEPT ![w] = excused[w] \cup {"zone"}]
    BY <1>10, <2>1 DEF Take
  <2>3. w \in Wallet /\ zoneless'
    BY <1>1, <1>2, <1>10, <2>1 DEF EventOk, RaisesEarly
  <2>4. /\ counts' \in [Wallet -> Count]
        /\ counts'[w].tasks = counts[w].tasks + One(~Derived(e))
        /\ counts'[w].alerts = counts[w].alerts + One(FALSE)
        /\ \A x \in Wallet : x # w => counts'[x] = counts[x]
        /\ \A x \in Wallet : /\ counts[x] \in Count /\ counts'[x] \in Count
                             /\ counts[x].txs <= counts'[x].txs
                             /\ counts[x].trades <= counts'[x].trades
    BY <2>1, <2>2, <2>3, CountingOk DEF ShapeInv
  <2>5. /\ excused' \in [Wallet -> SUBSET Reason]
        /\ excused'[w] = excused[w] \cup {"zone"}
        /\ \A x \in Wallet : x # w => excused'[x] = excused[x]
    BY <2>2, <2>3 DEF ShapeInv, Reason
  <2>6. ShapeInv'
    BY <1>2, <1>6, <1>7, <2>2, <2>4, <2>5 DEF ShapeInv
  <2>7. UpdatesKept'
    <3> SUFFICES ASSUME NEW x \in Wallet
                 PROVE  /\ Loaded(x)'.txs <= counts'[x].txs
                        /\ Loaded(x)'.position.trades <= counts'[x].trades
                        /\ excused'[x] \subseteq {"race", "database", "zone"}
                        /\ "zone" \in excused'[x] => zoneless'
                        /\ excused'[x] = {} =>
                             /\ Loaded(x)'.txs = counts'[x].txs
                             /\ Loaded(x)'.position.trades = counts'[x].trades
      BY DEF UpdatesKept
    <3>1. /\ Loaded(x).txs <= counts[x].txs
          /\ Loaded(x).position.trades <= counts[x].trades
          /\ ProfileOk(Loaded(x))
          /\ excused'[x] \subseteq {"race", "database", "zone"}
      BY <2>5, LoadedOk DEF UpdatesKept, Reason
    <3>2. /\ Loaded(x).txs <= counts'[x].txs
          /\ Loaded(x).position.trades <= counts'[x].trades
      BY <2>4, <3>1 DEF Count, ProfileOk
    <3>3. excused'[x] = {} => x # w /\ excused[x] = {}
      BY <2>5
    <3> QED
      BY <1>9, <2>3, <2>4, <3>1, <3>2, <3>3 DEF UpdatesKept
  <2>8. AlertsEnd'
    <3> SUFFICES ASSUME NEW x \in Wallet \ Followed
                 PROVE  counts'[x].alerts <= counts'[x].tasks
      BY DEF AlertsEnd
    <3>1. counts[x].alerts <= counts[x].tasks /\ counts[x] \in Count
      BY <2>4 DEF AlertsEnd
    <3>2. One(~Derived(e)) \in Nat /\ counts'[w].alerts = counts[w].alerts
      <4>1. counts'[w].alerts = counts[w].alerts + 0
        BY <2>4 DEF One
      <4>2. counts[w].alerts \in Nat
        BY <2>3, <2>4 DEF Count
      <4> QED
        BY <4>1, <4>2 DEF One
    <3>3. CASE x = w
      <4>1. /\ counts[w].alerts \in Nat /\ counts[w].tasks \in Nat
            /\ counts[w].alerts <= counts[w].tasks
        BY <3>1, <3>3 DEF Count
      <4> QED
        BY <2>4, <3>2, <3>3, <4>1
    <3>4. CASE x # w
      BY <2>4, <3>1, <3>4
    <3> QED
      BY <3>3, <3>4
  <2>9. ASSUME NEW j \in Instance, hand'[j] # Idle
        PROVE  HandOk(j)'
    <3>1. hand'[j] = hand[j] /\ HandOk(j)
      BY <2>2, <2>9 DEF HandsInv
    <3> QED
      BY <1>2, <1>7, <1>9, <2>4, <3>1, HandStays
  <2> QED
    BY <1>3, <1>6, <1>9, <2>6, <2>7, <2>8, <2>9 DEF HandsInv
<1> QED
  BY <1>4, <1>5, <1>10

LEMMA CrashStep ==
  ASSUME IInv, NEW i \in Instance, Crash(i)
  PROVE  IInv'
<1> USE DEF IInv
<1>1. UNCHANGED <<store, now, counts, excused, zoneless>>
  BY DEF Crash
<1>2. hand' = [hand EXCEPT ![i] = Idle]
  BY DEF Crash
<1>3. MemInv' /\ DOMAIN mem' = Instance /\ DOMAIN delivered' = Instance
  <2>1. /\ mem' = [mem EXCEPT ![i] = NewMemory]
        /\ delivered' = [delivered EXCEPT ![i] = {}]
    BY DEF Crash
  <2>2. ASSUME NEW j \in Instance PROVE MemOk(mem'[j], delivered'[j])
    BY <2>1, NewMemoryOk DEF MemInv, ShapeInv
  <2> QED
    BY <2>1, <2>2 DEF MemInv, ShapeInv
<1>4. ShapeInv' /\ StoreInv' /\ UpdatesKept' /\ AlertsEnd'
  BY <1>1, <1>2, <1>3
  DEF ShapeInv, StoreInv, UpdatesKept, AlertsEnd, Loaded, Zoned
<1>5. TopicInv'
  <2>1. CASE hand[i] = Idle
    BY <1>1, <2>1 DEF Crash, TopicInv
  <2>2. CASE hand[i] # Idle
    <3>1. EventOk(hand[i].event, DOMAIN store)
      BY <2>2 DEF HandsInv, HandOk
    <3>2. BagToSet(topic') = BagToSet(topic) \cup {hand[i].event}
      BY <2>2, BagFacts DEF Crash
    <3> QED
      BY <1>1, <3>1, <3>2 DEF TopicInv
  <2> QED
    BY <2>1, <2>2
<1>6. ASSUME NEW j \in Instance, hand'[j] # Idle
      PROVE  HandOk(j)'
  <2>1. hand'[j] = hand[j] /\ HandOk(j)
    BY <1>2, <1>6 DEF ShapeInv, HandsInv
  <2>2. \A x \in Wallet : /\ counts'[x] \in Count
                          /\ counts[x].txs <= counts'[x].txs
                          /\ counts[x].trades <= counts'[x].trades
    BY <1>1 DEF ShapeInv, Count
  <2>3. \A x : Loaded(x)' = Loaded(x)
    BY <1>1 DEF Loaded
  <2> QED
    BY <1>1, <2>1, <2>2, <2>3, HandStays
<1> QED
  BY <1>3, <1>4, <1>5, <1>6 DEF HandsInv

\* A task ends: its profile is saved, the wallet's counts catch up with it and
\* the copies in other hands are outdated; or it is lost, for a reason that is
\* noted.
LEMMA EndedStep ==
  ASSUME IInv, NEW i \in Instance, hand[i] # Idle,
         NEW lost \in SUBSET {"database", "zone"}, "zone" \in lost => zoneless,
         NEW alert, alert => lost = {},
         alert => \/ hand[i].event.wallet \in Followed \/ LabelChange(hand[i])
                  \/ hand[i].event.token,
         Ended(i, lost, alert),
         MemInv', DOMAIN mem' = Instance, UNCHANGED <<delivered, now, zoneless>>
  PROVE  IInv'
<1> USE DEF IInv
<1>1. PICK h : h = hand[i]
  OBVIOUS
<1>2. PICK w : w = h.event.wallet
  OBVIOUS
<1>3. PICK saved : saved = (lost = {})
  OBVIOUS
<1>4. HandOk(i)
  BY DEF HandsInv
<1>5. /\ w \in Wallet /\ w # NoOne /\ h.stale \in BOOLEAN
      /\ Labelled(h.profile) /\ Zoned(h.profile)
      /\ EventOk(h.event, DOMAIN store)
      /\ h.profile.txs <= counts[w].txs + One(ShowsTransaction(h.event))
      /\ h.profile.position.trades
           <= counts[w].trades + One(ShowsTrade(h.event))
      /\ ~h.stale =>
           /\ h.profile.txs = Loaded(w).txs + One(ShowsTransaction(h.event))
           /\ h.profile.position.trades =
                Loaded(w).position.trades + One(ShowsTrade(h.event))
  BY <1>1, <1>2, <1>4 DEF HandOk
<1>6. alert /\ w \notin Followed => ~Derived(h.event)
  BY <1>1, <1>2, <1>4 DEF HandOk, EventOk, LabelChange
<1>7. /\ store' = IF saved THEN Put(store, w, h.profile) ELSE store
      /\ topic' = IF alert THEN topic (+) SetToBag({Alert(w)}) ELSE topic
      /\ excused' = [excused EXCEPT ![w] =
            excused[w] \cup lost \cup (IF h.stale THEN {"race"} ELSE {})]
      /\ counts' = Counting(h.event, alert)
  BY <1>1, <1>2, <1>3, Zenon DEF Ended
<1>8. hand' = [j \in Instance |->
        IF j = i THEN Idle
        ELSE IF saved /\ hand[j] # Idle /\ hand[j].event.wallet = w
        THEN [hand[j] EXCEPT !.stale = TRUE]
        ELSE hand[j]]
  BY <1>1, <1>2, <1>3, Zenon DEF Ended
<1>9. /\ counts' \in [Wallet -> Count]
      /\ counts'[w].txs = counts[w].txs + One(ShowsTransaction(h.event))
      /\ counts'[w].trades = counts[w].trades + One(ShowsTrade(h.event))
      /\ counts'[w].tasks = counts[w].tasks + One(~Derived(h.event))
      /\ counts'[w].alerts = counts[w].alerts + One(alert)
      /\ \A x \in Wallet : x # w => counts'[x] = counts[x]
      /\ \A x \in Wallet : /\ counts[x] \in Count /\ counts'[x] \in Count
                           /\ counts[x].txs <= counts'[x].txs
                           /\ counts[x].trades <= counts'[x].trades
  BY <1>2, <1>5, <1>7, CountingOk DEF ShapeInv
<1>10. /\ excused' \in [Wallet -> SUBSET Reason]
       /\ excused'[w] =
            excused[w] \cup lost \cup (IF h.stale THEN {"race"} ELSE {})
       /\ \A x \in Wallet : x # w => excused'[x] = excused[x]
  BY <1>5, <1>7 DEF ShapeInv, Reason
<1>12. /\ DOMAIN store' = IF saved THEN DOMAIN store \cup {w} ELSE DOMAIN store
       /\ saved => store'[w] = h.profile
       /\ \A x \in DOMAIN store : x # w => store'[x] = store[x]
       /\ ~saved => store' = store
  <2>1. CASE saved
    BY <1>7, <2>1 DEF Put
  <2>2. CASE ~saved
    BY <1>7, <2>2
  <2> QED
    BY <2>1, <2>2
<1>13. \A x : x # w \/ ~saved => Loaded(x)' = Loaded(x)
  BY <1>12 DEF Loaded
<1>14. saved => Loaded(w)' = h.profile
  BY <1>12 DEF Loaded
<1>15. ShapeInv'
  BY <1>8, <1>9, <1>10 DEF ShapeInv
<1>16. StoreInv'
  BY <1>5, <1>12 DEF StoreInv, Zoned
<1>17. TopicInv'
  <2>1. \A e : EventOk(e, DOMAIN store) => EventOk(e, DOMAIN store')
    BY <1>12, EventStays
  <2>2. CASE ~alert
    BY <1>7, <2>1, <2>2 DEF TopicInv
  <2>3. CASE alert
    <3>1. topic' = topic (+) SetToBag({Alert(w)})
      BY <1>7, <2>3
    <3>2. BagToSet(topic') = BagToSet(topic) \cup {Alert(w)}
      BY <3>1, BagFacts
    <3>3. EventOk(Alert(w), DOMAIN store')
      BY <1>3, <1>5, <1>12, <2>3, AlertOk
    <3> QED
      BY <2>1, <3>2, <3>3 DEF TopicInv
  <2> QED
    BY <2>2, <2>3
<1>18. UpdatesKept'
  <2> SUFFICES ASSUME NEW x \in Wallet
               PROVE  /\ Loaded(x)'.txs <= counts'[x].txs
                      /\ Loaded(x)'.position.trades <= counts'[x].trades
                      /\ excused'[x] \subseteq {"race", "database", "zone"}
                      /\ "zone" \in excused'[x] => zoneless'
                      /\ excused'[x] = {} =>
                           /\ Loaded(x)'.txs = counts'[x].txs
                           /\ Loaded(x)'.position.trades = counts'[x].trades
    BY DEF UpdatesKept
  <2>4. excused'[x] \subseteq {"race", "database", "zone"}
    BY <1>10 DEF Reason
  <2>5. "zone" \in excused'[x] => zoneless'
    <3>1. "zone" \in excused'[x] => "zone" \in excused[x] \/ "zone" \in lost
      BY <1>10
    <3> QED
      BY <3>1 DEF UpdatesKept
  <2>1. CASE x # w
    <3>1. Loaded(x)' = Loaded(x) /\ excused'[x] = excused[x]
      BY <1>10, <1>13, <2>1
    <3> QED
      BY <1>9, <2>1, <2>4, <2>5, <3>1 DEF UpdatesKept
  <2>2. CASE x = w /\ saved
    <3>1. /\ h.profile.txs <= counts'[w].txs
          /\ h.profile.position.trades <= counts'[w].trades
      BY <1>5, <1>9
    <3>2. excused'[w] = {} => excused[w] = {} /\ ~h.stale
      BY <1>10
    <3>3. excused'[w] = {} =>
            /\ h.profile.txs = counts'[w].txs
            /\ h.profile.position.trades = counts'[w].trades
      BY <1>5, <1>9, <3>2 DEF UpdatesKept
    <3> QED
      BY <1>14, <2>2, <2>4, <2>5, <3>1, <3>3
  <2>3. CASE x = w /\ ~saved
    <3>1. Loaded(x)' = Loaded(x) /\ excused'[x] # {}
      BY <1>3, <1>10, <1>13, <2>3
    <3>2. Loaded(x).txs \in Nat /\ Loaded(x).position.trades \in Nat
      BY LoadedOk DEF ProfileOk
    <3>3. /\ Loaded(x).txs <= counts[x].txs
          /\ Loaded(x).position.trades <= counts[x].trades
      BY DEF UpdatesKept
    <3> QED
      BY <1>9, <2>4, <2>5, <3>1, <3>2, <3>3 DEF Count
  <2> QED
    BY <2>1, <2>2, <2>3
<1>19. AlertsEnd'
  <2> SUFFICES ASSUME NEW x \in Wallet \ Followed
               PROVE  counts'[x].alerts <= counts'[x].tasks
    BY DEF AlertsEnd
  <2>1. CASE x # w
    BY <1>9, <2>1 DEF AlertsEnd
  <2>2. CASE x = w
    <3>1. /\ counts[w].alerts <= counts[w].tasks
          /\ counts[w].alerts \in Nat /\ counts[w].tasks \in Nat
      BY <1>9, <2>2 DEF AlertsEnd, Count
    <3>2. alert => ~Derived(h.event)
      BY <1>6, <2>2
    <3>3. /\ One(alert) <= One(~Derived(h.event))
          /\ One(alert) \in Nat /\ One(~Derived(h.event)) \in Nat
      BY <3>2 DEF One
    <3> QED
      BY <1>9, <2>2, <3>1, <3>3
  <2> QED
    BY <2>1, <2>2
<1>20. ASSUME NEW j \in Instance, hand'[j] # Idle
       PROVE  HandOk(j)'
  <2>1. j # i /\ hand[j] # Idle /\ HandOk(j)
    BY <1>8, <1>20 DEF HandsInv
  <2>2. PICK g : g = hand[j]
    OBVIOUS
  <2>3. DOMAIN g = HandField /\ g.stale \in BOOLEAN
    BY <2>1, <2>2 DEF HandOk
  <2>4. DOMAIN store \subseteq DOMAIN store'
    BY <1>12
  <2>5. CASE g.event.wallet # w \/ ~saved
    <3>1. hand'[j] = g
      BY <1>8, <2>1, <2>2, <2>5
    <3>2. Loaded(hand[j].event.wallet)' = Loaded(hand[j].event.wallet)
      <4>1. Loaded(g.event.wallet)' = Loaded(g.event.wallet)
        BY <1>13, <2>5
      <4> QED
        BY <2>2, <3>1, <4>1
    <3> QED
      BY <1>9, <2>1, <2>2, <2>4, <3>1, <3>2, HandStays
  <2>6. CASE g.event.wallet = w /\ saved
    <3>1. hand'[j] = [g EXCEPT !.stale = TRUE]
      BY <1>8, <2>1, <2>2, <2>6
    <3>2. /\ DOMAIN hand'[j] = HandField
          /\ hand'[j].event = g.event /\ hand'[j].profile = g.profile
          /\ hand'[j].old = g.old /\ hand'[j].stale = TRUE
          /\ hand'[j].pc = g.pc
      BY <2>3, <3>1 DEF HandField
    <3>3. /\ g.pc \in {"relate", "save"}
          /\ EventOk(g.event, DOMAIN store')
          /\ Labelled(g.profile)
          /\ Derived(g.event) => g.old = g.profile.labels
      BY <2>1, <2>2, <2>4, EventStays DEF HandOk
    <3>4. Zoned(g.profile)'
      BY <2>1, <2>2 DEF HandOk, Zoned
    <3>5. /\ g.profile.txs <= counts[w].txs + One(ShowsTransaction(g.event))
          /\ g.profile.position.trades
               <= counts[w].trades + One(ShowsTrade(g.event))
      BY <2>1, <2>2, <2>6 DEF HandOk
    <3>6. /\ g.profile.txs <= counts'[w].txs + One(ShowsTransaction(g.event))
          /\ g.profile.position.trades
               <= counts'[w].trades + One(ShowsTrade(g.event))
      <4>1. /\ g.profile.txs \in Nat /\ g.profile.position.trades \in Nat
            /\ One(ShowsTransaction(g.event)) \in Nat
            /\ One(ShowsTrade(g.event)) \in Nat
        BY <3>3 DEF Labelled, ProfileOk, One
      <4>2. counts[w] \in Count /\ counts'[w] \in Count
        BY <1>5, <1>9
      <4> QED
        BY <1>5, <1>9, <3>5, <4>1, <4>2 DEF Count
    <3> QED
      BY <1>5, <2>6, <3>2, <3>3, <3>4, <3>6 DEF HandOk
  <2> QED
    BY <2>5, <2>6
<1>21. HandsInv'
  BY <1>20 DEF HandsInv
<1> QED
  BY <1>15, <1>16, <1>17, <1>18, <1>19, <1>21

\* Times with and without a zone meet only after an event that has none.
LEMMA ClashIsZoneless ==
  ASSUME StoreInv, NEW h, Zoned(h.profile), NEW w,
         NEW all, all = Over(store, [x \in {w} |-> h.profile]),
         FundingClash(all) \/ ChainClash(all)
  PROVE  zoneless
<1>1. \A a \in DOMAIN all : Zoned(all[a])
  BY DEF Over, StoreInv
<1>2. \E a \in DOMAIN all : \E f \in all[a].funder : f.naive
  <2>1. CASE ChainClash(all)
    BY <2>1 DEF ChainClash
  <2>2. CASE FundingClash(all)
    <3>1. PICK a \in DOMAIN all, b \in DOMAIN all :
            \E f \in all[a].funder, g \in all[b].funder : f.naive # g.naive
      BY <2>2 DEF FundingClash
    <3>2. PICK f \in all[a].funder, g \in all[b].funder : f.naive # g.naive
      BY <3>1
    <3>3. f.naive \in BOOLEAN /\ g.naive \in BOOLEAN
      BY <1>1, <3>1, <3>2 DEF Zoned
    <3>4. f.naive \/ g.naive
      BY <3>2, <3>3
    <3> QED
      BY <3>1, <3>2, <3>4
  <2> QED
    BY <2>1, <2>2
<1> QED
  BY <1>1, <1>2 DEF Zoned

\* The relations of the profile add edges, and may end the task.
LEMMA RelateStep ==
  ASSUME IInv, NEW i \in Instance, Relate(i)
  PROVE  IInv'
<1> USE DEF IInv
<1>1. PICK all : all = Over(store, [w \in {hand[i].event.wallet} |->
                                      hand[i].profile])
  OBVIOUS
<1>2. hand[i] # Idle /\ HandOk(i) /\ UNCHANGED <<now, delivered, zoneless>>
  BY DEF Relate, HandsInv
<1>3. MemInv' /\ DOMAIN mem' = Instance
  <2>1. CASE FundingClash(all)
    <3>1. UNCHANGED mem
      BY <1>1, <2>1 DEF Relate
    <3> QED
      BY <1>2, <3>1 DEF MemInv, ShapeInv
  <2>2. CASE ~FundingClash(all)
    <3>1. PICK some \in [Close(all) -> {0, 70, 85}] :
            mem' = [mem EXCEPT ![i].edges = WithEdges(@, CoTraders(some))]
      BY <1>1, <2>2 DEF Relate
    <3>2. PICK n : n = [mem[i] EXCEPT !.edges =
                          WithEdges(mem[i].edges, CoTraders(some))]
      OBVIOUS
    <3>3. mem' = [mem EXCEPT ![i] = n]
      BY <3>1, <3>2
    <3>4. MemOk(n, delivered[i])
      BY <3>2, EdgesOk, CoTradersOk DEF MemInv
    <3>5. ASSUME NEW j \in Instance PROVE MemOk(mem'[j], delivered'[j])
      BY <1>2, <3>3, <3>4 DEF MemInv, ShapeInv
    <3> QED
      BY <3>3, <3>5 DEF MemInv, ShapeInv
  <2> QED
    BY <2>1, <2>2
<1>4. CASE FundingClash(all) \/ (hand[i].event.token /\ ChainClash(all))
  <2>1. Ended(i, {"zone"}, FALSE)
    BY <1>1, <1>4 DEF Relate
  <2>2. zoneless
    <3>1. PICK h, w : h = hand[i] /\ w = hand[i].event.wallet
      OBVIOUS
    <3>2. Zoned(h.profile) /\ all = Over(store, [x \in {w} |-> h.profile])
      BY <1>1, <1>2, <3>1 DEF HandOk
    <3> QED
      BY <1>4, <3>2, ClashIsZoneless
  <2> QED
    BY <1>2, <1>3, <2>1, <2>2, EndedStep
<1>5. CASE ~(FundingClash(all) \/ (hand[i].event.token /\ ChainClash(all)))
  <2>1. /\ hand' = [hand EXCEPT ![i].pc = "save"]
        /\ UNCHANGED <<topic, store, counts, excused>>
    BY <1>1, <1>5 DEF Relate
  <2>2. ShapeInv' /\ TopicInv' /\ StoreInv' /\ UpdatesKept' /\ AlertsEnd'
    BY <1>2, <1>3, <2>1
    DEF ShapeInv, TopicInv, StoreInv, UpdatesKept, AlertsEnd, Loaded, Zoned
  <2>3. \A x : Loaded(x)' = Loaded(x)
    BY <2>1 DEF Loaded
  <2>4. ASSUME NEW j \in Instance, hand'[j] # Idle
        PROVE  HandOk(j)'
    <3>1. CASE j # i
      <4>1. hand'[j] = hand[j] /\ HandOk(j)
        BY <2>1, <2>4, <3>1 DEF ShapeInv, HandsInv
      <4>2. \A x \in Wallet : /\ counts'[x] \in Count
                              /\ counts[x].txs <= counts'[x].txs
                              /\ counts[x].trades <= counts'[x].trades
        BY <2>1 DEF ShapeInv, Count
      <4> QED
        BY <1>2, <2>1, <2>3, <4>1, <4>2, HandStays
    <3>2. CASE j = i
      <4>1. /\ DOMAIN hand'[i] = HandField
            /\ hand'[i].event = hand[i].event
            /\ hand'[i].profile = hand[i].profile
            /\ hand'[i].old = hand[i].old /\ hand'[i].stale = hand[i].stale
            /\ hand'[i].pc = "save"
        BY <1>2, <2>1 DEF ShapeInv, HandOk, HandField
      <4> QED
        BY <1>2, <2>1, <3>2, <4>1 DEF HandOk, Loaded, Zoned
    <3> QED
      BY <3>1, <3>2
  <2> QED
    BY <1>3, <2>2, <2>4 DEF HandsInv
<1> QED
  BY <1>4, <1>5

LEMMA SaveStep ==
  ASSUME IInv, NEW i \in Instance, Save(i)
  PROVE  IInv'
<1> USE DEF IInv
<1>1. hand[i] # Idle /\ UNCHANGED <<mem, now, delivered, zoneless>>
  BY DEF Save
<1>2. PICK outcome \in {"saved", "not published", "not saved"},
           downgrade \in BOOLEAN :
        Ended(i, IF outcome = "not saved" THEN {"database"} ELSE {},
              outcome = "saved"
                /\ \/ hand[i].event.wallet \in Followed
                   \/ LabelChange(hand[i])
                   \/ downgrade /\ hand[i].event.token)
  BY DEF Save
<1>3. PICK lost, alert :
        /\ lost = IF outcome = "not saved" THEN {"database"} ELSE {}
        /\ alert = (outcome = "saved"
                      /\ \/ hand[i].event.wallet \in Followed
                         \/ LabelChange(hand[i])
                         \/ downgrade /\ hand[i].event.token)
  OBVIOUS
<1>4. Ended(i, lost, alert)
  BY <1>2, <1>3
<1>5. /\ lost \in SUBSET {"database", "zone"} /\ "zone" \notin lost
      /\ alert => lost = {}
      /\ alert => \/ hand[i].event.wallet \in Followed
                  \/ LabelChange(hand[i]) \/ hand[i].event.token
  BY <1>3
<1>6. MemInv' /\ DOMAIN mem' = Instance
  BY <1>1 DEF MemInv, ShapeInv
<1> QED
  BY <1>1, <1>4, <1>5, <1>6, EndedStep

LEMMA StutterStep ==
  ASSUME IInv, now' \in Int,
         UNCHANGED <<topic, hand, mem, store, delivered, counts, excused,
                     zoneless>>
  PROVE  IInv'
BY DEF IInv, ShapeInv, MemInv, HandsInv, HandOk, TopicInv, StoreInv,
       UpdatesKept, AlertsEnd, Loaded, Zoned

LEMMA StepInv == IInv /\ [WorkflowsNext]_workflowVars => IInv'
<1> SUFFICES ASSUME IInv, [WorkflowsNext]_workflowVars PROVE IInv'
  OBVIOUS
<1>1. ASSUME NEW i \in Instance, NEW e \in Pending, Take(i, e) PROVE IInv'
  BY <1>1, TakeStep
<1>2. ASSUME NEW i \in Instance, Relate(i) PROVE IInv'
  BY <1>2, RelateStep
<1>3. ASSUME NEW i \in Instance, Save(i) PROVE IInv'
  BY <1>3, SaveStep
<1>4. ASSUME NEW i \in Instance, Crash(i) PROVE IInv'
  BY <1>4, CrashStep
<1>7. now \in Int
  BY DEF IInv, ShapeInv
<1>5. CASE Tick
  BY <1>5, <1>7, StutterStep DEF Tick
<1>6. CASE UNCHANGED workflowVars
  BY <1>6, <1>7, StutterStep DEF workflowVars
<1> QED
  BY <1>1, <1>2, <1>3, <1>4, <1>5, <1>6 DEF WorkflowsNext

----------------------------------------------------------------------------
\* A transaction or a trade is missing from a saved profile only after a race,
\* a failure of the database or a comparison of times with and without a zone,
\* and none is ever recorded twice for one handling (wallet.py 86-262): for any
\* instances, wallets, events and scores.
THEOREM UpdatesAreKept == WorkflowsSpec => []UpdatesKept
<1>1. IInv => UpdatesKept
  BY DEF IInv
<1> QED
  BY <1>1, InitInv, StepInv, PTL DEF WorkflowsSpec

\* The alerts of a wallet that nobody follows are no more than the events from
\* outside that named it (wallet.py 265-290).
THEOREM AlertsComeToAnEnd == WorkflowsSpec => []AlertsEnd
<1>1. IInv => AlertsEnd
  BY DEF IInv
<1> QED
  BY <1>1, InitInv, StepInv, PTL DEF WorkflowsSpec

LEMMA SomeLabel == ASSUME NEW p PROVE Labels(p) # {}
  BY DEF Labels

\* The types: profiles and tasks of known wallets, a balance that is never
\* negative and never larger than what was bought, counters that do not exceed
\* the transactions, findings and confidences in range (profiler.py 48-148,
\* volume_engine.py 136-214, graph.py 31-62).
THEOREM TypeCorrect == WorkflowsSpec => []WorkflowsTypeOK
<1>1. IInv => WorkflowsTypeOK
  <2> SUFFICES ASSUME IInv PROVE WorkflowsTypeOK
    OBVIOUS
  <2> USE DEF IInv
  <2>1. DOMAIN store \subseteq Wallet
    BY DEF StoreInv
  <2>2. ASSUME NEW w \in DOMAIN store
        PROVE  /\ store[w].position.balance \in 0..store[w].position.bought
               /\ store[w].labels # {}
               /\ store[w].swaps + store[w].transfers + store[w].liquidity
                    + store[w].deployed <= store[w].txs
    BY SomeLabel DEF StoreInv, Labelled, ProfileOk
  <2>3. ASSUME NEW i \in Instance
        PROVE  /\ \A e \in DOMAIN mem[i].edges :
                    mem[i].edges[e] \in {50, 70, 80, 85, 99}
               /\ mem[i].analysis.wash \in 0..100
               /\ mem[i].analysis.organic \in 0..Volume(mem[i].volume)
               /\ (hand[i] # Idle) => hand[i].pc \in {"relate", "save"}
    <3>1. MemOk(mem[i], delivered[i])
      BY DEF MemInv
    <3>2. /\ mem[i].analysis.wash \in 0..100
          /\ mem[i].analysis.organic \in 0..Volume(mem[i].volume)
      BY <3>1, MemGives
    <3>3. \A e \in DOMAIN mem[i].edges :
            mem[i].edges[e] \in {50, 70, 80, 85, 99}
      BY <3>1 DEF MemOk, Confidence
    <3>4. (hand[i] # Idle) => hand[i].pc \in {"relate", "save"}
      BY DEF HandsInv, HandOk
    <3> QED
      BY <3>2, <3>3, <3>4
  <2> QED
    BY <2>1, <2>2, <2>3 DEF WorkflowsTypeOK
<1> QED
  BY <1>1, InitInv, StepInv, PTL DEF WorkflowsSpec

\* The trades that an instance publishes come back to the topic it consumes,
\* and are never all there is to a finding: one deal of a wash pair is the sale
\* of an event from outside that the instance handled, and a trade of its flow
\* or a funding is that of such an event (market.py 92-110, intelligence.py
\* 74-153).
THEOREM FindingsRestOnInputs == WorkflowsSpec => []FindingsNeedAnInput
<1>1. IInv => FindingsNeedAnInput
  <2> SUFFICES ASSUME IInv, NEW i \in Instance
               PROVE  LET m == mem[i]
                          Sold(k) ==
                            \E e \in delivered[i] :
                              /\ e.trade = "sell"
                              /\ e.tx.sender = m.volume[k].trader
                              /\ e.tx.usd = m.volume[k].usd
                      IN
                      /\ \A p \in WashPairs(m.volume) : Sold(p[1]) \/ Sold(p[2])
                      /\ m.analysis.suspects # {} =>
                           \E e \in delivered[i] : e.trade = "sell"
                      /\ \A t \in ToSet(m.flow.trades) :
                           \E e \in delivered[i] :
                             e.tx.sender = t.trader /\ e.tx.at = t.at
                      /\ \A w \in DOMAIN m.funded :
                           \E e \in delivered[i] :
                             e.tx.receiver = w /\ e.tx.sender = m.funded[w]
    BY DEF FindingsNeedAnInput
  <2>1. MemOk(mem[i], delivered[i])
    BY DEF IInv, MemInv
  <2>2. /\ \A p \in WashPairs(mem[i].volume) :
             \/ SoldIn(delivered[i], mem[i].volume[p[1]])
             \/ SoldIn(delivered[i], mem[i].volume[p[2]])
        /\ mem[i].analysis.suspects # {} =>
             \E e \in delivered[i] : e.trade = "sell"
    BY <2>1, MemGives
  <2> QED
    BY <2>1, <2>2 DEF MemOk, SoldIn
<1> QED
  BY <1>1, InitInv, StepInv, PTL DEF WorkflowsSpec
=============================================================================
