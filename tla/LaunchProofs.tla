---------------------------- MODULE LaunchProofs ----------------------------
(***************************************************************************)
(* Proofs about the launch detector and the safety gate: their types, that *)
(* the ratio of bot transactions falls short of the truth only by what     *)
(* float truncation loses, that the first buy leads the milestones of a    *)
(* launch, that overlapping calls repeat the rapid-volume milestone at     *)
(* most once per task, and that the gate follows the last check; for any   *)
(* number of tasks, buyers and calls and any roundings of the float.       *)
(***************************************************************************)
EXTENDS SafetyGate, SequenceTheorems, FiniteSetTheorems, TLAPS

MetricsType ==
  [registered : BOOLEAN, start : Nat, initial : Depth, liquidity : Depth,
   buyers : SUBSET Wallet, buys : Nat, sells : Nat,
   bot : Nat \X (Nat \ {0}), minutes : Nat]

\* What keeps the bounded figures in their bounds.
FiguresOk ==
  /\ metrics \in MetricsType
  /\ Total(metrics) <= calls
  /\ bots <= calls

\* The ratio of metrics m covers b swaps by bots but for the t lost ones.
Covers(m, b, t) ==
  /\ b \in Nat /\ t \in 0..b
  /\ m.bot[1] <= m.bot[2]
  /\ (b - t) * m.bot[2] <= m.bot[1] * Total(m)
  /\ b > 0 => m.bot[1] > 0

\* The milestones a swap may give after the first buy of a launch.
Later == MilestoneType \ {"FIRST_BUY", "SIGNIFICANT_LIQUIDITY_INCREASE"}

\* In list h, with b buys in launch l, the first buy leads once there is one.
HistoryOk(h, l, b) ==
  /\ b > 0 => \E j \in DOMAIN h : h[j] = Milestone("FIRST_BUY", l)
  /\ b = 0 => \A j \in DOMAIN h : h[j] # Milestone("FIRST_BUY", l)
  /\ \A i \in DOMAIN h :
       (h[i].launch = l /\ h[i].type # "SIGNIFICANT_LIQUIDITY_INCREASE")
         => \E j \in 1..i :
              /\ h[j] = Milestone("FIRST_BUY", l)
              /\ \A k \in DOMAIN h : h[k] = h[j] => k = j

\* Milestone x may still come in launch l with b buys: it is no first buy, and
\* a swap of this launch gave it only after the first buy.
MayFollow(x, l, b) ==
  /\ x.type # "FIRST_BUY" /\ x.launch <= l
  /\ x.launch = l /\ x.type # "SIGNIFICANT_LIQUIDITY_INCREASE" => b > 0

LeftOk(left, l, b) == \A i \in DOMAIN left : MayFollow(left[i], l, b)

HistoryInv ==
  /\ HistoryOk(history, launches, metrics.buys)
  /\ \A c \in Call : LeftOk(recording[c].left, launches, metrics.buys)

IInv == TypeOK /\ FiguresOk /\ Covers(metrics, bots, lost) /\ HistoryInv

----------------------------------------------------------------------------
\* int(ratio * n) keeps whole bounds of the quotient.
LEMMA DivLower ==
  ASSUME NEW a \in Nat, NEW d \in Nat \ {0}, NEW q \in Nat, q * d <= a
  PROVE  q <= a \div d
  OBVIOUS

LEMMA DivUpper ==
  ASSUME NEW a \in Nat, NEW d \in Nat \ {0}, NEW q \in Nat, a <= q * d
  PROVE  a \div d <= q /\ a \div d \in Nat
  OBVIOUS

LEMMA MulMono ==
  ASSUME NEW a \in Nat, NEW b \in Nat, NEW k \in Nat, a <= b
  PROVE  a * k <= b * k /\ k * a <= k * b /\ a * k \in Nat /\ k * a \in Nat
  OBVIOUS

\* What is recovered is the quotient or, if it is whole, one less: no swap is
\* taken from nothing.
LEMMA RecoveredBounds ==
  ASSUME NEW m \in MetricsType, NEW k \in Nat, Total(m) - 1 = k
  PROVE  LET q == (m.bot[1] * k) \div m.bot[2] IN
         /\ q \in Nat /\ Recovered(m) \in Nat
         /\ Recovered(m) = q - (IF Short(m) THEN 1 ELSE 0)
<1> DEFINE n == m.bot[1]
           d == m.bot[2]
           q == (n * k) \div d
<1>1. n \in Nat /\ d \in Nat \ {0}
  BY DEF MetricsType
<1>2. Recovered(m) = q - (IF Short(m) THEN 1 ELSE 0)
  BY DEF Recovered
<1>3. Short(m) => \E whole \in 1..(n * k) : n * k = whole * d
  BY FloatAssumption DEF Short
<1> HIDE DEF n, d
<1>4. n * k \in Nat
  BY <1>1
<1>5. q \in Nat
  BY <1>1, <1>4
<1>6. Short(m) => q >= 1
  <2> HAVE Short(m)
  <2>1. PICK whole \in 1..(n * k) : n * k = whole * d
    BY <1>3
  <2>2. whole \in Nat /\ whole >= 1 /\ whole * d <= n * k
    BY <1>1, <1>4, <2>1
  <2>3. whole <= q
    BY <1>1, <1>4, <2>2, DivLower
  <2> HIDE DEF q
  <2> QED
    BY <1>5, <2>2, <2>3
<1> HIDE DEF q
<1>7. Recovered(m) \in Nat
  BY <1>2, <1>5, <1>6
<1> QED
  BY <1>2, <1>5, <1>7 DEF q, n, d

\* The ratio of bot transactions after a swap that took metrics old to m.
SwapRatio(old, m, counted, isBot) ==
  LET q == (old.bot[1] * Total(old)) \div old.bot[2]
      r == q - (IF Short(counted) THEN 1 ELSE 0) IN
  /\ q \in Nat /\ r \in Nat
  /\ m.bot = IF isBot THEN <<r + 1, Total(old) + 1>> ELSE old.bot

\* A swap leaves the liquidity alone and counts once.
LEMMA SwapFigures ==
  ASSUME NEW old \in MetricsType, NEW w \in Wallet, NEW isBuy \in BOOLEAN,
         NEW isBot \in BOOLEAN, NEW ts \in Nat
  PROVE  LET m == AfterSwap(old, w, isBuy, isBot, ts) IN
         /\ m \in MetricsType
         /\ Total(m) = Total(old) + 1
         /\ m.buys = IF isBuy THEN old.buys + 1 ELSE old.buys
         /\ SwapRatio(old, m, WithSwap(old, w, isBuy), isBot)
<1> DEFINE counted == WithSwap(old, w, isBuy)
           m == AfterSwap(old, w, isBuy, isBot, ts)
           q == (old.bot[1] * Total(old)) \div old.bot[2]
           r == q - (IF Short(counted) THEN 1 ELSE 0)
<1>1. /\ counted \in MetricsType
      /\ Total(counted) = Total(old) + 1
      /\ counted.bot = old.bot
      /\ counted.buys = IF isBuy THEN old.buys + 1 ELSE old.buys
  <2>1. CASE isBuy
    <3>1. counted = [old EXCEPT !.buys = old.buys + 1,
                                !.buyers = old.buyers \cup {w}]
      BY <2>1 DEF WithSwap
    <3>2. old.buys + 1 \in Nat /\ old.buyers \cup {w} \in SUBSET Wallet
      BY DEF MetricsType
    <3>3. /\ counted \in MetricsType
          /\ counted.buys = old.buys + 1 /\ counted.sells = old.sells
          /\ counted.bot = old.bot
      BY <3>1, <3>2 DEF MetricsType
    <3>4. old.buys \in Nat /\ old.sells \in Nat
      BY DEF MetricsType
    <3> HIDE DEF counted
    <3> QED
      BY <2>1, <3>3, <3>4 DEF Total
  <2>2. CASE ~isBuy
    <3>1. counted = [old EXCEPT !.sells = old.sells + 1]
      BY <2>2 DEF WithSwap
    <3>2. old.sells + 1 \in Nat
      BY DEF MetricsType
    <3>3. /\ counted \in MetricsType
          /\ counted.buys = old.buys /\ counted.sells = old.sells + 1
          /\ counted.bot = old.bot
      BY <3>1, <3>2 DEF MetricsType
    <3>4. old.buys \in Nat /\ old.sells \in Nat
      BY DEF MetricsType
    <3> HIDE DEF counted
    <3> QED
      BY <2>2, <3>3, <3>4 DEF Total
  <2> QED
    BY <2>1, <2>2
<1>2. LaunchMinutes(old.start, ts) \in Nat
  BY DEF LaunchMinutes, Max2, MetricsType
<1>3. m = [counted EXCEPT !.minutes = LaunchMinutes(old.start, ts),
                          !.bot = BotRatio(counted, isBot)]
  BY DEF AfterSwap
<1>4. Total(old) \in Nat /\ old.bot \in Nat \X (Nat \ {0})
  BY DEF MetricsType, Total
<1> HIDE DEF counted, m
<1>5. q \in Nat /\ r \in Nat /\ Recovered(counted) = r
  <2>1. Total(counted) - 1 = Total(old)
    BY <1>1, <1>4
  <2> QED
    BY <1>1, <1>4, <2>1, RecoveredBounds
<1> HIDE DEF q, r
<1>6. /\ BotRatio(counted, isBot) \in Nat \X (Nat \ {0})
      /\ BotRatio(counted, isBot) =
           IF isBot THEN <<r + 1, Total(old) + 1>> ELSE old.bot
  BY <1>1, <1>4, <1>5 DEF BotRatio
<1>7. /\ m \in MetricsType
      /\ m.buys = counted.buys /\ m.sells = counted.sells
      /\ m.bot = BotRatio(counted, isBot)
  BY <1>1, <1>2, <1>3, <1>6 DEF MetricsType
<1>8. Total(m) = Total(counted)
  BY <1>7 DEF Total
<1> QED
  BY <1>1, <1>5, <1>6, <1>7, <1>8 
     DEF m, q, r, counted, SwapRatio

\* The ratio covers one more swap after a swap by a bot, unless the product
\* fell short, and the same number after a swap by a person.
LEMMA SwapCovers ==
  ASSUME NEW old \in MetricsType, NEW b \in Nat, NEW t \in Nat,
         Covers(old, b, t),
         NEW w \in Wallet, NEW isBuy \in BOOLEAN, NEW isBot \in BOOLEAN,
         NEW ts \in Nat
  PROVE  LET short == isBot /\ Short(WithSwap(old, w, isBuy)) IN
         Covers(AfterSwap(old, w, isBuy, isBot, ts),
                b + (IF isBot THEN 1 ELSE 0), t + (IF short THEN 1 ELSE 0))
<1> DEFINE m == AfterSwap(old, w, isBuy, isBot, ts)
           short == Short(WithSwap(old, w, isBuy))
           n == old.bot[1]
           d == old.bot[2]
           k == Total(old)
           q == (n * k) \div d
           e == IF short THEN 1 ELSE 0
           r == q - e
<1>1. /\ n \in Nat /\ d \in Nat \ {0} /\ k \in Nat /\ n <= d
      /\ t <= b /\ b - t \in Nat /\ (b - t) * d <= n * k
      /\ b > 0 => n > 0
  BY DEF MetricsType, Total, Covers
<1>2. /\ Total(m) = k + 1 /\ q \in Nat /\ r \in Nat
      /\ m.bot = IF isBot THEN <<r + 1, k + 1>> ELSE old.bot
  BY SwapFigures DEF SwapRatio
<1>3. e \in 0..1
  OBVIOUS
<1> HIDE DEF m, n, d, k, e
<1>4. CASE isBot
  <2>1. n * k \in Nat
    BY <1>1
  <2>2. b - t <= q
    BY <1>1, <2>1, DivLower
  <2>3. n * k <= k * d
    BY <1>1, MulMono
  <2>4. q <= k
    BY <1>1, <2>1, <2>3, DivUpper
  <2>5. r = q - e
    OBVIOUS
  <2> HIDE DEF q, r
  <2>6. /\ r + 1 <= k + 1 /\ r + 1 > 0 /\ r + 1 \in Nat /\ k + 1 \in Nat
        /\ (b + 1) - (t + e) \in Nat /\ t + e \in 0..(b + 1)
        /\ (b + 1) - (t + e) <= r + 1
    BY <1>1, <1>2, <1>3, <2>2, <2>4, <2>5
  <2> DEFINE x == (b + 1) - (t + e)
  <2>7. x * (k + 1) <= (r + 1) * (k + 1)
    <3> HIDE DEF x
    <3> QED
      BY <2>6, MulMono DEF x
  <2>8. m.bot[1] = r + 1 /\ m.bot[2] = k + 1
    BY <1>2, <1>4
  <2>9. Covers(m, b + 1, t + e)
    BY <1>2, <2>6, <2>7, <2>8 DEF Covers
  <2> QED
    BY <1>4, <2>9 DEF m, e
<1>5. CASE ~isBot
  <2>1. n * k <= n * (k + 1)
    <3>1. k + 1 \in Nat /\ k <= k + 1
      BY <1>1
    <3> QED
      BY <1>1, <3>1, MulMono
  <2>2. (b - t) * d \in Nat /\ n * k \in Nat /\ n * (k + 1) \in Nat
    BY <1>1
  <2>3. (b - t) * d <= n * (k + 1)
    BY <1>1, <2>1, <2>2
  <2>4. m.bot[1] = n /\ m.bot[2] = d
    BY <1>2, <1>5 DEF n, d
  <2>5. Covers(m, b, t)
    BY <1>1, <1>2, <2>3, <2>4 DEF Covers
  <2>6. b + 0 = b /\ t + 0 = t
    OBVIOUS
  <2> QED
    BY <1>5, <2>5, <2>6 DEF m
<1> QED
  BY <1>4, <1>5

----------------------------------------------------------------------------
\* How the list of milestones grows.

LEMMA HistoryStarts ==
  ASSUME NEW l \in Nat
  PROVE  HistoryOk(<<>>, l, 0)
  BY DEF HistoryOk

LEMMA BuysGrow ==
  ASSUME NEW h, NEW l \in Nat, NEW b \in Nat, NEW b2 \in Nat, b > 0, b2 > 0,
         HistoryOk(h, l, b)
  PROVE  HistoryOk(h, l, b2)
  BY DEF HistoryOk

LEMMA FirstBuyAppended ==
  ASSUME NEW h \in Seq(MilestoneRecord), NEW l \in 0..MaxLaunches,
         HistoryOk(h, l, 0)
  PROVE  HistoryOk(Append(h, Milestone("FIRST_BUY", l)), l, 1)
<1> DEFINE x == Milestone("FIRST_BUY", l)
           h2 == Append(h, x)
<1>1. /\ Len(h) \in Nat /\ DOMAIN h = 1..Len(h)
      /\ DOMAIN h2 = 1..(Len(h) + 1) /\ h2[Len(h) + 1] = x
      /\ \A i \in 1..Len(h) : h2[i] = h[i]
  OBVIOUS
<1>2. x.type # "SIGNIFICANT_LIQUIDITY_INCREASE" /\ x.launch = l
  BY DEF Milestone
<1>3. \A j \in 1..Len(h) : h[j] # x
  BY <1>1 DEF HistoryOk
<1>4. \A i \in 1..Len(h) :
        ~(h[i].launch = l /\ h[i].type # "SIGNIFICANT_LIQUIDITY_INCREASE")
  <2> SUFFICES ASSUME NEW i \in 1..Len(h), h[i].launch = l,
                      h[i].type # "SIGNIFICANT_LIQUIDITY_INCREASE"
               PROVE  FALSE
    OBVIOUS
  <2>1. PICK j \in 1..i : h[j] = x
    BY <1>1 DEF HistoryOk
  <2> QED
    BY <1>1, <1>3, <2>1
<1> HIDE DEF h2, x
<1>5. \A k \in DOMAIN h2 : h2[k] = x => k = Len(h) + 1
  BY <1>1, <1>3
<1>6. \A i \in DOMAIN h2 :
        (h2[i].launch = l /\ h2[i].type # "SIGNIFICANT_LIQUIDITY_INCREASE")
          => i = Len(h) + 1
  BY <1>1, <1>4
<1>7. Len(h) + 1 \in DOMAIN h2 /\ Len(h) + 1 \in 1..(Len(h) + 1)
  BY <1>1
<1> QED
  BY <1>1, <1>5, <1>6, <1>7 DEF HistoryOk, x, h2

LEMMA OtherAppended ==
  ASSUME NEW h \in Seq(MilestoneRecord), NEW l \in 0..MaxLaunches,
         NEW b \in Nat, NEW x \in MilestoneRecord,
         HistoryOk(h, l, b), MayFollow(x, l, b)
  PROVE  HistoryOk(Append(h, x), l, b)
<1> DEFINE f == Milestone("FIRST_BUY", l)
           h2 == Append(h, x)
<1>1. /\ Len(h) \in Nat /\ DOMAIN h = 1..Len(h)
      /\ DOMAIN h2 = 1..(Len(h) + 1) /\ h2[Len(h) + 1] = x
      /\ \A i \in 1..Len(h) : h2[i] = h[i]
  OBVIOUS
<1>2. x # f
  BY DEF MayFollow, Milestone
<1> HIDE DEF h2, f
<1>3. b > 0 => \E j \in DOMAIN h2 : h2[j] = f
  BY <1>1 DEF HistoryOk, f
<1>4. b = 0 => \A j \in DOMAIN h2 : h2[j] # f
  BY <1>1, <1>2 DEF HistoryOk, f
<1>5. ASSUME NEW i \in DOMAIN h2, h2[i].launch = l,
             h2[i].type # "SIGNIFICANT_LIQUIDITY_INCREASE"
      PROVE  \E j \in 1..i : h2[j] = f
                             /\ \A k \in DOMAIN h2 : h2[k] = h2[j] => k = j
  <2>1. \E j \in 1..Len(h) : j <= i /\ h[j] = f
                             /\ \A k \in DOMAIN h : h[k] = h[j] => k = j
    <3>1. CASE i \in 1..Len(h)
      <4>1. PICK j \in 1..i : h[j] = f
                             /\ \A k \in DOMAIN h : h[k] = h[j] => k = j
        BY <1>1, <1>5, <3>1 DEF HistoryOk, f
      <4> QED
        BY <1>1, <3>1, <4>1
    <3>2. CASE i = Len(h) + 1
      <4>1. b > 0
        BY <1>1, <1>5, <3>2 DEF MayFollow
      <4>2. PICK n \in DOMAIN h : h[n] = f
        BY <4>1 DEF HistoryOk, f
      <4>3. h[n].launch = l /\ h[n].type # "SIGNIFICANT_LIQUIDITY_INCREASE"
        BY <4>2 DEF f, Milestone
      <4>4. PICK j \in 1..n : h[j] = f
                             /\ \A k \in DOMAIN h : h[k] = h[j] => k = j
        BY <4>2, <4>3 DEF HistoryOk, f
      <4> QED
        BY <1>1, <3>2, <4>2, <4>4
    <3> QED
      BY <1>1, <3>1, <3>2
  <2>2. PICK j \in 1..Len(h) : j <= i /\ h[j] = f
                              /\ \A k \in DOMAIN h : h[k] = h[j] => k = j
    BY <2>1
  <2>3. \A k \in DOMAIN h2 : h2[k] = f => k = j
    BY <1>1, <1>2, <2>2
  <2>4. j \in 1..i /\ h2[j] = f
    BY <1>1, <2>2
  <2> QED
    BY <2>3, <2>4
<1> QED
  BY <1>3, <1>4, <1>5 DEF HistoryOk, f, h2

\* An earlier launch's milestones may follow in the next one.
LEMMA NextLaunch ==
  ASSUME NEW left, NEW l \in Nat, NEW b \in Nat, NEW b2 \in Nat,
         left \in Seq(MilestoneRecord), LeftOk(left, l, b)
  PROVE  LeftOk(left, l + 1, b2)
<1> SUFFICES ASSUME NEW i \in DOMAIN left PROVE MayFollow(left[i], l + 1, b2)
  BY DEF LeftOk
<1>0. left[i] \in MilestoneRecord /\ MayFollow(left[i], l, b)
  BY DEF LeftOk
<1>1. left[i].launch \in 0..MaxLaunches /\ left[i].launch <= l
      /\ left[i].type # "FIRST_BUY"
  BY <1>0 DEF MayFollow, MilestoneRecord
<1> QED
  BY <1>1, LaunchAssumption DEF MayFollow

\* A list s of milestones that a call of launch l, with b buys, records.
Recordable(s, l, b) ==
  /\ s \in Seq(MilestoneRecord)
  /\ \A i \in DOMAIN s : i > 1 => MayFollow(s[i], l, b)

\* StartRecording extends the history by the first milestone, if there is one.
LEMMA StartRecordingStep ==
  ASSUME NEW l \in 0..MaxLaunches, NEW b \in Nat, NEW c \in Call, NEW s,
         Recordable(s, l, b), StartRecording(c, s),
         HistoryNow \in Seq(MilestoneRecord),
         recording \in [Call -> [busy : BOOLEAN, left : Seq(MilestoneRecord)]],
         s = <<>> => HistoryOk(HistoryNow, l, b),
         s # <<>> => HistoryOk(Append(HistoryNow, s[1]), l, b),
         \A x \in Call : LeftOk(recording[x].left, l, b)
  PROVE  /\ history' \in Seq(MilestoneRecord)
         /\ recording' \in [Call -> [busy : BOOLEAN,
                                      left : Seq(MilestoneRecord)]]
         /\ HistoryOk(history', l, b)
         /\ \A x \in Call : LeftOk(recording'[x].left, l, b)
<1>1. CASE s = <<>>
  BY <1>1 DEF StartRecording
<1>2. CASE s # <<>>
  <2>1. s \in Seq(MilestoneRecord)
    BY DEF Recordable
  <2>2. /\ Head(s) = s[1] /\ s[1] \in MilestoneRecord
        /\ Tail(s) \in Seq(MilestoneRecord)
        /\ \A i \in DOMAIN Tail(s) : i + 1 \in DOMAIN s /\ i + 1 > 1
                                    /\ Tail(s)[i] = s[i + 1]
    BY <1>2, <2>1
  <2>3. /\ history' = Append(HistoryNow, s[1])
        /\ recording' = [recording EXCEPT
                           ![c] = [busy |-> TRUE, left |-> Tail(s)]]
    BY <1>2, <2>2 DEF StartRecording
  <2>4. LeftOk(Tail(s), l, b)
    BY <2>2 DEF LeftOk, Recordable
  <2>5. history' \in Seq(MilestoneRecord)
    BY <2>2, <2>3
  <2>6. /\ recording' \in [Call -> [busy : BOOLEAN,
                                     left : Seq(MilestoneRecord)]]
        /\ recording'[c].left = Tail(s)
        /\ \A x \in Call \ {c} : recording'[x] = recording[x]
    BY <2>2, <2>3
  <2> QED
    BY <1>2, <2>3, <2>4, <2>5, <2>6
<1> QED
  BY <1>1, <1>2

LEMMA Concatenated ==
  ASSUME NEW S, NEW a \in Seq(S), NEW b \in Seq(S)
  PROVE  a \o b \in Seq(S)
  OBVIOUS

LEMMA OneOrNone ==
  ASSUME NEW S, NEW e \in S, NEW p \in BOOLEAN
  PROVE  (IF p THEN <<e>> ELSE <<>>) \in Seq(S)
  OBVIOUS

\* The names of the milestones of a swap: FIRST_BUY, if at all, comes first.
LEMMA TypesOfSwap ==
  ASSUME NEW m \in MetricsType, NEW isBuy \in BOOLEAN,
         NEW isWhale \in BOOLEAN, isBuy => m.buys > 0
  PROVE  LET types == (IF isBuy THEN BuyMilestones(m, isWhale) ELSE <<>>)
                      \o RapidMilestone(m) IN
         /\ types \in Seq(MilestoneType)
         /\ \A i \in DOMAIN types : i > 1 => types[i] \in Later
         /\ isBuy /\ m.buys = 1 => types # <<>> /\ types[1] = "FIRST_BUY"
         /\ types # <<>> /\ ~(isBuy /\ m.buys = 1) => types[1] \in Later
         /\ m.buys = 0 => types = <<>>
<1> DEFINE first == IF m.buys = 1 THEN <<"FIRST_BUY">> ELSE <<>>
           hundred == IF Cardinality(m.buyers) = HolderMilestone
                      THEN <<"FIRST_100_WALLETS">> ELSE <<>>
           whale == IF isWhale THEN <<"WHALE_ENTRY">> ELSE <<>>
           rapid == RapidMilestone(m)
           buy == IF isBuy THEN BuyMilestones(m, isWhale) ELSE <<>>
           types == buy \o rapid
<1>1. hundred \in Seq(Later) /\ whale \in Seq(Later) /\ rapid \in Seq(Later)
  <2>1. {"FIRST_100_WALLETS", "WHALE_ENTRY", "RAPID_VOLUME_ACCELERATION"}
          \subseteq Later
    BY DEF Later, MilestoneType
  <2> QED
    BY <2>1, OneOrNone DEF RapidMilestone
<1>2. m.buys = 0 => rapid = <<>>
  <2>1. m.minutes \in Nat /\ RapidVelocity \in Nat
    BY LaunchAssumption DEF MetricsType
  <2>2. RapidVelocity * m.minutes \in Nat
    BY <2>1
  <2> QED
    BY <2>2 DEF RapidMilestone
<1>3. Later \subseteq MilestoneType /\ "FIRST_BUY" \in MilestoneType
  BY DEF Later, MilestoneType
<1>4. BuyMilestones(m, isWhale) = (first \o hundred) \o whale
  BY DEF BuyMilestones
<1>5. m.buys \in Nat
  BY DEF MetricsType
<1> HIDE DEF hundred, whale, rapid
<1>6. CASE isBuy /\ m.buys = 1
  <2>1. first = <<"FIRST_BUY">>
    BY <1>6
  <2>2. types = ((<<"FIRST_BUY">> \o hundred) \o whale) \o rapid
    BY <1>4, <1>6, <2>1
  <2> HIDE DEF types
  <2>3. \A a \in Seq(Later) : /\ <<"FIRST_BUY">> \o a \in Seq(MilestoneType)
                              /\ (<<"FIRST_BUY">> \o a)[1] = "FIRST_BUY"
                              /\ Len(<<"FIRST_BUY">> \o a) = Len(a) + 1
                              /\ \A i \in 2..(Len(a) + 1) :
                                   (<<"FIRST_BUY">> \o a)[i] \in Later
    <3> SUFFICES ASSUME NEW a \in Seq(Later)
                 PROVE  /\ <<"FIRST_BUY">> \o a \in Seq(MilestoneType)
                        /\ (<<"FIRST_BUY">> \o a)[1] = "FIRST_BUY"
                        /\ Len(<<"FIRST_BUY">> \o a) = Len(a) + 1
                        /\ \A i \in 2..(Len(a) + 1) :
                             (<<"FIRST_BUY">> \o a)[i] \in Later
      OBVIOUS
    <3>1. <<"FIRST_BUY">> \in Seq(MilestoneType) /\ a \in Seq(MilestoneType)
      BY <1>3
    <3>2. <<"FIRST_BUY">> \o a \in Seq(MilestoneType)
      BY <3>1, Concatenated
    <3>3. /\ (<<"FIRST_BUY">> \o a)[1] = "FIRST_BUY"
          /\ Len(<<"FIRST_BUY">> \o a) = Len(a) + 1
      BY <3>1
    <3>4. ASSUME NEW i \in 2..(Len(a) + 1)
          PROVE  (<<"FIRST_BUY">> \o a)[i] \in Later
      <4>1. i - 1 \in 1..Len(a) /\ (<<"FIRST_BUY">> \o a)[i] = a[i - 1]
        BY <3>1
      <4> QED
        BY <4>1
    <3> QED
      BY <3>2, <3>3, <3>4
  <2>4. types = <<"FIRST_BUY">> \o ((hundred \o whale) \o rapid)
    BY <1>1, <2>2
  <2>5. (hundred \o whale) \o rapid \in Seq(Later)
    BY <1>1, Concatenated
  <2>6. /\ types \in Seq(MilestoneType) /\ types[1] = "FIRST_BUY"
        /\ types # <<>>
        /\ \A i \in DOMAIN types : i > 1 => types[i] \in Later
    BY <2>3, <2>4, <2>5
  <2> QED
    BY <1>5, <1>6, <2>6 DEF types, rapid
<1>7. CASE ~(isBuy /\ m.buys = 1)
  <2>1. buy \in Seq(Later)
    <3>1. CASE isBuy
      <4>1. first = <<>> /\ buy = (first \o hundred) \o whale
        BY <1>4, <1>7, <3>1
      <4>2. first \o hundred = hundred
        BY <1>1, <4>1
      <4> HIDE DEF buy, first
      <4> QED
        BY <1>1, <4>1, <4>2, Concatenated
    <3>2. CASE ~isBuy
      BY <3>2
    <3> QED
      BY <3>1, <3>2
  <2>2. m.buys = 0 => buy = <<>> /\ types = <<>>
    <3> HAVE m.buys = 0
    <3>1. buy = <<>>
      BY <1>5
    <3> HIDE DEF buy
    <3> QED
      BY <1>2, <3>1
  <2> HIDE DEF buy
  <2>3. types \in Seq(Later)
    BY <1>1, <2>1, Concatenated
  <2> HIDE DEF types
  <2>4. \A i \in DOMAIN types : types[i] \in Later
    BY <2>3
  <2>5. types # <<>> => 1 \in DOMAIN types
    BY <2>3
  <2>6. types \in Seq(MilestoneType)
    BY <1>3, <2>3
  <2> QED
    BY <1>7, <2>2, <2>4, <2>5, <2>6 DEF types, buy, rapid
<1> QED
  BY <1>6, <1>7

\* The milestones of a swap with figures m can be recorded.
LEMMA MilestonesOfSwap ==
  ASSUME NEW m \in MetricsType, NEW isBuy \in BOOLEAN,
         NEW isWhale \in BOOLEAN, isBuy => m.buys > 0,
         LaunchNow \in 0..MaxLaunches
  PROVE  LET s == SwapMilestones(m, isBuy, isWhale)
             l == LaunchNow IN
         /\ Recordable(s, l, m.buys)
         /\ isBuy /\ m.buys = 1
              => s # <<>> /\ s[1] = Milestone("FIRST_BUY", l)
         /\ s # <<>> /\ ~(isBuy /\ m.buys = 1) => MayFollow(s[1], l, m.buys)
         /\ s # <<>> => s[1] \in MilestoneRecord
         /\ m.buys = 0 => s = <<>>
<1> DEFINE types == (IF isBuy THEN BuyMilestones(m, isWhale) ELSE <<>>)
                    \o RapidMilestone(m)
           l == LaunchNow
           s == [i \in DOMAIN types |-> Milestone(types[i], l)]
<1>0. SwapMilestones(m, isBuy, isWhale) = s
  BY DEF SwapMilestones
<1>1. /\ types \in Seq(MilestoneType)
      /\ \A i \in DOMAIN types : i > 1 => types[i] \in Later
      /\ isBuy /\ m.buys = 1 => types # <<>> /\ types[1] = "FIRST_BUY"
      /\ types # <<>> /\ ~(isBuy /\ m.buys = 1) => types[1] \in Later
      /\ m.buys = 0 => types = <<>>
  BY TypesOfSwap
<1> HIDE DEF types
<1>2. DOMAIN types = 1..Len(types) /\ Len(types) \in Nat
  BY <1>1
<1>3. \A x \in MilestoneType : Milestone(x, l) \in MilestoneRecord
  BY DEF Milestone, MilestoneRecord
<1>4. s \in Seq(MilestoneRecord) /\ DOMAIN s = DOMAIN types
      /\ Len(s) = Len(types)
  <2>1. \A i \in 1..Len(types) : Milestone(types[i], l) \in MilestoneRecord
    BY <1>1, <1>3
  <2> QED
    BY <1>2, <2>1
<1>5. m.buys \in Nat /\ l \in Nat
  BY LaunchAssumption DEF MetricsType
<1>6. \A x \in Later : m.buys # 0 => MayFollow(Milestone(x, l), l, m.buys)
  BY <1>5 DEF Later, MayFollow, Milestone
<1>7. types # <<>> => m.buys # 0 /\ 1 \in DOMAIN types
  BY <1>1, <1>2
<1>8. \A i \in DOMAIN s : s[i] = Milestone(types[i], l)
  BY <1>4
<1>9. s # <<>> <=> types # <<>>
  BY <1>1, <1>4
<1>10. \A i \in DOMAIN types : types # <<>>
  BY <1>1
<1> HIDE DEF s, l
<1>11. Recordable(s, l, m.buys)
  BY <1>1, <1>4, <1>6, <1>7, <1>8, <1>10 DEF Recordable
<1>12. s # <<>> => s[1] = Milestone(types[1], l) /\ s[1] \in MilestoneRecord
  BY <1>1, <1>3, <1>4, <1>7, <1>8, <1>9
<1> QED
  BY <1>0, <1>1, <1>6, <1>7, <1>9, <1>11, <1>12 DEF l

----------------------------------------------------------------------------
\* A registration starts from nothing.
LEMMA RegisteredFigures ==
  ASSUME NEW ts \in Nat
  PROVE  /\ Unregistered \in MetricsType
         /\ Total(Unregistered) = 0
         /\ Unregistered.buys = 0
         /\ Covers(Unregistered, 0, 0)
         /\ Registered(ts) \in MetricsType
         /\ Total(Registered(ts)) = 0
         /\ Registered(ts).buys = 0
         /\ Covers(Registered(ts), 0, 0)
<1>1. Unregistered \in MetricsType
  BY LaunchAssumption DEF MetricsType, Unregistered
<1>2. /\ Unregistered.buys = 0 /\ Unregistered.sells = 0
      /\ Unregistered.bot = <<0, 1>>
  BY DEF Unregistered
<1> HIDE DEF Unregistered
<1>3. /\ Registered(ts) \in MetricsType
      /\ Registered(ts).buys = 0 /\ Registered(ts).sells = 0
      /\ Registered(ts).bot = <<0, 1>>
  BY <1>1, <1>2 DEF MetricsType, Registered
<1> QED
  BY <1>1, <1>2, <1>3 DEF Total, Covers

\* Figures of the right types that stay within the bound on the calls have the
\* types that TypeOK names.
LEMMA BoundedFigures ==
  ASSUME NEW m \in MetricsType, NEW n \in 0..MaxCalls, Total(m) <= n
  PROVE  m \in [registered : BOOLEAN, start : Nat, initial : Depth,
                liquidity : Depth, buyers : SUBSET Wallet,
                buys : 0..MaxCalls, sells : 0..MaxCalls,
                bot : Nat \X Nat, minutes : Nat]
<1>1. m.buys \in 0..MaxCalls /\ m.sells \in 0..MaxCalls
  BY LaunchAssumption DEF MetricsType, Total
<1>2. m.bot \in Nat \X Nat
  BY DEF MetricsType
<1> QED
  BY <1>1, <1>2 DEF MetricsType

\* What a call finds when it has registered the token if need be.
LEMMA StateOfCall ==
  ASSUME IInv, NEW ts \in Nat, MayRegister
  PROVE  LET m == MetricsAt(ts)
             b == IF FreshLaunch THEN 0 ELSE bots
             t == IF FreshLaunch THEN 0 ELSE lost IN
         /\ m \in MetricsType /\ Total(m) <= calls
         /\ b \in Nat /\ b <= calls /\ Covers(m, b, t)
         /\ HistoryNow \in Seq(MilestoneRecord)
         /\ LaunchNow \in 0..MaxLaunches
         /\ HistoryOk(HistoryNow, LaunchNow, m.buys)
         /\ \A x \in Call, n \in Nat :
              n >= m.buys => LeftOk(recording[x].left, LaunchNow, n)
<1>0. /\ metrics \in MetricsType /\ Total(metrics) <= calls
      /\ bots \in Nat /\ bots <= calls /\ calls \in Nat
      /\ Covers(metrics, bots, lost)
      /\ history \in Seq(MilestoneRecord) /\ launches \in 0..MaxLaunches
      /\ \A x \in Call : recording[x].left \in Seq(MilestoneRecord)
      /\ HistoryOk(history, launches, metrics.buys)
      /\ \A x \in Call : LeftOk(recording[x].left, launches, metrics.buys)
      /\ MaxLaunches \in Nat
  BY LaunchAssumption
     DEF IInv, TypeOK, DetectorTypeOK, FiguresOk, HistoryInv
<1>1. CASE FreshLaunch
  <2>1. /\ MetricsAt(ts) = Registered(ts) /\ HistoryNow = <<>>
        /\ LaunchNow = launches + 1 /\ launches < MaxLaunches
    BY <1>1 DEF MetricsAt, HistoryNow, LaunchNow, MayRegister
  <2>2. LaunchNow \in 0..MaxLaunches /\ launches \in Nat /\ LaunchNow \in Nat
    BY <1>0, <2>1
  <2>3. HistoryOk(HistoryNow, LaunchNow, 0) /\ HistoryNow \in Seq(MilestoneRecord)
    BY <2>1, <2>2, HistoryStarts
  <2>4. metrics.buys \in Nat
    BY <1>0 DEF MetricsType
  <2>5. \A x \in Call, n \in Nat : LeftOk(recording[x].left, LaunchNow, n)
    BY <1>0, <2>1, <2>2, <2>4, NextLaunch
  <2> QED
    BY <1>0, <1>1, <2>1, <2>2, <2>3, <2>5, RegisteredFigures
<1>2. CASE ~FreshLaunch
  <2>1. /\ MetricsAt(ts) = metrics /\ HistoryNow = history
        /\ LaunchNow = launches
    BY <1>2 DEF MetricsAt, HistoryNow, LaunchNow
  <2>2. metrics.buys \in Nat
    BY <1>0 DEF MetricsType
  <2>3. ASSUME NEW x \in Call, NEW n \in Nat, n >= metrics.buys
        PROVE  LeftOk(recording[x].left, launches, n)
    BY <1>0, <2>2, <2>3 DEF LeftOk, MayFollow
  <2> QED
    BY <1>0, <1>2, <2>1, <2>3
<1> QED
  BY <1>1, <1>2

----------------------------------------------------------------------------
\* The initial states satisfy the inductive invariant.
LEMMA InitInv == Init => IInv
<1> SUFFICES ASSUME Init PROVE IInv
  OBVIOUS
<1>0. /\ metrics = Unregistered /\ history = <<>>
      /\ recording = [c \in Call |-> NotRecording]
      /\ launches = 0 /\ calls = 0 /\ bots = 0 /\ lost = 0
      /\ assessment = NoAssessment /\ prioritized = FALSE
  BY DEF Init, DetectorInit
<1>1. /\ Unregistered \in MetricsType /\ Total(Unregistered) = 0
      /\ Unregistered.buys = 0 /\ Covers(Unregistered, 0, 0)
  BY RegisteredFigures
<1>2. MaxCalls \in Nat /\ MaxLaunches \in Nat
  BY LaunchAssumption
<1>3. FiguresOk /\ Covers(metrics, bots, lost)
  BY <1>0, <1>1 DEF FiguresOk
<1>4. HistoryInv
  <2>1. HistoryOk(<<>>, 0, 0)
    BY HistoryStarts
  <2>2. \A c \in Call : recording[c].left = <<>>
    BY <1>0 DEF NotRecording
  <2> QED
    BY <1>0, <1>1, <2>1, <2>2 DEF HistoryInv, LeftOk
<1>5. TypeOK
  <2>1. recording \in [Call -> [busy : BOOLEAN, left : Seq(MilestoneRecord)]]
    BY <1>0 DEF NotRecording
  <2>2. Unregistered \in [registered : BOOLEAN, start : Nat, initial : Depth,
                         liquidity : Depth, buyers : SUBSET Wallet,
                         buys : 0..MaxCalls, sells : 0..MaxCalls,
                         bot : Nat \X Nat, minutes : Nat]
    BY <1>1, <1>2, BoundedFigures
  <2>3. NoAssessment \in [known : BOOLEAN, discovery : 0..100,
                         security : BOOLEAN, liquidity : BOOLEAN,
                         eligible : BOOLEAN]
    BY DEF NoAssessment
  <2>4. history \in Seq(MilestoneRecord)
    BY <1>0
  <2>5. launches \in 0..MaxLaunches /\ calls \in 0..MaxCalls
        /\ bots \in 0..MaxCalls /\ lost \in 0..bots
    BY <1>0, <1>2
  <2>6. DetectorTypeOK
    BY <1>0, <2>1, <2>2, <2>4, <2>5 DEF DetectorTypeOK
  <2> QED
    BY <1>0, <2>3, <2>6 DEF TypeOK
<1> QED
  BY <1>3, <1>4, <1>5 DEF IInv

\* The invariant over new values of the detector's variables.
LEMMA Assembled ==
  ASSUME IInv, metrics' \in MetricsType, Total(metrics') <= calls',
         calls' \in 0..MaxCalls, bots' \in Nat, bots' <= calls',
         launches' \in 0..MaxLaunches,
         Covers(metrics', bots', lost'),
         history' \in Seq(MilestoneRecord),
         recording' \in [Call -> [busy : BOOLEAN,
                                  left : Seq(MilestoneRecord)]],
         HistoryOk(history', launches', metrics'.buys),
         \A x \in Call : LeftOk(recording'[x].left, launches', metrics'.buys),
         UNCHANGED gateVars
  PROVE  IInv'
<1>1. metrics' \in [registered : BOOLEAN, start : Nat, initial : Depth,
                   liquidity : Depth, buyers : SUBSET Wallet,
                   buys : 0..MaxCalls, sells : 0..MaxCalls,
                   bot : Nat \X Nat, minutes : Nat]
  BY BoundedFigures
<1>2. bots' \in 0..MaxCalls
  BY LaunchAssumption
<1>3. assessment' = assessment /\ prioritized' = prioritized
  BY DEF gateVars
<1>4. TypeOK'
  <2>1. lost' \in 0..bots'
    BY DEF Covers
  <2> QED
    BY <1>1, <1>2, <1>3, <2>1 DEF IInv, TypeOK, DetectorTypeOK
<1>5. FiguresOk' /\ Covers(metrics, bots, lost)' /\ HistoryInv'
  BY DEF FiguresOk, Covers, Total, HistoryInv, HistoryOk, LeftOk, MayFollow
<1> QED
  BY <1>4, <1>5 DEF IInv

LEMMA RegisterLaunchInv ==
  ASSUME IInv, NEW ts \in Minute, RegisterLaunch(ts), UNCHANGED gateVars
  PROVE  IInv'
<1>0. /\ calls \in 0..MaxCalls /\ launches \in 0..MaxLaunches
      /\ \A x \in Call : recording[x].left \in Seq(MilestoneRecord)
      /\ recording \in [Call -> [busy : BOOLEAN,
                                  left : Seq(MilestoneRecord)]]
      /\ \A x \in Call : LeftOk(recording[x].left, launches, metrics.buys)
      /\ metrics.buys \in Nat
      /\ MaxCalls \in Nat /\ MaxLaunches \in Nat /\ ts \in Nat
  BY LaunchAssumption
     DEF IInv, TypeOK, DetectorTypeOK, HistoryInv, FiguresOk, MetricsType
<1>1. /\ metrics' = Registered(ts) /\ history' = <<>>
      /\ launches' = launches + 1 /\ launches < MaxLaunches
      /\ bots' = 0 /\ lost' = 0 /\ recording' = recording /\ calls' = calls
  BY DEF RegisterLaunch
<1>2. launches' \in 0..MaxLaunches /\ launches \in Nat /\ launches' \in Nat
  BY <1>0, <1>1
<1>3. /\ metrics' \in MetricsType /\ Total(metrics') = 0
      /\ metrics'.buys = 0 /\ Covers(metrics', bots', lost')
  BY <1>0, <1>1, RegisteredFigures
<1>4. HistoryOk(history', launches', metrics'.buys)
  BY <1>1, <1>2, <1>3, HistoryStarts
<1>5. \A x \in Call : LeftOk(recording'[x].left, launches', metrics'.buys)
  BY <1>0, <1>1, <1>2, <1>3, NextLaunch
<1>6. history' \in Seq(MilestoneRecord)
  BY <1>1
<1>7. /\ Total(metrics') <= calls' /\ calls' \in 0..MaxCalls
      /\ bots' \in Nat /\ bots' <= calls'
  BY <1>0, <1>1, <1>3
<1>8. recording' \in [Call -> [busy : BOOLEAN, left : Seq(MilestoneRecord)]]
  BY <1>0, <1>1
<1> QED
  BY <1>2, <1>3, <1>4, <1>5, <1>6, <1>7, <1>8, Assembled

LEMMA UpdateLiquidityInv ==
  ASSUME IInv, NEW c \in Call, NEW usd \in Depth, NEW ts \in Minute,
         UpdateLiquidity(c, usd, ts), UNCHANGED gateVars
  PROVE  IInv'
<1> DEFINE old == MetricsAt(ts)
           b == IF FreshLaunch THEN 0 ELSE bots
           t == IF FreshLaunch THEN 0 ELSE lost
           l == LaunchNow
           first == old.initial = 0 /\ usd > 0
           s == IF ~first /\ SignificantIncrease(old.liquidity, usd)
                THEN <<Milestone("SIGNIFICANT_LIQUIDITY_INCREASE", l)>>
                ELSE <<>>
<1>0. /\ calls \in 0..MaxCalls
      /\ recording \in [Call -> [busy : BOOLEAN,
                                  left : Seq(MilestoneRecord)]]
      /\ MaxCalls \in Nat /\ ts \in Nat
  BY LaunchAssumption DEF IInv, TypeOK, DetectorTypeOK
<1>1. /\ metrics' = [old EXCEPT !.liquidity = usd,
                                !.initial = IF first THEN usd ELSE @]
      /\ MayRegister /\ calls < MaxCalls
      /\ StartRecording(c, s) /\ launches' = l
      /\ calls' = calls + 1 /\ bots' = b /\ lost' = t
  BY DEF UpdateLiquidity
<1>2. /\ old \in MetricsType /\ Total(old) <= calls
      /\ b \in Nat /\ b <= calls /\ Covers(old, b, t)
      /\ HistoryNow \in Seq(MilestoneRecord)
      /\ l \in 0..MaxLaunches
      /\ HistoryOk(HistoryNow, l, old.buys)
      /\ \A x \in Call, n \in Nat :
           n >= old.buys => LeftOk(recording[x].left, l, n)
  BY <1>0, <1>1, StateOfCall
<1> HIDE DEF old, b, t, l
<1>3. /\ metrics' \in MetricsType /\ metrics'.buys = old.buys
      /\ metrics'.sells = old.sells /\ metrics'.bot = old.bot
  BY <1>1, <1>2 DEF MetricsType
<1>4. Total(metrics') = Total(old) /\ Covers(metrics', bots', lost')
  BY <1>1, <1>2, <1>3 DEF Total, Covers
<1>5. Total(old) \in Nat /\ old.buys \in Nat
  BY <1>2 DEF Total, MetricsType
<1> DEFINE x == Milestone("SIGNIFICANT_LIQUIDITY_INCREASE", l)
<1>6. x \in MilestoneRecord /\ MayFollow(x, l, old.buys)
  BY <1>2, LaunchAssumption
     DEF Milestone, MilestoneRecord, MilestoneType, MayFollow
<1>7. HistoryOk(Append(HistoryNow, x), l, old.buys)
  BY <1>2, <1>5, <1>6, OtherAppended
<1> HIDE DEF x
<1>8. s = <<x>> \/ s = <<>>
  BY DEF x
<1> HIDE DEF s
<1>9. Recordable(s, l, old.buys) /\ (s # <<>> => s[1] = x)
  <2>1. CASE s = <<x>>
    <3>1. s \in Seq(MilestoneRecord) /\ DOMAIN s = 1..1 /\ s[1] = x
      BY <1>6, <2>1
    <3> QED
      BY <3>1 DEF Recordable
  <2>2. CASE s = <<>>
    BY <2>2 DEF Recordable
  <2> QED
    BY <1>8, <2>1, <2>2
<1>10. /\ history' \in Seq(MilestoneRecord)
       /\ recording' \in [Call -> [busy : BOOLEAN,
                                    left : Seq(MilestoneRecord)]]
       /\ HistoryOk(history', l, old.buys)
       /\ \A y \in Call : LeftOk(recording'[y].left, l, old.buys)
  <2>1. \A y \in Call : LeftOk(recording[y].left, l, old.buys)
    BY <1>2, <1>5
  <2> QED
    BY <1>0, <1>1, <1>2, <1>5, <1>7, <1>9, <2>1, StartRecordingStep
<1>11. /\ Total(metrics') <= calls' /\ calls' \in 0..MaxCalls
       /\ bots' \in Nat /\ bots' <= calls'
  BY <1>0, <1>1, <1>2, <1>4, <1>5
<1> QED
  BY <1>1, <1>2, <1>3, <1>4, <1>10, <1>11, Assembled

LEMMA RecordSwapInv ==
  ASSUME IInv, NEW c \in Call, NEW w \in Wallet, NEW isBuy \in BOOLEAN,
         NEW isWhale \in BOOLEAN, NEW isBot \in BOOLEAN, NEW ts \in Minute,
         RecordSwap(c, w, isBuy, isWhale, isBot, ts), UNCHANGED gateVars
  PROVE  IInv'
<1> DEFINE old == MetricsAt(ts)
           b == IF FreshLaunch THEN 0 ELSE bots
           t == IF FreshLaunch THEN 0 ELSE lost
           k == IF isBot THEN 1 ELSE 0
           e == IF isBot /\ Short(WithSwap(old, w, isBuy)) THEN 1 ELSE 0
           l == LaunchNow
           m == AfterSwap(old, w, isBuy, isBot, ts)
           s == SwapMilestones(m, isBuy, isWhale)
<1>0. /\ calls \in 0..MaxCalls
      /\ recording \in [Call -> [busy : BOOLEAN,
                                  left : Seq(MilestoneRecord)]]
      /\ MaxCalls \in Nat /\ ts \in Nat
  BY LaunchAssumption DEF IInv, TypeOK, DetectorTypeOK
<1>1. /\ metrics' = m
      /\ MayRegister /\ calls < MaxCalls
      /\ StartRecording(c, s) /\ launches' = l
      /\ calls' = calls + 1 /\ bots' = b + k /\ lost' = t + e
  BY DEF RecordSwap
<1>2. /\ old \in MetricsType /\ Total(old) <= calls
      /\ b \in Nat /\ b <= calls /\ Covers(old, b, t)
      /\ HistoryNow \in Seq(MilestoneRecord)
      /\ l \in 0..MaxLaunches
      /\ HistoryOk(HistoryNow, l, old.buys)
      /\ \A x \in Call, n \in Nat :
           n >= old.buys => LeftOk(recording[x].left, l, n)
  BY <1>0, <1>1, StateOfCall
<1> HIDE DEF old, b, t
<1>3. /\ m \in MetricsType /\ Total(m) = Total(old) + 1
      /\ m.buys = IF isBuy THEN old.buys + 1 ELSE old.buys
  <2>1. old \in MetricsType /\ ts \in Nat
    BY <1>0, <1>2
  <2> QED
    BY <2>1, SwapFigures
<1>4. Covers(m, b + k, t + e)
  <2>1. t \in Nat
    BY <1>2 DEF Covers
  <2> QED
    BY <1>0, <1>2, <2>1, SwapCovers, SMTT(60)
<1> HIDE DEF m, e
<1>5. /\ Total(old) \in Nat /\ old.buys \in Nat /\ m.buys \in Nat
      /\ m.buys >= old.buys /\ (isBuy => m.buys > 0) /\ k \in 0..1
      /\ (m.buys = 1 /\ isBuy => old.buys = 0)
      /\ (~(m.buys = 1 /\ isBuy) => old.buys = m.buys
                                     \/ (old.buys > 0 /\ m.buys > 0))
  <2>1. old.buys \in Nat /\ old.sells \in Nat
    BY <1>2 DEF MetricsType
  <2>2. Total(old) \in Nat /\ k \in 0..1
    BY <2>1 DEF Total
  <2>3. CASE isBuy
    <3>1. m.buys = old.buys + 1
      BY <1>3, <2>3
    <3> HIDE DEF k
    <3> QED
      BY <2>1, <2>2, <2>3, <3>1
  <2>4. CASE ~isBuy
    <3>1. m.buys = old.buys
      BY <1>3, <2>4
    <3> HIDE DEF k
    <3> QED
      BY <2>1, <2>2, <2>4, <3>1
  <2> QED
    BY <2>3, <2>4
<1> HIDE DEF m, k
<1>6. /\ Recordable(s, l, m.buys)
      /\ isBuy /\ m.buys = 1 => s # <<>> /\ s[1] = Milestone("FIRST_BUY", l)
      /\ s # <<>> /\ ~(isBuy /\ m.buys = 1) => MayFollow(s[1], l, m.buys)
      /\ s # <<>> => s[1] \in MilestoneRecord
      /\ m.buys = 0 => s = <<>>
  BY <1>2, <1>3, <1>5, MilestonesOfSwap
<1> HIDE DEF s, l
<1>7. l \in Nat
  BY <1>2, LaunchAssumption
<1>8. /\ s = <<>> => HistoryOk(HistoryNow, l, m.buys)
      /\ s # <<>> => HistoryOk(Append(HistoryNow, s[1]), l, m.buys)
  <2>1. CASE isBuy /\ m.buys = 1
    BY <1>2, <1>5, <1>6, <2>1, FirstBuyAppended
  <2>2. CASE ~(isBuy /\ m.buys = 1)
    <3>1. HistoryOk(HistoryNow, l, m.buys)
      BY <1>2, <1>5, <1>7, <2>2, BuysGrow
    <3> QED
      BY <1>2, <1>5, <1>6, <2>2, <3>1, OtherAppended
  <2> QED
    BY <2>1, <2>2
<1>9. /\ history' \in Seq(MilestoneRecord)
      /\ recording' \in [Call -> [busy : BOOLEAN,
                                   left : Seq(MilestoneRecord)]]
      /\ HistoryOk(history', l, m.buys)
      /\ \A y \in Call : LeftOk(recording'[y].left, l, m.buys)
  <2>1. \A y \in Call : LeftOk(recording[y].left, l, m.buys)
    BY <1>2, <1>5
  <2> QED
    BY <1>0, <1>1, <1>2, <1>5, <1>6, <1>8, <2>1, StartRecordingStep
<1>10. /\ Total(m) <= calls' /\ calls' \in 0..MaxCalls
       /\ bots' \in Nat /\ bots' <= calls'
  BY <1>0, <1>1, <1>2, <1>3, <1>5
<1> QED
  BY <1>1, <1>2, <1>3, <1>4, <1>9, <1>10, Assembled

LEMMA PublishEndsInv ==
  ASSUME IInv, NEW c \in Call, PublishEnds(c), UNCHANGED gateVars
  PROVE  IInv'
<1> DEFINE left == recording[c].left
<1>0. /\ metrics \in MetricsType /\ Total(metrics) <= calls
      /\ bots \in Nat /\ bots <= calls /\ calls \in 0..MaxCalls
      /\ Covers(metrics, bots, lost)
      /\ history \in Seq(MilestoneRecord) /\ launches \in 0..MaxLaunches
      /\ recording \in [Call -> [busy : BOOLEAN,
                                  left : Seq(MilestoneRecord)]]
      /\ left \in Seq(MilestoneRecord) /\ metrics.buys \in Nat
      /\ HistoryOk(history, launches, metrics.buys)
      /\ \A x \in Call : LeftOk(recording[x].left, launches, metrics.buys)
  BY DEF IInv, TypeOK, DetectorTypeOK, FiguresOk, HistoryInv, MetricsType
<1>1. UNCHANGED <<metrics, launches, calls, bots, lost>>
  BY DEF PublishEnds
<1>2. /\ history' \in Seq(MilestoneRecord)
      /\ recording' \in [Call -> [busy : BOOLEAN,
                                   left : Seq(MilestoneRecord)]]
      /\ HistoryOk(history', launches, metrics.buys)
      /\ \A x \in Call : LeftOk(recording'[x].left, launches, metrics.buys)
  <2>1. CASE left = <<>>
    <3>1. /\ recording' = [recording EXCEPT ![c] = NotRecording]
          /\ history' = history
      BY <2>1 DEF PublishEnds
    <3>2. NotRecording \in [busy : BOOLEAN, left : Seq(MilestoneRecord)]
          /\ NotRecording.left = <<>>
      BY DEF NotRecording
    <3>3. LeftOk(<<>>, launches, metrics.buys)
      BY DEF LeftOk
    <3> QED
      BY <1>0, <3>1, <3>2, <3>3
  <2>2. CASE left # <<>>
    <3>1. /\ recording' = [recording EXCEPT
                             ![c] = [@ EXCEPT !.left = Tail(left)]]
          /\ history' = Append(history, Head(left))
      BY <1>0, <2>2 DEF PublishEnds
    <3>2. /\ Head(left) = left[1] /\ 1 \in DOMAIN left
          /\ left[1] \in MilestoneRecord
          /\ Tail(left) \in Seq(MilestoneRecord)
          /\ \A i \in DOMAIN Tail(left) : i + 1 \in DOMAIN left
                                         /\ Tail(left)[i] = left[i + 1]
      BY <1>0, <2>2
    <3>3. /\ MayFollow(left[1], launches, metrics.buys)
          /\ LeftOk(Tail(left), launches, metrics.buys)
      BY <1>0, <3>2 DEF LeftOk
    <3>4. HistoryOk(history', launches, metrics.buys)
      BY <1>0, <3>1, <3>2, <3>3, OtherAppended
    <3>5. /\ recording' \in [Call -> [busy : BOOLEAN,
                                      left : Seq(MilestoneRecord)]]
          /\ recording'[c].left = Tail(left)
          /\ \A x \in Call \ {c} : recording'[x] = recording[x]
      BY <1>0, <3>1, <3>2
    <3>6. history' \in Seq(MilestoneRecord)
      BY <1>0, <3>1, <3>2
    <3> QED
      BY <1>0, <3>3, <3>4, <3>5, <3>6
  <2> QED
    BY <2>1, <2>2
<1> QED
  BY <1>0, <1>1, <1>2, Assembled

----------------------------------------------------------------------------
AssessmentType ==
  [known : BOOLEAN, discovery : 0..100, security : BOOLEAN,
   liquidity : BOOLEAN, eligible : BOOLEAN]

\* The steps of the gate and of the opportunity engine leave the detector be.
LEMMA GateStepInv ==
  ASSUME IInv, UNCHANGED detectorVars, assessment' \in AssessmentType,
         prioritized' \in BOOLEAN
  PROVE  IInv'
<1>1. /\ metrics' = metrics /\ history' = history /\ recording' = recording
      /\ launches' = launches /\ calls' = calls /\ bots' = bots /\ lost' = lost
  BY DEF detectorVars
<1>2. TypeOK'
  BY <1>1 DEF IInv, TypeOK, DetectorTypeOK, AssessmentType
<1>3. FiguresOk' /\ Covers(metrics, bots, lost)' /\ HistoryInv'
  BY <1>1 DEF IInv, FiguresOk, Covers, Total, HistoryInv, HistoryOk, LeftOk,
     MayFollow
<1> QED
  BY <1>2, <1>3 DEF IInv

LEMMA AssessDiscoveryInv ==
  ASSUME IInv, NEW tx \in BOOLEAN, NEW factory \in BOOLEAN,
         NEW address \in BOOLEAN, AssessDiscovery(tx, factory, address)
  PROVE  IInv'
<1>1. DiscoveryConfidence(tx, factory, address) \in 0..100
  <2> DEFINE a == IF tx THEN 900 ELSE 300
             b == IF factory THEN 950 ELSE 500
             c == IF address THEN 1000 ELSE 0
  <2>1. a \in 0..1000 /\ b \in 0..1000 /\ c \in 0..1000
    OBVIOUS
  <2>2. DiscoveryConfidence(tx, factory, address) = Mean(a, b, c)
    BY DEF DiscoveryConfidence
  <2> HIDE DEF a, b, c
  <2>3. Mean(a, b, c) \in 0..100
    BY <2>1 DEF Mean
  <2> QED
    BY <2>2, <2>3, Zenon
<1>2. NoAssessment \in AssessmentType
  BY DEF NoAssessment, AssessmentType
<1>3. assessment' \in AssessmentType
  BY <1>1, <1>2 DEF AssessDiscovery, AssessmentType
<1>4. prioritized' \in BOOLEAN /\ UNCHANGED detectorVars
  BY DEF AssessDiscovery, IInv, TypeOK
<1> QED
  BY <1>3, <1>4, GateStepInv

LEMMA AssessmentNowType ==
  ASSUME assessment \in AssessmentType
  PROVE  AssessmentNow \in AssessmentType
<1>1. CASE assessment.known
  BY <1>1 DEF AssessmentNow
<1>2. CASE ~assessment.known
  <2>1. 50 \in 0..100 /\ 0 \in 0..100
    OBVIOUS
  <2>2. [[known |-> FALSE, discovery |-> 0, security |-> FALSE,
          liquidity |-> FALSE, eligible |-> FALSE]
           EXCEPT !.known = TRUE, !.discovery = 50] \in AssessmentType
    BY <2>1 DEF AssessmentType
  <2> QED
    BY <1>2, <2>2 DEF AssessmentNow, NoAssessment
<1> QED
  BY <1>1, <1>2

LEMMA RapidChecksInv ==
  ASSUME IInv, NEW securityPasses \in BOOLEAN, RapidChecks(securityPasses)
  PROVE  IInv'
<1>1. assessment \in AssessmentType /\ prioritized \in BOOLEAN
  BY DEF IInv, TypeOK, AssessmentType
<1>3. AssessmentNow \in AssessmentType
  BY <1>1, AssessmentNowType
<1> DEFINE eligible == Eligible(AssessmentNow.discovery,
                                InvestmentConfidence(securityPasses),
                                securityPasses, LiquidityPasses)
<1>4. eligible \in BOOLEAN /\ LiquidityPasses \in BOOLEAN
  BY DEF Eligible, LiquidityPasses
<1>5. assessment' = [AssessmentNow EXCEPT !.security = securityPasses,
                                          !.liquidity = LiquidityPasses,
                                          !.eligible = eligible]
  BY DEF RapidChecks
<1> HIDE DEF eligible
<1>6. assessment' \in AssessmentType
  BY <1>3, <1>4, <1>5 DEF AssessmentType
<1>7. prioritized' \in BOOLEAN /\ UNCHANGED detectorVars
  BY <1>1 DEF RapidChecks
<1> QED
  BY <1>6, <1>7, GateStepInv

LEMMA EvaluateOpportunityInv ==
  ASSUME IInv, EvaluateOpportunity
  PROVE  IInv'
<1>1. assessment' \in AssessmentType /\ UNCHANGED detectorVars
  BY DEF IInv, TypeOK, AssessmentType, EvaluateOpportunity
<1>2. prioritized' \in BOOLEAN
  BY DEF EvaluateOpportunity
<1> QED
  BY <1>1, <1>2, GateStepInv

LEMMA StepInv == IInv /\ [Next]_vars => IInv'
<1> SUFFICES ASSUME IInv, [Next]_vars PROVE IInv'
  OBVIOUS
<1>1. CASE UNCHANGED vars
  <2>1. assessment' \in AssessmentType /\ prioritized' \in BOOLEAN
        /\ UNCHANGED detectorVars
    BY <1>1 DEF vars, gateVars, IInv, TypeOK, AssessmentType
  <2> QED
    BY <2>1, GateStepInv
<1>2. CASE DetectorNext /\ UNCHANGED gateVars
  <2>1. CASE \E ts \in Minute : RegisterLaunch(ts)
    BY <1>2, <2>1, RegisterLaunchInv
  <2>2. ASSUME NEW c \in Call, NEW usd \in Depth, NEW ts \in Minute,
               UpdateLiquidity(c, usd, ts)
        PROVE  IInv'
    BY <1>2, <2>2, UpdateLiquidityInv
  <2>3. ASSUME NEW c \in Call, Swap(c)
        PROVE  IInv'
    <3>1. PICK w \in Wallet, isBuy \in BOOLEAN, isWhale \in BOOLEAN,
               isBot \in BOOLEAN, ts \in Minute :
            RecordSwap(c, w, isBuy, isWhale, isBot, ts)
      BY <2>3 DEF Swap
    <3> QED
      BY <1>2, <3>1, RecordSwapInv
  <2>4. ASSUME NEW c \in Call, PublishEnds(c)
        PROVE  IInv'
    BY <1>2, <2>4, PublishEndsInv
  <2> QED
    BY <1>2, <2>1, <2>2, <2>3, <2>4 DEF DetectorNext
<1>3. ASSUME NEW e \in Evidence, AssessDiscovery(e[1], e[2], e[3])
      PROVE  IInv'
  <2>1. e[1] \in BOOLEAN /\ e[2] \in BOOLEAN /\ e[3] \in BOOLEAN
    BY GateAssumption
  <2> QED
    BY <1>3, <2>1, AssessDiscoveryInv
<1>4. CASE \E securityPasses \in BOOLEAN : RapidChecks(securityPasses)
  BY <1>4, RapidChecksInv
<1>5. CASE EvaluateOpportunity
  BY <1>5, EvaluateOpportunityInv
<1> QED
  BY <1>1, <1>2, <1>3, <1>4, <1>5 DEF Next

----------------------------------------------------------------------------
\* How often a launch's RAPID_VOLUME_ACCELERATION can come.  The test for it
\* reads the history, and a milestone may be on its way there: what is bounded
\* is what has arrived together with the tasks that still carry one.

Rapid(l) == Milestone("RAPID_VOLUME_ACCELERATION", l)

RapidRecords(h, l) == {i \in DOMAIN h : h[i] = Rapid(l)}

Carries(left, l) == \E i \in DOMAIN left : left[i] = Rapid(l)

RapidPending(r, l) == {c \in Call : Carries(r[c].left, l)}

\* In a list of milestones it comes last.
RapidLast(left) ==
  \A i \in DOMAIN left :
    left[i].type = "RAPID_VOLUME_ACCELERATION" => i = Len(left)

RapidBounded(h, r, l) ==
  Cardinality(RapidRecords(h, l)) + Cardinality(RapidPending(r, l))
    <= Cardinality(Call)

RapidInv ==
  /\ RapidBounded(history, recording, launches)
  /\ \A c \in Call : RapidLast(recording[c].left)

LEMMA RapidFinite ==
  ASSUME NEW h \in Seq(MilestoneRecord), NEW r, NEW l
  PROVE  /\ IsFiniteSet(RapidRecords(h, l))
         /\ IsFiniteSet(RapidPending(r, l))
         /\ Cardinality(RapidRecords(h, l)) \in Nat
         /\ Cardinality(RapidPending(r, l)) \in Nat
         /\ Cardinality(RapidPending(r, l)) <= Cardinality(Call)
         /\ Cardinality(Call) \in Nat
<1>1. IsFiniteSet(DOMAIN h)
  <2>1. DOMAIN h = 1..Len(h) /\ Len(h) \in Nat
    OBVIOUS
  <2> QED
    BY <2>1, FS_Interval
<1>2. RapidRecords(h, l) \subseteq DOMAIN h
  BY DEF RapidRecords
<1>3. IsFiniteSet(Call)
  BY LaunchAssumption
<1>4. RapidPending(r, l) \subseteq Call
  BY DEF RapidPending
<1> QED
  BY <1>1, <1>2, <1>3, <1>4, FS_Subset, FS_CardinalityType

\* A list without the milestone is in bounds whatever the tasks carry.
LEMMA RapidStarts ==
  ASSUME NEW h \in Seq(MilestoneRecord), NEW r, NEW l,
         RapidRecords(h, l) = {}
  PROVE  RapidBounded(h, r, l)
<1>1. Cardinality(RapidRecords(h, l)) = 0
  BY FS_EmptySet
<1> QED
  BY <1>1, RapidFinite DEF RapidBounded

\* One more record if it is the milestone, otherwise none.
LEMMA RapidAppended ==
  ASSUME NEW h \in Seq(MilestoneRecord), NEW l, NEW x \in MilestoneRecord
  PROVE  /\ x # Rapid(l) => RapidRecords(Append(h, x), l) = RapidRecords(h, l)
         /\ x = Rapid(l) => Cardinality(RapidRecords(Append(h, x), l))
                              = Cardinality(RapidRecords(h, l)) + 1
<1> DEFINE n == Len(h) + 1
           h2 == Append(h, x)
<1>1. /\ DOMAIN h = 1..Len(h) /\ Len(h) \in Nat /\ DOMAIN h2 = 1..n
      /\ h2[n] = x /\ \A i \in 1..Len(h) : h2[i] = h[i]
  OBVIOUS
<1>2. n \notin 1..Len(h) /\ 1..n = (1..Len(h)) \cup {n}
  BY <1>1
<1> HIDE DEF n, h2
<1>3. x # Rapid(l) => RapidRecords(h2, l) = RapidRecords(h, l)
  BY <1>1, <1>2 DEF RapidRecords
<1>4. ASSUME x = Rapid(l)
      PROVE  Cardinality(RapidRecords(h2, l))
               = Cardinality(RapidRecords(h, l)) + 1
  <2>1. RapidRecords(h2, l) = RapidRecords(h, l) \cup {n}
    BY <1>1, <1>2, <1>4 DEF RapidRecords
  <2>2. n \notin RapidRecords(h, l)
    BY <1>1, <1>2 DEF RapidRecords
  <2> QED
    BY <2>1, <2>2, RapidFinite, FS_AddElement
<1> QED
  BY <1>3, <1>4 DEF h2

\* The tail of a list carries what the list carries, and nothing once the
\* milestone was its head.
LEMMA TailCarries ==
  ASSUME NEW s \in Seq(MilestoneRecord), s # <<>>, NEW l, RapidLast(s)
  PROVE  /\ Tail(s) \in Seq(MilestoneRecord) /\ RapidLast(Tail(s))
         /\ Head(s) \in MilestoneRecord
         /\ Carries(Tail(s), l) => Carries(s, l)
         /\ Head(s) = Rapid(l) => Carries(s, l) /\ ~Carries(Tail(s), l)
<1>1. /\ Len(s) \in Nat /\ DOMAIN s = 1..Len(s) /\ 1 \in DOMAIN s
      /\ Head(s) = s[1] /\ Tail(s) \in Seq(MilestoneRecord)
      /\ Len(Tail(s)) = Len(s) - 1 /\ DOMAIN Tail(s) = 1..(Len(s) - 1)
      /\ \A i \in DOMAIN Tail(s) : Tail(s)[i] = s[i + 1]
  OBVIOUS
<1>2. \A i \in DOMAIN Tail(s) : i + 1 \in DOMAIN s
  BY <1>1
<1>3. RapidLast(Tail(s))
  <2> SUFFICES ASSUME NEW i \in DOMAIN Tail(s),
                      Tail(s)[i].type = "RAPID_VOLUME_ACCELERATION"
               PROVE  i = Len(Tail(s))
    BY DEF RapidLast
  <2>1. i + 1 = Len(s)
    BY <1>1, <1>2 DEF RapidLast
  <2> QED
    BY <1>1, <2>1
<1>4. Carries(Tail(s), l) => Carries(s, l)
  BY <1>1, <1>2 DEF Carries
<1>5. ASSUME Head(s) = Rapid(l)
      PROVE  Carries(s, l) /\ ~Carries(Tail(s), l)
  <2>1. s[1].type = "RAPID_VOLUME_ACCELERATION"
    BY <1>1, <1>5 DEF Rapid, Milestone
  <2>2. Len(s) = 1
    BY <1>1, <2>1 DEF RapidLast
  <2> QED
    BY <1>1, <1>5, <2>2 DEF Carries
<1>6. Head(s) \in MilestoneRecord
  BY <1>1
<1> QED
  BY <1>1, <1>3, <1>4, <1>5, <1>6

\* Handing the head of a list s to the history and its tail to task c keeps
\* the bound, when what c carries is either nothing new or the first there is.
LEMMA RapidHandedOver ==
  ASSUME NEW h \in Seq(MilestoneRecord), NEW c \in Call, NEW l,
         NEW s \in Seq(MilestoneRecord), s # <<>>, RapidLast(s),
         NEW r, NEW r2, RapidBounded(h, r, l),
         \A x \in Call \ {c} : r2[x].left = r[x].left,
         r2[c].left = Tail(s),
         Carries(s, l) => RapidRecords(h, l) = {} \/ Carries(r[c].left, l)
  PROVE  RapidBounded(Append(h, Head(s)), r2, l)
<1> DEFINE n == Cardinality(RapidRecords(h, l))
           p == Cardinality(RapidPending(r, l))
           p2 == Cardinality(RapidPending(r2, l))
           k == Cardinality(Call)
           n2 == Cardinality(RapidRecords(Append(h, Head(s)), l))
<1>1. /\ Head(s) \in MilestoneRecord
      /\ Carries(Tail(s), l) => Carries(s, l)
      /\ Head(s) = Rapid(l) => Carries(s, l) /\ ~Carries(Tail(s), l)
  BY TailCarries
<1>2. /\ n \in Nat /\ p \in Nat /\ p2 \in Nat /\ k \in Nat /\ p2 <= k
      /\ n + p <= k
      /\ IsFiniteSet(RapidPending(r, l)) /\ IsFiniteSet(RapidPending(r2, l))
  BY RapidFinite DEF RapidBounded
<1>3. RapidPending(r2, l) \subseteq RapidPending(r, l) \cup {c}
  BY DEF RapidPending
<1>4. /\ Head(s) # Rapid(l) => n2 = n
      /\ Head(s) = Rapid(l) => n2 = n + 1
  BY <1>1, RapidAppended
<1>5. CASE Carries(s, l) /\ RapidRecords(h, l) = {}
  <2>1. n = 0
    BY <1>5, FS_EmptySet
  <2>2. CASE Head(s) # Rapid(l)
    <3> HIDE DEF n, n2, p2, k
    <3>1. n2 + p2 <= k
      BY <1>2, <1>4, <2>1, <2>2
    <3> QED
      BY <3>1 DEF RapidBounded, n2, p2, k
  <2>3. CASE Head(s) = Rapid(l)
    <3>1. RapidPending(r2, l) \subseteq Call \ {c}
      BY <1>1, <2>3 DEF RapidPending
    <3>2. IsFiniteSet(Call)
      BY LaunchAssumption
    <3>3. IsFiniteSet(Call \ {c}) /\ Cardinality(Call \ {c}) = k - 1
      BY <3>2, FS_RemoveElement
    <3>4. p2 <= k - 1
      BY <3>1, <3>3, FS_Subset
    <3> HIDE DEF n, n2, p2, k
    <3>5. n2 + p2 <= k
      BY <1>2, <1>4, <2>1, <2>3, <3>4
    <3> QED
      BY <3>5 DEF RapidBounded, n2, p2, k
  <2> QED
    BY <2>2, <2>3
<1>6. CASE ~Carries(s, l)
  <2>1. RapidPending(r2, l) \subseteq RapidPending(r, l)
    BY <1>1, <1>6 DEF RapidPending
  <2>2. p2 <= p
    BY <1>2, <2>1, FS_Subset
  <2>3. n2 = n
    BY <1>1, <1>4, <1>6
  <2> HIDE DEF n, n2, p, p2, k
  <2>4. n2 + p2 <= k
    BY <1>2, <2>2, <2>3
  <2> QED
    BY <2>4 DEF RapidBounded, n2, p2, k
<1>7. CASE Carries(r[c].left, l)
  <2>1. c \in RapidPending(r, l)
    BY <1>7 DEF RapidPending
  <2>2. CASE Head(s) # Rapid(l)
    <3>1. RapidPending(r2, l) \subseteq RapidPending(r, l)
      BY <1>3, <2>1
    <3>2. p2 <= p
      BY <1>2, <3>1, FS_Subset
    <3> HIDE DEF n, n2, p, p2, k
    <3>3. n2 + p2 <= k
      BY <1>2, <1>4, <2>2, <3>2
    <3> QED
      BY <3>3 DEF RapidBounded, n2, p2, k
  <2>3. CASE Head(s) = Rapid(l)
    <3>1. c \notin RapidPending(r2, l)
      BY <1>1, <2>3 DEF RapidPending
    <3>2. RapidPending(r2, l) \subseteq RapidPending(r, l) \ {c}
      BY <1>3, <3>1
    <3>3. /\ IsFiniteSet(RapidPending(r, l) \ {c})
          /\ Cardinality(RapidPending(r, l) \ {c}) = p - 1
      BY <1>2, <2>1, FS_RemoveElement
    <3>4. p2 <= p - 1
      BY <3>2, <3>3, FS_Subset
    <3> HIDE DEF n, n2, p, p2, k
    <3>5. n2 + p2 <= k
      BY <1>2, <1>4, <2>3, <3>4
    <3> QED
      BY <3>5 DEF RapidBounded, n2, p2, k
  <2> QED
    BY <2>2, <2>3
<1> QED
  BY <1>5, <1>6, <1>7

\* What a call finds when it has registered the token if need be.
LEMMA RapidOfCall ==
  ASSUME IInv, RapidInv
  PROVE  /\ RapidBounded(HistoryNow, recording, LaunchNow)
         /\ HistoryNow \in Seq(MilestoneRecord)
<1>1. CASE FreshLaunch
  <2>1. HistoryNow = <<>>
    BY <1>1 DEF HistoryNow
  <2>2. HistoryNow \in Seq(MilestoneRecord)
        /\ RapidRecords(HistoryNow, LaunchNow) = {}
    BY <2>1 DEF RapidRecords
  <2> QED
    BY <2>2, RapidStarts
<1>2. CASE ~FreshLaunch
  BY <1>2 DEF HistoryNow, LaunchNow, RapidInv, IInv, TypeOK, DetectorTypeOK
<1> QED
  BY <1>1, <1>2

\* StartRecording keeps the bound, when the list has the milestone only if the
\* history is without it.
LEMMA StartRecordingRapid ==
  ASSUME IInv, RapidInv, NEW c \in Call, NEW s \in Seq(MilestoneRecord),
         StartRecording(c, s), RapidLast(s), launches' = LaunchNow,
         Carries(s, LaunchNow) => RapidRecords(HistoryNow, LaunchNow) = {}
  PROVE  RapidInv'
<1>0. /\ RapidBounded(HistoryNow, recording, LaunchNow)
      /\ HistoryNow \in Seq(MilestoneRecord)
      /\ \A x \in Call : RapidLast(recording[x].left)
      /\ recording \in [Call -> [busy : BOOLEAN,
                                  left : Seq(MilestoneRecord)]]
  BY RapidOfCall DEF RapidInv, IInv, TypeOK, DetectorTypeOK
<1>1. /\ RapidBounded(history', recording', LaunchNow)
      /\ \A x \in Call : RapidLast(recording'[x].left)
  <2>1. CASE s = <<>>
    BY <1>0, <2>1 DEF StartRecording
  <2>2. CASE s # <<>>
    <3>1. /\ history' = Append(HistoryNow, Head(s))
          /\ recording' = [recording EXCEPT
                             ![c] = [busy |-> TRUE, left |-> Tail(s)]]
      BY <2>2 DEF StartRecording
    <3>2. /\ recording'[c].left = Tail(s)
          /\ \A x \in Call \ {c} : recording'[x].left = recording[x].left
      BY <1>0, <3>1
    <3>3. RapidLast(Tail(s))
      BY <2>2, TailCarries
    <3>4. RapidBounded(Append(HistoryNow, Head(s)), recording', LaunchNow)
      BY <1>0, <2>2, <3>2, RapidHandedOver
    <3> QED
      BY <1>0, <3>1, <3>2, <3>3, <3>4
  <2> QED
    BY <2>1, <2>2
<1> QED
  BY <1>1 DEF RapidInv, RapidBounded, RapidRecords, RapidPending, Carries,
     RapidLast

\* The milestone comes last among those of a swap, and only if the history is
\* without it.
LEMMA RapidOfSwap ==
  ASSUME NEW m, NEW isBuy \in BOOLEAN, NEW isWhale \in BOOLEAN
  PROVE  LET s == SwapMilestones(m, isBuy, isWhale) IN
         /\ LaunchNow \in 0..MaxLaunches => s \in Seq(MilestoneRecord)
         /\ RapidLast(s)
         /\ Carries(s, LaunchNow) => RapidRecords(HistoryNow, LaunchNow) = {}
<1> DEFINE R == "RAPID_VOLUME_ACCELERATION"
           Other == {"FIRST_BUY", "FIRST_100_WALLETS", "WHALE_ENTRY"}
           first == IF m.buys = 1 THEN <<"FIRST_BUY">> ELSE <<>>
           hundred == IF Cardinality(m.buyers) = HolderMilestone
                      THEN <<"FIRST_100_WALLETS">> ELSE <<>>
           whale == IF isWhale THEN <<"WHALE_ENTRY">> ELSE <<>>
           rapid == RapidMilestone(m)
           buy == IF isBuy THEN BuyMilestones(m, isWhale) ELSE <<>>
           types == buy \o rapid
           s == [i \in DOMAIN types |-> Milestone(types[i], LaunchNow)]
<1>0. SwapMilestones(m, isBuy, isWhale) = s
  BY DEF SwapMilestones
<1>1. buy \in Seq(Other)
  <2>1. first \in Seq(Other) /\ hundred \in Seq(Other) /\ whale \in Seq(Other)
    BY OneOrNone
  <2>2. BuyMilestones(m, isWhale) = (first \o hundred) \o whale
    BY DEF BuyMilestones
  <2> HIDE DEF first, hundred, whale, Other
  <2>3. (first \o hundred) \o whale \in Seq(Other)
    BY <2>1, Concatenated
  <2> QED
    BY <2>2, <2>3
<1>2. /\ rapid = <<>> \/ rapid = <<R>>
      /\ rapid # <<>> => ~Recorded(R, HistoryNow)
  BY DEF RapidMilestone
<1>3. R \notin Other
  OBVIOUS
<1> HIDE DEF buy, rapid, Other
<1>4. /\ types \in Seq(Other \cup {R})
      /\ \A i \in DOMAIN types :
           types[i] = R => i = Len(types) /\ rapid # <<>>
  <2>1. CASE rapid = <<>>
    <3>1. types = buy
      BY <1>1, <2>1
    <3> QED
      BY <1>1, <1>3, <3>1
  <2>2. CASE rapid = <<R>>
    <3>1. /\ Len(buy) \in Nat /\ Len(types) = Len(buy) + 1
          /\ DOMAIN types = 1..(Len(buy) + 1)
          /\ \A i \in 1..Len(buy) : types[i] = buy[i]
          /\ types[Len(buy) + 1] = R
      BY <1>1, <2>2
    <3>2. buy \in Seq(Other \cup {R}) /\ rapid \in Seq(Other \cup {R})
      BY <1>1, <2>2
    <3>3. types \in Seq(Other \cup {R})
      BY <3>2, Concatenated
    <3>4. \A i \in 1..Len(buy) : buy[i] \in Other
      BY <1>1
    <3>5. rapid # <<>>
      BY <2>2
    <3> HIDE DEF types
    <3> QED
      BY <1>3, <3>1, <3>3, <3>4, <3>5
  <2> QED
    BY <1>2, <2>1, <2>2
<1> HIDE DEF types
<1>5. /\ DOMAIN s = 1..Len(types) /\ Len(types) \in Nat
      /\ \A i \in 1..Len(types) : s[i] = Milestone(types[i], LaunchNow)
      /\ DOMAIN types = 1..Len(types)
  BY <1>4
<1>6. /\ LaunchNow \in 0..MaxLaunches => s \in Seq(MilestoneRecord)
      /\ Len(s) = Len(types)
  <2>1. Other \cup {R} \subseteq MilestoneType
    BY DEF MilestoneType, Other
  <2>2. \A i \in 1..Len(types) : types[i] \in MilestoneType
    BY <1>4, <1>5, <2>1
  <2>3. LaunchNow \in 0..MaxLaunches
          => \A i \in 1..Len(types) : s[i] \in MilestoneRecord
    BY <1>5, <2>2 DEF Milestone, MilestoneRecord
  <2> QED
    BY <1>5, <2>3
<1> HIDE DEF s
<1>7. \A i \in DOMAIN s : s[i].type = types[i]
  BY <1>5 DEF Milestone
<1>8. RapidLast(s)
  BY <1>4, <1>5, <1>6, <1>7 DEF RapidLast
<1>9. Carries(s, LaunchNow) => RapidRecords(HistoryNow, LaunchNow) = {}
  <2> HAVE Carries(s, LaunchNow)
  <2>1. PICK i \in DOMAIN s : s[i] = Rapid(LaunchNow)
    BY DEF Carries
  <2>2. types[i] = R
    BY <1>7, <2>1 DEF Rapid, Milestone
  <2>3. ~Recorded(R, HistoryNow)
    BY <1>2, <1>4, <1>5, <2>2
  <2> QED
    BY <2>3 DEF Recorded, RapidRecords, Rapid, Milestone
<1> QED
  BY <1>0, <1>6, <1>8, <1>9

LEMMA RapidInit == Init => RapidInv
<1> SUFFICES ASSUME Init PROVE RapidInv
  OBVIOUS
<1>1. history = <<>> /\ \A c \in Call : recording[c].left = <<>>
  BY DEF Init, DetectorInit, NotRecording
<1>2. history \in Seq(MilestoneRecord) /\ RapidRecords(history, launches) = {}
  BY <1>1 DEF RapidRecords
<1>3. RapidBounded(history, recording, launches)
  BY <1>2, RapidStarts
<1>4. \A c \in Call : RapidLast(recording[c].left)
  BY <1>1 DEF RapidLast
<1> QED
  BY <1>3, <1>4 DEF RapidInv

LEMMA RapidRegisterLaunch ==
  ASSUME IInv, RapidInv, NEW ts \in Minute, RegisterLaunch(ts)
  PROVE  RapidInv'
<1>1. history' = <<>> /\ recording' = recording
  BY DEF RegisterLaunch
<1>2. /\ history' \in Seq(MilestoneRecord)
      /\ RapidRecords(history', launches') = {}
  BY <1>1 DEF RapidRecords
<1>3. RapidBounded(history', recording', launches')
  BY <1>2, RapidStarts
<1> QED
  BY <1>1, <1>3 DEF RapidInv, RapidBounded, RapidRecords, RapidPending,
     Carries, RapidLast

LEMMA RapidUpdateLiquidity ==
  ASSUME IInv, RapidInv, NEW c \in Call, NEW usd \in Depth, NEW ts \in Minute,
         UpdateLiquidity(c, usd, ts), IInv'
  PROVE  RapidInv'
<1> DEFINE x == Milestone("SIGNIFICANT_LIQUIDITY_INCREASE", LaunchNow)
<1>1. PICK s \in {<<x>>, <<>>} : StartRecording(c, s)
  BY DEF UpdateLiquidity
<1>2. launches' = LaunchNow
  BY DEF UpdateLiquidity
<1>3. LaunchNow \in 0..MaxLaunches
  BY <1>2 DEF IInv, TypeOK, DetectorTypeOK
<1>4. x \in MilestoneRecord /\ x.type # "RAPID_VOLUME_ACCELERATION"
      /\ x # Rapid(LaunchNow)
  BY <1>3 DEF Milestone, MilestoneRecord, MilestoneType, Rapid
<1> HIDE DEF x
<1>5. s \in Seq(MilestoneRecord) /\ \A i \in DOMAIN s : s[i] = x
  <2>1. CASE s = <<x>>
    <3>1. DOMAIN s = 1..1 /\ s[1] = x /\ s \in Seq(MilestoneRecord)
      BY <1>4, <2>1
    <3> QED
      BY <3>1
  <2>2. CASE s = <<>>
    BY <2>2
  <2> QED
    BY <1>1, <2>1, <2>2
<1>6. RapidLast(s) /\ ~Carries(s, LaunchNow)
  BY <1>4, <1>5 DEF RapidLast, Carries
<1> QED
  BY <1>1, <1>2, <1>5, <1>6, StartRecordingRapid

LEMMA RapidRecordSwap ==
  ASSUME IInv, RapidInv, NEW c \in Call, NEW w \in Wallet,
         NEW isBuy \in BOOLEAN, NEW isWhale \in BOOLEAN,
         NEW isBot \in BOOLEAN, NEW ts \in Minute,
         RecordSwap(c, w, isBuy, isWhale, isBot, ts), IInv'
  PROVE  RapidInv'
<1> DEFINE m == AfterSwap(MetricsAt(ts), w, isBuy, isBot, ts)
           s == SwapMilestones(m, isBuy, isWhale)
<1>1. StartRecording(c, s) /\ launches' = LaunchNow
  BY DEF RecordSwap
<1> HIDE DEF m
<1>2. LaunchNow \in 0..MaxLaunches
  BY <1>1 DEF IInv, TypeOK, DetectorTypeOK
<1>3. /\ s \in Seq(MilestoneRecord)
      /\ RapidLast(s)
      /\ Carries(s, LaunchNow) => RapidRecords(HistoryNow, LaunchNow) = {}
  BY <1>2, RapidOfSwap
<1> HIDE DEF s
<1> QED
  BY <1>1, <1>3, StartRecordingRapid

LEMMA RapidPublishEnds ==
  ASSUME IInv, RapidInv, NEW c \in Call, PublishEnds(c)
  PROVE  RapidInv'
<1> DEFINE left == recording[c].left
<1>0. /\ recording \in [Call -> [busy : BOOLEAN,
                                  left : Seq(MilestoneRecord)]]
      /\ history \in Seq(MilestoneRecord)
      /\ left \in Seq(MilestoneRecord) /\ RapidLast(left)
      /\ \A x \in Call : RapidLast(recording[x].left)
      /\ RapidBounded(history, recording, launches)
      /\ launches' = launches
  BY DEF RapidInv, IInv, TypeOK, DetectorTypeOK, PublishEnds
<1>1. /\ RapidBounded(history', recording', launches)
      /\ \A x \in Call : RapidLast(recording'[x].left)
  <2>1. CASE left = <<>>
    <3>1. history' = history
          /\ \A x \in Call : recording'[x].left = recording[x].left
      BY <1>0, <2>1 DEF PublishEnds, NotRecording
    <3>2. RapidPending(recording', launches)
            = RapidPending(recording, launches)
      BY <3>1 DEF RapidPending
    <3> QED
      BY <1>0, <3>1, <3>2 DEF RapidBounded
  <2>2. CASE left # <<>>
    <3>1. /\ recording' = [recording EXCEPT
                             ![c] = [@ EXCEPT !.left = Tail(left)]]
          /\ history' = Append(history, Head(left))
      BY <1>0, <2>2 DEF PublishEnds
    <3> HIDE DEF left
    <3>2. /\ recording'[c].left = Tail(left)
          /\ \A x \in Call \ {c} : recording'[x].left = recording[x].left
      BY <1>0, <3>1
    <3>3. RapidLast(Tail(left))
      BY <1>0, <2>2, TailCarries
    <3>4. Carries(left, launches) => Carries(recording[c].left, launches)
      BY DEF left
    <3>5. RapidBounded(Append(history, Head(left)), recording', launches)
      BY <1>0, <2>2, <3>2, <3>4, RapidHandedOver
    <3> QED
      BY <1>0, <3>1, <3>2, <3>3, <3>5
  <2> QED
    BY <2>1, <2>2
<1> QED
  BY <1>0, <1>1 DEF RapidInv, RapidBounded, RapidRecords, RapidPending,
     Carries, RapidLast

LEMMA RapidStep == IInv /\ RapidInv /\ [Next]_vars => RapidInv'
<1> SUFFICES ASSUME IInv, RapidInv, [Next]_vars PROVE RapidInv'
  OBVIOUS
<1>0. IInv'
  BY StepInv
<1>1. CASE UNCHANGED detectorVars
  BY <1>1 DEF detectorVars, RapidInv, RapidBounded, RapidRecords,
     RapidPending, Carries, RapidLast
<1>2. CASE DetectorNext
  <2>1. CASE \E ts \in Minute : RegisterLaunch(ts)
    BY <2>1, RapidRegisterLaunch
  <2>2. ASSUME NEW c \in Call, NEW usd \in Depth, NEW ts \in Minute,
               UpdateLiquidity(c, usd, ts)
        PROVE  RapidInv'
    BY <1>0, <2>2, RapidUpdateLiquidity
  <2>3. ASSUME NEW c \in Call, Swap(c)
        PROVE  RapidInv'
    <3>1. PICK w \in Wallet, isBuy \in BOOLEAN, isWhale \in BOOLEAN,
               isBot \in BOOLEAN, ts \in Minute :
            RecordSwap(c, w, isBuy, isWhale, isBot, ts)
      BY <2>3 DEF Swap
    <3> QED
      BY <1>0, <3>1, RapidRecordSwap
  <2>4. ASSUME NEW c \in Call, PublishEnds(c)
        PROVE  RapidInv'
    BY <2>4, RapidPublishEnds
  <2> QED
    BY <1>2, <2>1, <2>2, <2>3, <2>4 DEF DetectorNext
<1>3. CASE Next /\ ~DetectorNext
  <2>1. UNCHANGED detectorVars
    BY <1>3 DEF Next, AssessDiscovery, RapidChecks, EvaluateOpportunity
  <2> QED
    BY <1>1, <2>1
<1> QED
  BY <1>1, <1>2, <1>3 DEF vars

----------------------------------------------------------------------------
\* The inductive invariant holds throughout, for any number of tasks, buyers,
\* calls and launches.
THEOREM Invariant == Spec => []IInv
  BY InitInv, StepInv, PTL DEF Spec

\* The detector, the gate and the opportunity engine keep their variables in
\* their types; a discovery confidence lies between 0 and 1.
THEOREM TypeCorrect == Spec => []TypeOK
<1>1. IInv => TypeOK
  BY DEF IInv
<1> QED
  BY <1>1, Invariant, PTL

\* bot_transaction_ratio stays a share and misses at most one swap by a bot for
\* every float product that truncation made one too small, whatever products
\* those are and however many roundings follow one another.
THEOREM RatioLosesByRoundingOnly == Spec => []BotsLostByRoundingOnly
<1>1. IInv => BotsLostByRoundingOnly
  BY DEF IInv, Covers, BotsLostByRoundingOnly
<1> QED
  BY <1>1, Invariant, PTL

\* The list of milestones of a launch shows its first buy once and first,
\* however the calls of record_swap overlap around their publications.
THEOREM FirstBuyAlwaysLeads == Spec => []FirstBuyLeads
<1>1. IInv => FirstBuyLeads
  BY DEF IInv, HistoryInv, HistoryOk, FirstBuyLeads, OfThisLaunch
<1> QED
  BY <1>1, Invariant, PTL

\* RAPID_VOLUME_ACCELERATION, meant to come once per launch, comes at most once
\* per task: a repetition takes calls that overlap around a publication.
THEOREM RapidRepeatsByOverlapOnly == Spec => []RapidOnlyByOverlap
<1>1. Init => IInv /\ RapidInv
  BY InitInv, RapidInit
<1>2. (IInv /\ RapidInv) /\ [Next]_vars => (IInv /\ RapidInv)'
  BY StepInv, RapidStep
<1>3. IInv /\ RapidInv => RapidOnlyByOverlap
  <2> SUFFICES ASSUME IInv, RapidInv PROVE RapidOnlyByOverlap
    OBVIOUS
  <2> DEFINE n == Cardinality(RapidRecords(history, launches))
             p == Cardinality(RapidPending(recording, launches))
             k == Cardinality(Call)
  <2>1. history \in Seq(MilestoneRecord)
    BY DEF IInv, TypeOK, DetectorTypeOK
  <2>2. n \in Nat /\ p \in Nat /\ k \in Nat
    BY <2>1, RapidFinite
  <2>3. n + p <= k
    BY DEF RapidInv, RapidBounded
  <2> HIDE DEF n, p, k
  <2>4. n <= k
    BY <2>2, <2>3
  <2> QED
    BY <2>4 DEF RapidOnlyByOverlap, RapidRecords, Rapid, n, k
<1> QED
  BY <1>1, <1>2, <1>3, PTL DEF Spec

\* Only a check opens the gate, a check never leaves it open on a pool below
\* MinPool or without the security pass, and a discovery anew closes it.
THEOREM GateIsTheLastVerdict == Spec => GateFollowsLastCheck
<1> DEFINE A ==
      /\ ~CanGenerateTradeProposal /\ CanGenerateTradeProposal'
           => \E passes \in BOOLEAN : RapidChecks(passes)
      /\ \A passes \in BOOLEAN :
           RapidChecks(passes) /\ CanGenerateTradeProposal'
             => passes /\ metrics.registered /\ metrics.liquidity >= MinPool
      /\ (\E e \in Evidence : AssessDiscovery(e[1], e[2], e[3]))
           => ~CanGenerateTradeProposal'
<1>1. ASSUME IInv, NEW passes \in BOOLEAN, RapidChecks(passes),
             CanGenerateTradeProposal'
      PROVE  passes /\ metrics.registered /\ metrics.liquidity >= MinPool
  <2>1. AssessmentNow \in AssessmentType
    BY <1>1, AssessmentNowType DEF IInv, TypeOK, AssessmentType
  <2>2. assessment'.eligible => passes /\ LiquidityPasses
    BY <1>1, <2>1 DEF RapidChecks, AssessmentType, Eligible
  <2>3. LiquidityPasses => metrics.registered /\ metrics.liquidity >= MinPool
    BY GateAssumption DEF LiquidityPasses, CurrentLiquidity
  <2> QED
    BY <1>1, <2>2, <2>3 DEF CanGenerateTradeProposal
<1>2. ASSUME NEW e \in Evidence, AssessDiscovery(e[1], e[2], e[3])
      PROVE  ~CanGenerateTradeProposal'
  BY <1>2 DEF AssessDiscovery, NoAssessment, CanGenerateTradeProposal
<1>3. ASSUME Next, ~CanGenerateTradeProposal, CanGenerateTradeProposal'
      PROVE  \E passes \in BOOLEAN : RapidChecks(passes)
  <2>1. CASE DetectorNext /\ UNCHANGED gateVars
    BY <1>3, <2>1 DEF gateVars, CanGenerateTradeProposal
  <2>2. CASE EvaluateOpportunity
    BY <1>3, <2>2 DEF EvaluateOpportunity, CanGenerateTradeProposal
  <2> QED
    BY <1>2, <1>3, <2>1, <2>2 DEF Next
<1>4. IInv /\ [Next]_vars => [A]_vars
  BY <1>1, <1>2, <1>3
<1>5. Spec => [][A]_vars
  BY <1>4, Invariant, PTL DEF Spec
<1> QED
  BY <1>5 DEF GateFollowsLastCheck
=============================================================================
