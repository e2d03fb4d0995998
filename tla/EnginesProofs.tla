----------------------------- MODULE EnginesProofs -----------------------------
(***************************************************************************)
(* Proofs about the engines: the groups of CrossChain, the supply, the     *)
(* prices and the pools of Market, the wallets, books and log of Holders,  *)
(* and the verdict of Security.                                            *)
(***************************************************************************)
EXTENDS Engines, SumProofs

----------------------------------------------------------------------------
(* CrossChain.                                                             *)

Rep == [canonical : BOOLEAN, wrapped : BOOLEAN, liquidity : Nat, holders : Nat]

RepsOk(r) ==
  /\ DOMAIN r \subseteq Group
  /\ \A g \in DOMAIN r : /\ DOMAIN r[g] \subseteq Deployment
                         /\ \A d \in DOMAIN r[g] : r[g][d] \in Rep

\* The groups of r that represent d.
In(r, d) == {g \in DOMAIN r : d \in DOMAIN r[g]}

\* Groups and map agree.
Agree(r, m) ==
  /\ DOMAIN m \subseteq Deployment
  /\ \A d \in Deployment : /\ In(r, d) # {} <=> d \in DOMAIN m
                           /\ d \in DOMAIN m => m[d] \in In(r, d)

HasCanonical(r, g) == \E d \in DOMAIN r[g] : r[g][d].canonical

\* The figures of a group with a canonical token are up to date.
CanonicalCounted ==
  \A g \in DOMAIN reps :
    HasCanonical(reps, g)
      => totals[g].liquidity = Liquidity(reps[g], Counted(reps[g]))

MovesOk ==
  /\ links \in 0..MaxLinks /\ moves \in [Deployment -> Nat]
  /\ \A d \in Deployment : /\ moves[d] <= links
                           /\ IsFiniteSet(In(reps, d))
                           /\ Cardinality(In(reps, d)) <= 1 + moves[d]

CrossInv ==
  /\ RepsOk(reps)
  /\ Agree(reps, groupOf)
  /\ DOMAIN totals = DOMAIN reps
  /\ CanonicalCounted
  /\ MovesOk

LEMMA CreateFacts ==
  ASSUME NEW r, RepsOk(r), NEW g \in Group
  PROVE  /\ RepsOk(Created(r, g))
         /\ DOMAIN Created(r, g) = DOMAIN r \cup {g}
         /\ \A x \in DOMAIN r : Created(r, g)[x] = r[x]
         /\ \A d : In(Created(r, g), d) = In(r, d)
         /\ HasCanonical(Created(r, g), g) => g \in DOMAIN r
<1>1. CASE g \in DOMAIN r
  BY <1>1 DEF Created
<1>2. CASE g \notin DOMAIN r
  <2>1. /\ DOMAIN Created(r, g) = DOMAIN r \cup {g}
        /\ Created(r, g)[g] = <<>>
        /\ \A x \in DOMAIN r : Created(r, g)[x] = r[x]
    BY <1>2 DEF Created, Put
  <2>2. DOMAIN Created(r, g)[g] = {}
    BY <2>1
  <2> QED
    BY <1>2, <2>1, <2>2 DEF RepsOk, In, HasCanonical
<1> QED
  BY <1>1, <1>2

\* What one link does to groups and map.
LEMMA LinkFacts ==
  ASSUME NEW r, RepsOk(r), NEW m, NEW g \in DOMAIN r, NEW d \in Deployment,
         NEW c \in BOOLEAN, NEW w \in BOOLEAN, NEW f \in Nat \X Nat
  PROVE  LET s == WithLink(r, g, d, c, w, f) IN
         /\ RepsOk(s)
         /\ DOMAIN s = DOMAIN r
         /\ \A x \in DOMAIN r : x # g => s[x] = r[x]
         /\ In(s, d) = In(r, d) \cup {g}
         /\ \A x : x # d => In(s, x) = In(r, x)
         /\ \A x \in DOMAIN r : HasCanonical(r, x) => HasCanonical(s, x)
         /\ Agree(r, m) => Agree(s, Mapped(m, g, d))
<1> DEFINE new == Linked(Representation(r, g, d), c, w, f)
           s == WithLink(r, g, d, c, w, f)
<1>1. new \in Rep
  <2>1. f[1] \in Nat /\ f[2] \in Nat
    OBVIOUS
  <2>2. (IF Representation(r, g, d) = <<>> THEN c
         ELSE Representation(r, g, d).canonical) \in BOOLEAN
    BY DEF Representation, RepsOk, Rep
  <2> QED
    BY <2>1, <2>2 DEF Linked, Rep
<1>2. d \in DOMAIN r[g] /\ r[g][d].canonical => new.canonical
  <2> SUFFICES ASSUME d \in DOMAIN r[g], r[g][d].canonical
               PROVE  new.canonical
    OBVIOUS
  <2>1. r[g][d] \in Rep
    BY DEF RepsOk
  <2>2. Representation(r, g, d) = r[g][d]
    BY DEF Representation
  <2>3. CASE r[g][d] = <<>>
    <3>1. DOMAIN r[g][d] = {}
      BY <2>3
    <3> QED
      BY <2>1, <3>1 DEF Rep
  <2>4. CASE r[g][d] # <<>>
    BY <2>2, <2>4 DEF Linked
  <2> QED
    BY <2>3, <2>4
<1> HIDE DEF new
<1>3. s = [r EXCEPT ![g] = Put(r[g], d, new)]
  BY DEF WithLink, new
<1>4. /\ DOMAIN s = DOMAIN r
      /\ \A x \in DOMAIN r : x # g => s[x] = r[x]
      /\ DOMAIN s[g] = DOMAIN r[g] \cup {d}
      /\ s[g][d] = new
      /\ \A x \in DOMAIN r[g] : x # d => s[g][x] = r[g][x]
  BY <1>3 DEF Put
<1> HIDE DEF s
<1>5. RepsOk(s)
  BY <1>1, <1>4 DEF RepsOk
<1>6. /\ In(s, d) = In(r, d) \cup {g}
      /\ \A x : x # d => In(s, x) = In(r, x)
  BY <1>4 DEF In
<1>7. \A x \in DOMAIN r : HasCanonical(r, x) => HasCanonical(s, x)
  BY <1>2, <1>4 DEF HasCanonical
<1>8. Agree(r, m) => Agree(s, Mapped(m, g, d))
  <2>1. /\ DOMAIN Mapped(m, g, d) = DOMAIN m \cup {d}
        /\ Mapped(m, g, d)[d] = g
        /\ \A x \in DOMAIN m : x # d => Mapped(m, g, d)[x] = m[x]
    BY DEF Mapped, Put
  <2> QED
    BY <1>6, <2>1 DEF Agree
<1> QED
  BY <1>4, <1>5, <1>6, <1>7, <1>8 DEF s

LEMMA CrossStart ==
  ASSUME CrossInit
  PROVE  CrossInv
<1>1. DOMAIN <<>> = {}
  OBVIOUS
<1>2. \A d : In(reps, d) = {}
  BY <1>1 DEF CrossInit, In
<1>3. \A d : IsFiniteSet(In(reps, d)) /\ Cardinality(In(reps, d)) = 0
  BY <1>2, FS_EmptySet, Zenon
<1>4. MovesOk
  BY <1>3, CrossChainAssumption DEF CrossInit, MovesOk
<1> QED
  BY <1>1, <1>2, <1>4 DEF CrossInit, CrossInv, RepsOk, Agree, CanonicalCounted

LEMMA CreateGroupStep ==
  ASSUME CrossInv, NEW g \in Group, CreateGroup(g)
  PROVE  CrossInv'
<1> USE DEF CrossInv
<1>1. /\ RepsOk(reps')
      /\ DOMAIN reps' = DOMAIN reps \cup {g}
      /\ \A x \in DOMAIN reps : reps'[x] = reps[x]
      /\ \A d : In(reps', d) = In(reps, d)
      /\ ~HasCanonical(reps', g)
  BY CreateFacts DEF CreateGroup, Group
<1>2. UNCHANGED <<groupOf, moves, links>>
  BY DEF CreateGroup
<1>3. /\ DOMAIN totals' = DOMAIN reps'
      /\ \A x \in DOMAIN reps : totals'[x] = totals[x]
  BY <1>1 DEF CreateGroup, Put
<1>4. Agree(reps', groupOf')
  BY <1>1, <1>2 DEF Agree
<1>5. MovesOk'
  BY <1>1, <1>2 DEF MovesOk
<1>6. CanonicalCounted'
  BY <1>1, <1>3 DEF CanonicalCounted, HasCanonical
<1> QED
  BY <1>1, <1>3, <1>4, <1>5, <1>6

\* One more group for d at most.
LEMMA OneMoreGroup ==
  ASSUME NEW S, IsFiniteSet(S), NEW g, NEW n \in Nat, Cardinality(S) <= n
  PROVE  /\ IsFiniteSet(S \cup {g})
         /\ Cardinality(S \cup {g}) <= n + 1
<1>1. Cardinality(S) \in Nat
  BY FS_CardinalityType
<1>2. IsFiniteSet(S \cup {g})
      /\ Cardinality(S \cup {g}) = IF g \in S THEN Cardinality(S)
                                   ELSE Cardinality(S) + 1
  BY FS_AddElement
<1> QED
  BY <1>1, <1>2

\* A link, whatever the groups and the map before it: the last step of both
\* calls.
LEMMA LinkStep ==
  ASSUME NEW r, RepsOk(r), NEW m, Agree(r, m), NEW g \in DOMAIN r,
         NEW d \in Deployment, NEW c \in BOOLEAN, NEW w \in BOOLEAN,
         NEW f \in Nat \X Nat,
         \A x \in DOMAIN r : x # g => x \in DOMAIN reps /\ r[x] = reps[x],
         DOMAIN reps \subseteq DOMAIN r,
         \A x \in Deployment : IsFiniteSet(In(r, x))
                                 /\ Cardinality(In(r, x)) <= 1 + moves[x],
         CrossInv, links < MaxLinks,
         reps' = WithLink(r, g, d, c, w, f),
         totals' = Recalculated(reps', g),
         groupOf' = Mapped(m, g, d),
         moves' = [moves EXCEPT ![d] = @ + Moved(m, g, d)],
         links' = links + 1
  PROVE  CrossInv'
<1> USE DEF CrossInv
<1>1. /\ RepsOk(reps') /\ Agree(reps', groupOf')
      /\ DOMAIN reps' = DOMAIN r
      /\ \A x \in DOMAIN r : x # g => reps'[x] = r[x]
      /\ In(reps', d) = In(r, d) \cup {g}
      /\ \A x : x # d => In(reps', x) = In(r, x)
  BY LinkFacts
<1>2. DOMAIN r = DOMAIN reps \cup {g}
  OBVIOUS
<1>3. /\ DOMAIN totals' = DOMAIN reps'
      /\ totals'[g].liquidity = Liquidity(reps'[g], Counted(reps'[g]))
      /\ \A x \in DOMAIN reps : x # g => totals'[x] = totals[x]
  <2>1. PICK s : s = reps'
    OBVIOUS
  <2>2. totals' = Recalculated(s, g) /\ g \in DOMAIN s
    BY <1>1, <2>1
  <2>3. /\ DOMAIN totals' = DOMAIN totals \cup {g}
        /\ totals'[g].liquidity = Liquidity(s[g], Counted(s[g]))
        /\ \A x \in DOMAIN totals : x # g => totals'[x] = totals[x]
    <3>1. PICK figures : figures = Aggregated(s[g])
      OBVIOUS
    <3>2. figures.liquidity = Liquidity(s[g], Counted(s[g]))
      BY <3>1 DEF Aggregated
    <3>3. totals' = Put(totals, g, figures)
      BY <2>2, <3>1 DEF Recalculated
    <3> QED
      BY <3>2, <3>3 DEF Put
  <2>4. totals'[g].liquidity = Liquidity(reps'[g], Counted(reps'[g]))
    BY <2>1, <2>3
  <2> QED
    BY <1>1, <1>2, <2>3, <2>4
<1>4. CanonicalCounted'
  BY <1>1, <1>2, <1>3 DEF CanonicalCounted, HasCanonical
<1>5. MovesOk'
  <2>1. links' \in 0..MaxLinks /\ links \in Nat
    BY CrossChainAssumption DEF MovesOk
  <2>2. Moved(m, g, d) \in {0, 1}
    BY DEF Moved
  <2>3. /\ moves' \in [Deployment -> Nat]
        /\ moves'[d] = moves[d] + Moved(m, g, d)
        /\ \A x \in Deployment : x # d => moves'[x] = moves[x]
    BY <2>2 DEF MovesOk
  <2>4. ASSUME NEW x \in Deployment
        PROVE  /\ moves'[x] <= links' /\ IsFiniteSet(In(reps', x))
               /\ Cardinality(In(reps', x)) <= 1 + moves'[x]
    <3>1. moves[x] \in Nat /\ moves[x] <= links
      BY DEF MovesOk
    <3>2. CASE x # d
      <4>1. In(reps', x) = In(r, x) /\ moves'[x] = moves[x]
        BY <1>1, <2>3, <3>2
      <4>2. /\ IsFiniteSet(In(reps', x))
            /\ Cardinality(In(reps', x)) <= 1 + moves'[x]
        BY <4>1, Zenon
      <4>3. moves'[x] <= links'
        BY <2>1, <3>1, <4>1
      <4> QED
        BY <4>2, <4>3
    <3>3. CASE x = d
      <4>1. moves'[x] <= links'
        BY <2>1, <2>2, <2>3, <3>1, <3>3
      <4>2. In(reps', x) = In(r, x) \cup {g}
        BY <1>1, <3>3
      <4>3. PICK n : n = moves[x]
        OBVIOUS
      <4>4. PICK S : S = In(r, x)
        OBVIOUS
      <4>5. /\ n \in Nat /\ IsFiniteSet(S) /\ Cardinality(S) <= n + 1
            /\ Cardinality(S) \in Nat
        BY <3>1, <4>3, <4>4, FS_CardinalityType
      <4>6. CASE Moved(m, g, d) = 1
        <5>1. n + 1 \in Nat
          BY <4>5
        <5>2. /\ IsFiniteSet(S \cup {g})
              /\ Cardinality(S \cup {g}) <= (n + 1) + 1
          BY <4>5, <5>1, OneMoreGroup
        <5>3. moves'[x] = n + 1
          BY <2>3, <3>3, <4>3, <4>6
        <5>4. /\ IsFiniteSet(In(reps', x))
              /\ Cardinality(In(reps', x)) <= (n + 1) + 1
          BY <4>2, <4>4, <5>2, Zenon
        <5>5. (n + 1) + 1 = 1 + moves'[x]
          BY <4>5, <5>3
        <5> QED
          BY <4>1, <5>4, <5>5, Zenon
      <4>7. CASE Moved(m, g, d) = 0
        <5>1. S = {} \/ g \in S
          BY <3>3, <4>4, <4>7 DEF Moved, Agree
        <5>2. IsFiniteSet(S \cup {g}) /\ Cardinality(S \cup {g}) <= n + 1
          <6>1. CASE g \in S
            <7>1. S \cup {g} = S
              BY <6>1
            <7> QED
              BY <4>5, <7>1, Zenon
          <6>2. CASE S = {}
            <7>1. S \cup {g} = {g}
              BY <6>2
            <7>2. IsFiniteSet(S \cup {g}) /\ Cardinality(S \cup {g}) = 1
              BY <7>1, FS_Singleton, Zenon
            <7> QED
              BY <4>5, <7>2
          <6> QED
            BY <5>1, <6>1, <6>2
        <5>3. n + 1 = 1 + moves'[x]
          BY <2>3, <3>3, <4>3, <4>5, <4>7
        <5>4. IsFiniteSet(In(reps', x)) /\ Cardinality(In(reps', x)) <= n + 1
          BY <4>2, <4>4, <5>2, Zenon
        <5> QED
          BY <4>1, <5>3, <5>4, Zenon
      <4> QED
        BY <2>2, <4>6, <4>7
    <3> QED
      BY <3>2, <3>3
  <2> QED
    BY <2>1, <2>3, <2>4 DEF MovesOk
<1> QED
  BY <1>1, <1>3, <1>4, <1>5

LEMMA LinkTokenStep ==
  ASSUME CrossInv, NEW g \in Group, NEW d \in Deployment, NEW c \in BOOLEAN,
         NEW w \in BOOLEAN, NEW f \in Figures, LinkToken(g, d, c, w, f)
  PROVE  CrossInv'
<1>1. f \in Nat \X Nat
  BY CrossChainAssumption
<1>2. g \in DOMAIN reps /\ links < MaxLinks
  BY DEF LinkToken
<1>3. /\ RepsOk(reps) /\ Agree(reps, groupOf)
      /\ \A x \in Deployment :
           IsFiniteSet(In(reps, x)) /\ Cardinality(In(reps, x)) <= 1 + moves[x]
  BY DEF CrossInv, MovesOk
<1>4. /\ reps' = WithLink(reps, g, d, c, w, f)
      /\ totals' = Recalculated(reps', g)
      /\ groupOf' = Mapped(groupOf, g, d)
      /\ moves' = [moves EXCEPT ![d] = @ + Moved(groupOf, g, d)]
      /\ links' = links + 1
  BY DEF LinkToken, Recalculated
<1> QED
  BY <1>1, <1>2, <1>3, <1>4, LinkStep

LEMMA RecordBridgeStep ==
  ASSUME CrossInv, NEW source \in Deployment, NEW target \in Deployment,
         RecordBridge(source, target)
  PROVE  CrossInv'
<1> DEFINE known == source \in DOMAIN groupOf
           g0 == IF known THEN groupOf[source] ELSE "CROSS_ASSET"
           none == <<0, 0>>
           made == Created(reps, g0)
           r0 == IF known THEN reps
                 ELSE WithLink(made, g0, source, FALSE, FALSE, none)
           m0 == IF known THEN groupOf ELSE Mapped(groupOf, g0, source)
<1>1. /\ links < MaxLinks
      /\ reps' = WithLink(r0, g0, target, FALSE, TRUE, none)
      /\ totals' = Recalculated(reps', g0)
      /\ groupOf' = Mapped(m0, g0, target)
      /\ moves' = [moves EXCEPT ![target] = @ + Moved(m0, g0, target)]
      /\ links' = links + 1
  BY DEF RecordBridge
<1> HIDE DEF known, g0, none, made, r0, m0
<1>2. /\ RepsOk(reps) /\ Agree(reps, groupOf)
      /\ \A x \in Deployment :
           /\ moves[x] \in Nat /\ IsFiniteSet(In(reps, x))
           /\ Cardinality(In(reps, x)) <= 1 + moves[x]
  BY DEF CrossInv, MovesOk
<1>3. none \in Nat \X Nat
  BY DEF none
<1>4. CASE known
  <2>1. r0 = reps /\ m0 = groupOf /\ g0 \in DOMAIN reps
    BY <1>2, <1>4 DEF r0, m0, g0, known, Agree, In
  <2>2. PICK g : g = g0
    OBVIOUS
  <2> QED
    BY <1>1, <1>2, <1>3, <2>1, LinkStep
<1>5. CASE ~known
  <2>1. g0 \in Group
    BY <1>5 DEF g0, Group
  <2>2. /\ RepsOk(made) /\ DOMAIN made = DOMAIN reps \cup {g0}
        /\ \A x \in DOMAIN reps : made[x] = reps[x]
        /\ \A d : In(made, d) = In(reps, d)
    BY <1>2, <2>1, CreateFacts DEF made
  <2>3. Agree(made, groupOf)
    BY <1>2, <2>2 DEF Agree
  <2>4. /\ r0 = WithLink(made, g0, source, FALSE, FALSE, none)
        /\ m0 = Mapped(groupOf, g0, source)
    BY <1>5 DEF r0, m0
  <2>5. /\ RepsOk(r0) /\ DOMAIN r0 = DOMAIN made /\ g0 \in DOMAIN r0
        /\ \A x \in DOMAIN made : x # g0 => r0[x] = made[x]
        /\ In(r0, source) = In(made, source) \cup {g0}
        /\ \A x : x # source => In(r0, x) = In(made, x)
        /\ Agree(r0, m0)
    <3>1. PICK r, m, g, f : /\ r = made /\ m = groupOf /\ g = g0 /\ f = none
                            /\ r0 = WithLink(r, g, source, FALSE, FALSE, f)
                            /\ m0 = Mapped(m, g, source)
      BY <2>4
    <3>2. /\ RepsOk(r) /\ g \in DOMAIN r /\ f \in Nat \X Nat /\ Agree(r, m)
      BY <1>3, <2>2, <2>3, <3>1
    <3>3. /\ RepsOk(r0) /\ DOMAIN r0 = DOMAIN r
          /\ \A x \in DOMAIN r : x # g => r0[x] = r[x]
          /\ In(r0, source) = In(r, source) \cup {g}
          /\ \A x : x # source => In(r0, x) = In(r, x)
          /\ Agree(r0, m0)
      <4>1. PICK c \in BOOLEAN : c = FALSE
        OBVIOUS
      <4>2. r0 = WithLink(r, g, source, c, c, f)
        BY <3>1, <4>1
      <4>3. PICK s : s = WithLink(r, g, source, c, c, f)
        OBVIOUS
      <4>4. /\ RepsOk(s) /\ DOMAIN s = DOMAIN r
            /\ \A x \in DOMAIN r : x # g => s[x] = r[x]
            /\ In(s, source) = In(r, source) \cup {g}
            /\ \A x : x # source => In(s, x) = In(r, x)
            /\ Agree(s, Mapped(m, g, source))
        BY <3>2, <4>3, LinkFacts
      <4> QED
        BY <3>1, <4>2, <4>3, <4>4, Zenon
    <3> QED
      BY <3>1, <3>2, <3>3
  <2>6. ASSUME NEW x \in Deployment
        PROVE  IsFiniteSet(In(r0, x)) /\ Cardinality(In(r0, x)) <= 1 + moves[x]
    <3>1. CASE x # source
      <4>1. In(r0, x) = In(reps, x)
        BY <2>2, <2>5, <3>1
      <4> QED
        BY <1>2, <4>1, Zenon
    <3>2. CASE x = source
      <4>1. In(reps, x) = {}
        BY <1>2, <1>5, <3>2 DEF Agree, known
      <4>2. In(r0, x) = {g0}
        BY <2>2, <2>5, <3>2, <4>1
      <4>3. IsFiniteSet(In(r0, x)) /\ Cardinality(In(r0, x)) = 1
        BY <4>2, FS_Singleton, Zenon
      <4> QED
        BY <1>2, <4>3
    <3> QED
      BY <3>1, <3>2
  <2>7. /\ \A x \in DOMAIN r0 : x # g0 => x \in DOMAIN reps /\ r0[x] = reps[x]
        /\ DOMAIN reps \subseteq DOMAIN r0
    BY <2>2, <2>5
  <2> QED
    BY <1>1, <1>3, <2>5, <2>6, <2>7, LinkStep
<1> QED
  BY <1>4, <1>5

LEMMA CrossStep ==
  ASSUME CrossInv, CrossNext
  PROVE  CrossInv'
BY CreateGroupStep, LinkTokenStep, RecordBridgeStep DEF CrossNext

LEMMA CrossStutter ==
  ASSUME CrossInv, UNCHANGED crossVars
  PROVE  CrossInv'
BY DEF CrossInv, crossVars, CanonicalCounted, MovesOk

\* Every step of the engines is a step of CrossChain or leaves it alone.
LEMMA CrossInvariant ==
  /\ EnginesInit => CrossInv
  /\ CrossInv /\ [EnginesNext]_engineVars => CrossInv'
<1>1. EnginesInit => CrossInv
  BY CrossStart DEF EnginesInit
<1>2. CrossInv /\ [EnginesNext]_engineVars => CrossInv'
  BY CrossStep, CrossStutter DEF EnginesNext, engineVars, holderVars, crossVars
<1> QED
  BY <1>1, <1>2

\* A token's group represents it, and a token is represented in more than one
\* group only by as many as its entry of the map was moved (tracker.py 41-122
\* of src/crosschain): for any assets, deployments and figures.
THEOREM MappedTokensAreRepresented == EnginesSpec => []MappedIsRepresented
<1>1. CrossInv => MappedIsRepresented
  BY DEF CrossInv, Agree, MovesOk, In, MappedIsRepresented, GroupsWith
<1> QED
  BY <1>1, CrossInvariant, PTL DEF EnginesSpec

\* A group that has a canonical token keeps one.
CanonicalKept ==
  \A g \in DOMAIN reps :
    HasCanonical(reps, g) => g \in DOMAIN reps' /\ HasCanonical(reps', g)

LEMMA LinkKeepsCanonical ==
  ASSUME NEW r, RepsOk(r), NEW g \in DOMAIN r, NEW d \in Deployment,
         NEW c \in BOOLEAN, NEW w \in BOOLEAN, NEW f \in Nat \X Nat,
         NEW x \in DOMAIN r, HasCanonical(r, x)
  PROVE  /\ x \in DOMAIN WithLink(r, g, d, c, w, f)
         /\ HasCanonical(WithLink(r, g, d, c, w, f), x)
BY LinkFacts

LEMMA CrossKeepsCanonical ==
  ASSUME CrossInv, CrossNext
  PROVE  CanonicalKept
<1>1. RepsOk(reps)
  BY DEF CrossInv
<1> SUFFICES ASSUME NEW x \in DOMAIN reps, HasCanonical(reps, x)
             PROVE  x \in DOMAIN reps' /\ HasCanonical(reps', x)
  BY DEF CanonicalKept
<1>2. ASSUME NEW g \in Group
      PROVE  /\ RepsOk(Created(reps, g)) /\ g \in DOMAIN Created(reps, g)
             /\ x \in DOMAIN Created(reps, g)
             /\ HasCanonical(Created(reps, g), x)
  <2>1. PICK made : made = Created(reps, g)
    OBVIOUS
  <2>2. /\ RepsOk(made) /\ DOMAIN made = DOMAIN reps \cup {g}
        /\ made[x] = reps[x]
    BY <1>1, <2>1, CreateFacts
  <2>3. HasCanonical(made, x)
    BY <2>2 DEF HasCanonical
  <2> QED
    BY <2>1, <2>2, <2>3
<1>3. ASSUME NEW g \in Group, CreateGroup(g)
      PROVE  x \in DOMAIN reps' /\ HasCanonical(reps', x)
  BY <1>2, <1>3 DEF CreateGroup, Group
<1>4. ASSUME NEW g \in Group, NEW d \in Deployment, NEW c \in BOOLEAN,
             NEW w \in BOOLEAN, NEW f \in Figures, LinkToken(g, d, c, w, f)
      PROVE  x \in DOMAIN reps' /\ HasCanonical(reps', x)
  <2>1. reps' = WithLink(reps, g, d, c, w, f) /\ g \in DOMAIN reps
    BY <1>4 DEF LinkToken
  <2>2. f \in Nat \X Nat
    BY CrossChainAssumption
  <2> QED
    BY <1>1, <2>1, <2>2, LinkKeepsCanonical
<1>5. ASSUME NEW source \in Deployment, NEW target \in Deployment,
             RecordBridge(source, target)
      PROVE  x \in DOMAIN reps' /\ HasCanonical(reps', x)
  <2>1. PICK g, f, no, yes :
          /\ g = IF source \in DOMAIN groupOf THEN groupOf[source]
                 ELSE "CROSS_ASSET"
          /\ f = <<0, 0>> /\ no = FALSE /\ yes = TRUE
    OBVIOUS
  <2>2. PICK r : r = IF source \in DOMAIN groupOf THEN reps
                     ELSE WithLink(Created(reps, g), g, source, no, no, f)
    OBVIOUS
  <2>3. reps' = WithLink(r, g, target, no, yes, f)
    BY <1>5, <2>1, <2>2, Zenon DEF RecordBridge
  <2>4. f \in Nat \X Nat /\ no \in BOOLEAN /\ yes \in BOOLEAN
    BY <2>1
  <2>5. RepsOk(r) /\ g \in DOMAIN r /\ x \in DOMAIN r /\ HasCanonical(r, x)
    <3>1. CASE source \in DOMAIN groupOf
      <4>1. g \in DOMAIN reps
        BY <2>1, <3>1 DEF CrossInv, Agree, In
      <4> QED
        BY <1>1, <2>2, <3>1, <4>1, Zenon
    <3>2. CASE source \notin DOMAIN groupOf
      <4>1. g \in Group
        BY <2>1, <3>2 DEF Group
      <4>2. PICK made : made = Created(reps, g)
        OBVIOUS
      <4>3. /\ RepsOk(made) /\ g \in DOMAIN made /\ x \in DOMAIN made
            /\ HasCanonical(made, x)
        BY <1>2, <4>1, <4>2
      <4>4. r = WithLink(made, g, source, no, no, f)
        BY <2>2, <3>2, <4>2
      <4>5. RepsOk(r) /\ DOMAIN r = DOMAIN made
        BY <2>4, <4>3, <4>4, LinkFacts
      <4>6. x \in DOMAIN r /\ HasCanonical(r, x)
        BY <2>4, <4>3, <4>4, LinkKeepsCanonical
      <4> QED
        BY <4>3, <4>5, <4>6
    <3> QED
      BY <3>1, <3>2
  <2> QED
    BY <2>3, <2>4, <2>5, LinkKeepsCanonical
<1> QED
  BY <1>3, <1>4, <1>5 DEF CrossNext

\* What a step may do to the figures.
CountsPrimary ==
  \A g \in DOMAIN reps :
    (\E d \in DOMAIN reps[g] : reps[g][d].canonical)
      => LET primary == {d \in DOMAIN reps'[g] :
                           reps'[g][d].canonical \/ ~reps'[g][d].wrapped}
         IN  totals'[g].liquidity = Liquidity(reps'[g], primary)

LEMMA CrossCounts ==
  ASSUME CrossInv, CrossInv', CanonicalKept
  PROVE  CountsPrimary
<1> SUFFICES ASSUME NEW g \in DOMAIN reps, HasCanonical(reps, g)
             PROVE  totals'[g].liquidity =
                      Liquidity(reps'[g], {d \in DOMAIN reps'[g] :
                           reps'[g][d].canonical \/ ~reps'[g][d].wrapped})
  BY DEF CountsPrimary, HasCanonical
<1>1. g \in DOMAIN reps' /\ HasCanonical(reps', g)
  BY DEF CanonicalKept
<1>2. totals'[g].liquidity = Liquidity(reps'[g], Counted(reps'[g]))
  BY <1>1 DEF CrossInv, CanonicalCounted
<1>3. Counted(reps'[g]) = {d \in DOMAIN reps'[g] :
                             reps'[g][d].canonical \/ ~reps'[g][d].wrapped}
  BY <1>1 DEF Counted, HasCanonical
<1> QED
  BY <1>2, <1>3

\* As soon as a group has a canonical token, its figures leave wrapped ones
\* out, whatever calls follow (tracker.py 124-148 of src/crosschain).
THEOREM WrappedTokensAreNotCounted == EnginesSpec => WrappedNotCounted
<1>1. CrossInv /\ CrossInv' /\ [EnginesNext]_engineVars
        => [CountsPrimary]_crossVars
  BY CrossKeepsCanonical, CrossCounts
     DEF EnginesNext, engineVars, holderVars, crossVars
<1>2. [CountsPrimary]_crossVars
        <=> [\A g \in DOMAIN reps :
               (\E d \in DOMAIN reps[g] : reps[g][d].canonical)
                 => LET primary == {d \in DOMAIN reps'[g] :
                                      reps'[g][d].canonical
                                        \/ ~reps'[g][d].wrapped}
                    IN  totals'[g].liquidity
                          = Liquidity(reps'[g], primary)]_crossVars
  BY DEF CountsPrimary
<1> QED
  BY <1>1, <1>2, CrossInvariant, PTL DEF EnginesSpec, WrappedNotCounted

----------------------------------------------------------------------------
(* Market.                                                                 *)

Breakdown == [total : Nat, circulating : Nat, burned : Nat, locked : Nat]

SupplyInv ==
  /\ tokens \in Breakdown
  /\ overdrawn \in Nat
  /\ SupplyAccounted

LEMMA SupplyEventFacts ==
  ASSUME NEW s \in Breakdown, NEW kind, NEW n \in Nat, NEW o \in Nat,
         s.circulating + s.locked + s.burned <= s.total + o,
         NEW t, t = AfterSupplyEvent(s, kind, n),
         NEW x, x = Overdraft(s, kind, n)
  PROVE  /\ t \in Breakdown /\ x \in Nat
         /\ t.circulating + t.locked + t.burned <= t.total + (o + x)
<1> USE DEF Breakdown
<1>0. /\ s.total \in Nat /\ s.circulating \in Nat
      /\ s.burned \in Nat /\ s.locked \in Nat
  OBVIOUS
<1>1. CASE kind = "MINT"
  <2>1. /\ t = [s EXCEPT !.total = s.total + n,
                         !.circulating = s.circulating + n]
        /\ x = 0
    BY <1>1 DEF AfterSupplyEvent, Overdraft
  <2>2. /\ t.total = s.total + n /\ t.circulating = s.circulating + n
        /\ t.burned = s.burned /\ t.locked = s.locked
    BY <2>1
  <2>3. PICK a \in Nat, b \in Nat : a = s.total + n /\ b = s.circulating + n
    BY <1>0
  <2>4. t = [s EXCEPT !.total = a, !.circulating = b]
    BY <2>1, <2>3
  <2>5. t \in Breakdown
    BY <2>4
  <2>6. x \in Nat
    BY <1>0, <2>1
  <2> QED
    BY <1>0, <2>1, <2>2, <2>5, <2>6
<1>2. CASE kind = "BURN"
  <2>1. /\ t = [s EXCEPT !.burned = s.burned + n,
                         !.circulating = Less(s.circulating, n)]
        /\ x = Less(n, s.circulating)
    BY <1>2 DEF AfterSupplyEvent, Overdraft
  <2>2. /\ t.total = s.total /\ t.circulating = Less(s.circulating, n)
        /\ t.burned = s.burned + n /\ t.locked = s.locked
    BY <2>1
  <2>3. PICK a \in Nat, b \in Nat :
          a = s.burned + n /\ b = Less(s.circulating, n)
    BY <1>0 DEF Less
  <2>4. t = [s EXCEPT !.burned = a, !.circulating = b]
    BY <2>1, <2>3
  <2>5. t \in Breakdown
    BY <2>4
  <2>6. x \in Nat
    BY <1>0, <2>1 DEF Less
  <2> QED
    BY <1>0, <2>1, <2>2, <2>5, <2>6 DEF Less
<1>3. CASE kind \in {"UNLOCK", "TREASURY_RELEASE"}
  <2>1. /\ t = [s EXCEPT !.locked = Less(s.locked, n),
                         !.circulating = s.circulating + n]
        /\ x = Less(n, s.locked)
    BY <1>3 DEF AfterSupplyEvent, Overdraft
  <2>2. /\ t.total = s.total /\ t.circulating = s.circulating + n
        /\ t.burned = s.burned /\ t.locked = Less(s.locked, n)
    BY <2>1
  <2>3. PICK a \in Nat, b \in Nat :
          a = Less(s.locked, n) /\ b = s.circulating + n
    BY <1>0 DEF Less
  <2>4. t = [s EXCEPT !.locked = a, !.circulating = b]
    BY <2>1, <2>3
  <2>5. t \in Breakdown
    BY <2>4
  <2>6. x \in Nat
    BY <1>0, <2>1 DEF Less
  <2> QED
    BY <1>0, <2>1, <2>2, <2>5, <2>6 DEF Less
<1>4. CASE kind \notin {"MINT", "BURN", "UNLOCK", "TREASURY_RELEASE"}
  <2>1. t = s /\ x = 0
    BY <1>4 DEF AfterSupplyEvent, Overdraft
  <2> QED
    BY <2>1
<1> QED
  BY <1>1, <1>2, <1>3, <1>4

LEMMA MarketSupplyStep ==
  ASSUME SupplyInv, MarketNext
  PROVE  SupplyInv'
<1>1. ASSUME NEW e \in MarketEvents, MarketEvent(e) PROVE SupplyInv'
  <2> DEFINE s == SupplyPart(e)
  <2>0. s = None \/ s = e.supply
    BY DEF SupplyPart
  <2>1. CASE s = None
    <3>1. UNCHANGED <<tokens, overdrawn>>
      BY <1>1, <2>1 DEF MarketEvent
    <3> QED
      BY <3>1 DEF SupplyInv, SupplyAccounted
  <2>2. CASE s # None
    <3>1. /\ tokens' = AfterSupplyEvent(tokens, s.kind, s.amount)
          /\ overdrawn' = overdrawn + Overdraft(tokens, s.kind, s.amount)
      BY <1>1, <2>2 DEF MarketEvent
    <3>2. s.amount \in Nat
      BY <2>0, <2>2, MarketAssumption DEF None
    <3> HIDE DEF s
    <3>3. PICK x : x = Overdraft(tokens, s.kind, s.amount)
      OBVIOUS
    <3>4. /\ tokens' \in Breakdown /\ x \in Nat
          /\ tokens'.circulating + tokens'.locked + tokens'.burned
               <= tokens'.total + (overdrawn + x)
      BY <3>1, <3>2, <3>3, SupplyEventFacts DEF SupplyInv, SupplyAccounted
    <3> QED
      BY <3>1, <3>3, <3>4 DEF SupplyInv, SupplyAccounted
  <2> QED
    BY <2>1, <2>2
<1>2. CASE FullIntelligence
  BY <1>2 DEF FullIntelligence, SupplyInv, SupplyAccounted
<1>3. ASSUME NEW s \in Breakdowns, SetSupplyBreakdown(s) PROVE SupplyInv'
  BY <1>3, MarketAssumption
     DEF SetSupplyBreakdown, SupplyInv, SupplyAccounted, Breakdown
<1> QED
  BY <1>1, <1>2, <1>3 DEF MarketNext

\* Circulating, locked and burned tokens stay within the total, but for what
\* was overdrawn (valuation_engine.py 23-57), for any events and breakdowns.
THEOREM SupplyStaysAccounted == EnginesSpec => []SupplyAccounted
<1>1. EnginesInit => SupplyInv
  BY DEF EnginesInit, MarketInit, DefaultBreakdown, SupplyInv,
         SupplyAccounted, Breakdown
<1>2. SupplyInv /\ [EnginesNext]_engineVars => SupplyInv'
  BY MarketSupplyStep
     DEF EnginesNext, engineVars, marketVars, SupplyInv, SupplyAccounted
<1>3. SupplyInv => SupplyAccounted
  BY DEF SupplyInv
<1> QED
  BY <1>1, <1>2, <1>3, PTL DEF EnginesSpec

----------------------------------------------------------------------------
(* Holders.                                                                *)

WalletField == {"balance", "first", "last", "zero", "technical"}

\* The wallets of b, when those of H held the token at some time.
WalletsOk(b, H) ==
  /\ \A a \in DOMAIN b :
       /\ DOMAIN b[a] = WalletField /\ b[a].balance \in Nat
       /\ b[a].zero # Held => b[a].balance = 0
       /\ b[a].balance = 0 /\ a \in H => b[a].zero # Held
  /\ \A a \in H : a = Zero \/ a \in DOMAIN b
  /\ Zero \notin DOMAIN b

Ever == {a \in Address \cup {Zero} : EverHeld(a)}

Entry == [kind : {"TRANSFER", "MINT", "BURN"}, from : Address \cup {Zero},
          to : Address \cup {Zero}, amount : Nat, at : Nat]

WalletsInv ==
  /\ DOMAIN book \subseteq Address
  /\ log \in Seq(Entry)
  /\ WalletsOk(book, Ever)

LEMMA AddFacts ==
  ASSUME NEW b, NEW H, WalletsOk(b, H), NEW a, NEW n \in Nat, NEW t
  PROVE  /\ WalletsOk(Add(b, a, n, t), IF n > 0 THEN H \cup {a} ELSE H)
         /\ DOMAIN Add(b, a, n, t) \subseteq DOMAIN b \cup {a}
         /\ a = Zero => Add(b, a, n, t) = b
<1>1. CASE a = Zero
  BY <1>1 DEF Add, WalletsOk
<1>2. CASE a # Zero
  <2> DEFINE old == IF a \in DOMAIN b THEN b[a]
                    ELSE [balance |-> 0, first |-> t, last |-> t,
                          zero |-> Held, technical |-> FALSE]
  <2>1. PICK w : w = [old EXCEPT !.balance = old.balance + n, !.last = t,
                        !.zero = IF old.balance + n > 0 THEN Held ELSE old.zero]
    OBVIOUS
  <2>2. /\ DOMAIN old = WalletField /\ old.balance \in Nat
        /\ old.zero # Held => old.balance = 0
        /\ old.balance = 0 /\ a \in H => old.zero # Held
    BY <1>2 DEF WalletsOk, WalletField
  <2>3. Add(b, a, n, t) = Put(b, a, w)
    BY <1>2, <2>1 DEF Add
  <2> HIDE DEF old
  <2>4. /\ DOMAIN w = WalletField /\ w.balance = old.balance + n
        /\ w.zero = IF old.balance + n > 0 THEN Held ELSE old.zero
    BY <2>1, <2>2 DEF WalletField
  <2>5. /\ w.balance \in Nat
        /\ w.zero # Held => w.balance = 0
        /\ w.balance = 0 /\ a \in H => w.zero # Held
        /\ n > 0 => w.balance > 0
    BY <2>2, <2>4
  <2>6. /\ DOMAIN Add(b, a, n, t) = DOMAIN b \cup {a}
        /\ Add(b, a, n, t)[a] = w
        /\ \A x \in DOMAIN b : x # a => Add(b, a, n, t)[x] = b[x]
    BY <2>3 DEF Put
  <2>7. WalletsOk(Add(b, a, n, t), IF n > 0 THEN H \cup {a} ELSE H)
    BY <1>2, <2>4, <2>5, <2>6 DEF WalletsOk
  <2> QED
    BY <1>2, <2>6, <2>7
<1> QED
  BY <1>1, <1>2

LEMMA DeductFacts ==
  ASSUME NEW b, NEW H, WalletsOk(b, H), NEW a, NEW n \in Nat, NEW t \in Nat
  PROVE  /\ WalletsOk(Deduct(b, a, n, t), H)
         /\ DOMAIN Deduct(b, a, n, t) = DOMAIN b
<1>1. CASE a \notin DOMAIN b
  BY <1>1 DEF Deduct
<1>2. CASE a \in DOMAIN b
  <2>1. PICK left : left = b[a].balance - Deductible(b, a, n)
    OBVIOUS
  <2>2. /\ DOMAIN b[a] = WalletField /\ b[a].balance \in Nat
        /\ b[a].zero # Held => b[a].balance = 0
    BY <1>2 DEF WalletsOk
  <2>3. left \in Nat /\ (b[a].balance = 0 => left = 0)
    BY <1>2, <2>1, <2>2 DEF Deductible
  <2>4. PICK w : w = [b[a] EXCEPT !.balance = left, !.last = t,
                        !.zero = IF left = 0 /\ b[a].zero = Held THEN t
                                 ELSE b[a].zero]
    OBVIOUS
  <2>5. Deduct(b, a, n, t) = [b EXCEPT ![a] = w]
    BY <1>2, <2>1, <2>2, <2>4 DEF Deduct, WalletField
  <2>6. /\ DOMAIN w = WalletField /\ w.balance = left
        /\ w.zero = IF left = 0 /\ b[a].zero = Held THEN t ELSE b[a].zero
    BY <2>2, <2>4 DEF WalletField
  <2>7. /\ w.zero # Held => w.balance = 0
        /\ w.balance = 0 => w.zero # Held
    BY <2>2, <2>3, <2>6 DEF Held
  <2> QED
    BY <1>2, <2>3, <2>5, <2>6, <2>7 DEF WalletsOk
<1> QED
  BY <1>1, <1>2

\* A change of what is technical leaves the rest of a wallet alone.
LEMMA TechnicalFacts ==
  ASSUME NEW b, NEW c, NEW H, WalletsOk(b, H), DOMAIN c = DOMAIN b,
         \A a \in DOMAIN b : c[a] = b[a]
                             \/ \E v : c[a] = [b[a] EXCEPT !.technical = v]
  PROVE  WalletsOk(c, H)
<1> SUFFICES ASSUME NEW a \in DOMAIN b
             PROVE  /\ DOMAIN c[a] = DOMAIN b[a]
                    /\ c[a].balance = b[a].balance /\ c[a].zero = b[a].zero
  BY DEF WalletsOk
<1>1. DOMAIN b[a] = WalletField
  BY DEF WalletsOk
<1> QED
  BY <1>1 DEF WalletField

\* An event adds its receiver to those who ever held the token, unless it
\* burns or moves nothing.
LEMMA EverAppended ==
  ASSUME log \in Seq(Entry), NEW e \in Entry, log' = Append(log, e)
  PROVE  Ever' = IF e.amount > 0 /\ ~IsBurn(e) THEN Ever \cup {e.to} ELSE Ever
<1>1. /\ Len(log') = Len(log) + 1 /\ Len(log) \in Nat
      /\ log'[Len(log) + 1] = e
      /\ \A i \in 1..Len(log) : log'[i] = log[i]
  OBVIOUS
<1>2. \A i : i \in 1..(Len(log) + 1) <=> i \in 1..Len(log) \/ i = Len(log) + 1
  BY <1>1
<1>3. \A a : EverHeld(a)' <=>
               EverHeld(a) \/ (e.to = a /\ e.amount > 0 /\ ~IsBurn(e))
  BY <1>1, <1>2 DEF EverHeld
<1>4. e.to \in Address \cup {Zero}
  BY DEF Entry
<1> QED
  BY <1>3, <1>4 DEF Ever

LEMMA TransferStep ==
  ASSUME WalletsInv, NEW t \in Transfers, NEW at \in 0..MaxTime,
         ProcessTransfer(t, at)
  PROVE  WalletsInv'
<1> DEFINE e == [kind |-> t.kind, from |-> t.from, to |-> t.to,
                 amount |-> t.amount, at |-> at]
<1>1. log' = Append(log, e) /\ book' = Booked(book, e)
  BY DEF ProcessTransfer
<1>2. e \in Entry
  BY HoldersAssumption DEF WalletsInv, Entry
<1> HIDE DEF e
<1>3. /\ e.amount \in Nat /\ e.at \in Nat /\ e.to \in Address \cup {Zero}
  BY <1>2 DEF Entry
<1>4. Ever' = IF e.amount > 0 /\ ~IsBurn(e) THEN Ever \cup {e.to} ELSE Ever
  BY <1>1, <1>2, EverAppended DEF WalletsInv
<1>5. WalletsOk(book, Ever) /\ DOMAIN book \subseteq Address
  BY DEF WalletsInv
<1>6. WalletsOk(book', Ever') /\ DOMAIN book' \subseteq Address
  <2>1. PICK b, H, f, a, n, s : /\ b = book /\ H = Ever /\ f = e.from
                                /\ a = e.to /\ n = e.amount /\ s = e.at
    OBVIOUS
  <2>2. /\ WalletsOk(b, H) /\ DOMAIN b \subseteq Address
        /\ n \in Nat /\ s \in Nat /\ a \in Address \cup {Zero}
    BY <1>3, <1>5, <2>1
  <2>3. Ever' = IF n > 0 /\ ~IsBurn(e) THEN H \cup {a} ELSE H
    BY <1>4, <2>1
  \* Whoever receives is added to books that are in order.
  <2>4. ASSUME NEW c, WalletsOk(c, H), DOMAIN c \subseteq Address,
               book' = Add(c, a, n, s), ~IsBurn(e)
        PROVE  WalletsOk(book', Ever') /\ DOMAIN book' \subseteq Address
    <3>1. PICK d, G : d = Add(c, a, n, s) /\ G = IF n > 0 THEN H \cup {a} ELSE H
      OBVIOUS
    <3>2. /\ WalletsOk(Add(c, a, n, s), IF n > 0 THEN H \cup {a} ELSE H)
          /\ DOMAIN Add(c, a, n, s) \subseteq DOMAIN c \cup {a}
          /\ a = Zero => Add(c, a, n, s) = c
      BY <2>2, <2>4, AddFacts
    <3>3. /\ WalletsOk(d, G)
          /\ DOMAIN d \subseteq DOMAIN c \cup {a} /\ (a = Zero => d = c)
      BY <3>1, <3>2, Zenon
    <3>4. book' = d /\ Ever' = G
      BY <2>3, <2>4, <3>1
    <3>5. DOMAIN d \subseteq Address
      BY <2>2, <2>4, <3>3
    <3> QED
      BY <3>3, <3>4, <3>5, Zenon
  <2>5. CASE IsMint(e)
    <3>1. book' = Add(b, a, n, s) /\ ~IsBurn(e)
      BY <1>1, <2>1, <2>5 DEF Booked, IsBurn
    <3> QED
      BY <2>2, <2>4, <3>1
  <2>6. PICK c : c = Deduct(b, f, n, s)
    OBVIOUS
  <2>7. WalletsOk(c, H) /\ DOMAIN c \subseteq Address
    BY <2>2, <2>6, DeductFacts
  <2>8. CASE IsBurn(e)
    <3>1. book' = c /\ Ever' = H
      BY <1>1, <2>1, <2>3, <2>6, <2>8 DEF Booked, IsBurn
    <3> QED
      BY <2>7, <3>1, Zenon
  <2>9. CASE ~IsMint(e) /\ ~IsBurn(e)
    <3>1. book' = Add(c, a, n, s)
      BY <1>1, <2>1, <2>6, <2>9 DEF Booked
    <3> QED
      BY <2>4, <2>7, <2>9, <3>1
  <2> QED
    BY <2>5, <2>8, <2>9
<1>7. log' \in Seq(Entry)
  BY <1>1, <1>2 DEF WalletsInv
<1> QED
  BY <1>1, <1>6, <1>7 DEF WalletsInv

LEMMA HoldersStep ==
  ASSUME WalletsInv, HoldersNext
  PROVE  WalletsInv'
<1>1. ASSUME DOMAIN book' = DOMAIN book, UNCHANGED log,
             \A a \in DOMAIN book :
               book'[a] = book[a]
               \/ \E v : book'[a] = [book[a] EXCEPT !.technical = v]
      PROVE  WalletsInv'
  <2>1. Ever' = Ever
    BY <1>1 DEF Ever, EverHeld
  <2>2. PICK b, c, H : b = book /\ c = book' /\ H = Ever
    OBVIOUS
  <2>3. WalletsOk(c, H)
    BY <1>1, <2>2, TechnicalFacts DEF WalletsInv
  <2> QED
    BY <1>1, <2>1, <2>2, <2>3 DEF WalletsInv
<1>2. ASSUME NEW t \in Transfers, NEW at \in 0..MaxTime,
             ProcessTransfer(t, at)
      PROVE  WalletsInv'
  BY <1>2, TransferStep
<1>3. ASSUME NEW a \in Markable, MarkTechnical(a) PROVE WalletsInv'
  BY <1>1, <1>3 DEF MarkTechnical
<1>4. ASSUME NEW now \in 0..MaxTime, Evaluate(now) PROVE WalletsInv'
  BY <1>1, <1>4 DEF Evaluate, Classified
<1> QED
  BY <1>2, <1>3, <1>4 DEF HoldersNext

LEMMA WalletsInit == EnginesInit => WalletsInv
<1> SUFFICES ASSUME EnginesInit PROVE WalletsInv
  OBVIOUS
<1>1. book = <<>> /\ log = <<>>
  BY DEF EnginesInit, HoldersInit
<1>2. DOMAIN book = {} /\ Len(log) = 0 /\ log \in Seq(Entry)
  BY <1>1
<1>3. Ever = {}
  BY <1>2 DEF Ever, EverHeld
<1> QED
  BY <1>1, <1>2, <1>3 DEF WalletsInv, WalletsOk

LEMMA WalletsStep == WalletsInv /\ [EnginesNext]_engineVars => WalletsInv'
<1> SUFFICES ASSUME WalletsInv, [EnginesNext]_engineVars PROVE WalletsInv'
  OBVIOUS
<1>1. CASE HoldersNext
  BY <1>1, HoldersStep
<1>2. CASE UNCHANGED holderVars
  BY <1>2 DEF holderVars, WalletsInv, Ever, EverHeld
<1> QED
  BY <1>1, <1>2 DEF EnginesNext, engineVars

\* A wallet with an exit is empty, and an empty wallet that ever held the
\* token has one, through exits and re-entries in any order (tracker.py
\* 85-150 of src/intelligence/holder).
THEOREM ExitsAreOfEmptyWallets == EnginesSpec => []ExitsAreEmptyWallets
<1>1. WalletsInv => ExitsAreEmptyWallets
  BY DEF WalletsInv, WalletsOk, Ever, ExitsAreEmptyWallets
<1> QED
  BY <1>1, WalletsInit, WalletsStep, PTL DEF EnginesSpec
----------------------------------------------------------------------------
(* Holders: what the books add up to.                                      *)

WalletType ==
  [balance : Nat, first : 0..MaxTime, last : 0..MaxTime,
   zero : {Held} \cup (0..MaxTime), technical : BOOLEAN]

BookOk(b) == IsFiniteSet(DOMAIN b) /\ \A a \in DOMAIN b : b[a] \in WalletType

Balances(b) == [a \in DOMAIN b |-> b[a].balance]

\* What all wallets of b hold.
HeldBy(b) == Sum(Balances(b), DOMAIN b)

LEMMA AmountIsSum ==
  ASSUME NEW b, NEW S, IsFiniteSet(S)
  PROVE  Amount(b, S) = Sum([a \in S |-> b[a].balance], S)
<1> DEFINE v == [a \in S |-> b[a].balance]
           g == CHOOSE g : g = [s \in SUBSET S |->
                  IF s = {} THEN 0
                  ELSE b[CHOOSE x \in s : TRUE].balance
                       + g[s \ {CHOOSE x \in s : TRUE}]]
<1>1. Amount(b, S) = g[S]
  BY DEF Amount, MapThenSumSet, MapThenFoldSet
<1>2. \E h : h = [s \in SUBSET S |->
                  IF s = {} THEN 0
                  ELSE b[CHOOSE x \in s : TRUE].balance
                       + h[s \ {CHOOSE x \in s : TRUE}]]
  <2>1. PICK h : IsSum(h, v, S)
    BY SumExists
  <2>2. \A s \in SUBSET S : s # {} => v[Picked(s)] = b[Picked(s)].balance
    BY PickedIn
  <2>3. h = [s \in SUBSET S |->
               IF s = {} THEN 0
               ELSE b[Picked(s)].balance + h[s \ {Picked(s)}]]
    BY <2>1, <2>2 DEF IsSum, Unfolded
  <2> QED
    BY <2>3, Zenon DEF Picked
<1>3. g = [s \in SUBSET S |->
             IF s = {} THEN 0
             ELSE b[CHOOSE x \in s : TRUE].balance
                  + g[s \ {CHOOSE x \in s : TRUE}]]
  BY <1>2
<1> HIDE DEF g
<1>4. g = [s \in SUBSET S |->
             IF s = {} THEN 0
             ELSE b[Picked(s)].balance + g[s \ {Picked(s)}]]
  BY <1>3, Zenon DEF Picked
<1>5. \A s \in SUBSET S : s # {} => v[Picked(s)] = b[Picked(s)].balance
  BY PickedIn
<1>6. IsSum(g, v, S)
  BY <1>4, <1>5 DEF IsSum, Unfolded
<1> HIDE DEF v
<1>7. g[S] = Sum(v, S)
  BY <1>6, SumOf
<1> QED
  BY <1>1, <1>7 DEF v

LEMMA AmountIsHeld ==
  ASSUME NEW b, IsFiniteSet(DOMAIN b)
  PROVE  Amount(b, DOMAIN b) = HeldBy(b)
  BY AmountIsSum DEF HeldBy, Balances

LEMMA HeldNat ==
  ASSUME NEW b, BookOk(b)
  PROVE  HeldBy(b) \in Nat
<1>1. \A a \in DOMAIN b : Balances(b)[a] \in Nat
  BY DEF Balances, BookOk, WalletType
<1> QED
  BY <1>1, SumNat DEF HeldBy, BookOk

\* A wallet is put into the books in place of what there was of it.
LEMMA PutHeld ==
  ASSUME NEW b, BookOk(b), NEW a, NEW w \in WalletType
  PROVE  /\ BookOk(Put(b, a, w))
         /\ HeldBy(Put(b, a, w))
              = HeldBy(b) + w.balance
                - (IF a \in DOMAIN b THEN b[a].balance ELSE 0)
<1> DEFINE c == Put(b, a, w)
           D == DOMAIN b
<1>1. /\ DOMAIN c = D \cup {a} /\ c[a] = w
      /\ \A x \in D : x # a => c[x] = b[x]
  BY DEF Put
<1> HIDE DEF c
<1>2. IsFiniteSet(D \cup {a}) /\ IsFiniteSet(D)
  BY FS_AddElement DEF BookOk
<1>3. BookOk(c)
  BY <1>1, <1>2 DEF BookOk
<1>4. /\ \A x \in D \cup {a} : Balances(c)[x] = c[x].balance
      /\ \A x \in D : Balances(b)[x] = b[x].balance
  BY <1>1 DEF Balances
<1>5. /\ \A x \in D : Balances(b)[x] \in Nat
      /\ w.balance \in Nat /\ Balances(c)[a] = w.balance
      /\ \A x \in D : x # a => Balances(c)[x] = Balances(b)[x]
  BY <1>1, <1>4 DEF BookOk, WalletType
<1>6. /\ HeldBy(b) = Sum(Balances(b), D)
      /\ HeldBy(c) = Sum(Balances(c), D \cup {a})
  BY <1>1 DEF HeldBy
<1>7. CASE a \in D
  <2>1. D \cup {a} = D
    BY <1>7
  <2>2. Sum(Balances(c), D)
          = Sum(Balances(b), D) - Balances(b)[a] + Balances(c)[a]
    BY <1>2, <1>5, <1>7, SumChange
  <2>3. Sum(Balances(b), D) \in Nat
    BY <1>2, <1>5, SumNat
  <2>4. b[a].balance \in Nat /\ Balances(b)[a] = b[a].balance
    BY <1>4, <1>5, <1>7
  <2>5. HeldBy(c) = HeldBy(b) - b[a].balance + w.balance
    BY <1>5, <1>6, <2>1, <2>2, <2>4
  <2>6. HeldBy(b) \in Nat
    BY <1>6, <2>3
  <2>7. HeldBy(c) = HeldBy(b) + w.balance - b[a].balance
    BY <1>5, <2>4, <2>5, <2>6
  <2> QED
    BY <1>3, <1>7, <2>7 DEF c
<1>8. CASE a \notin D
  <2>1. Sum(Balances(c), D) = Sum(Balances(b), D) /\ Sum(Balances(b), D) \in Nat
    BY <1>2, <1>5, <1>8, SumEqual, SumNat
  <2>2. \A x \in D : Balances(c)[x] \in Nat
    BY <1>5, <1>8
  <2>3. Sum(Balances(c), D \cup {a}) = Balances(c)[a] + Sum(Balances(c), D)
    BY <1>2, <1>5, <1>8, <2>2, SumAdd
  <2>4. HeldBy(c) = HeldBy(b) + w.balance
    BY <1>5, <1>6, <2>1, <2>3
  <2>5. HeldBy(b) + w.balance = HeldBy(b) + w.balance - 0
    BY <1>5, <1>6, <2>1
  <2> QED
    BY <1>3, <1>8, <2>4, <2>5 DEF c
<1> QED
  BY <1>7, <1>8

LEMMA AddHeld ==
  ASSUME NEW b, BookOk(b), NEW a, NEW n \in Nat, NEW t \in 0..MaxTime
  PROVE  /\ BookOk(Add(b, a, n, t))
         /\ HeldBy(Add(b, a, n, t)) = HeldBy(b) + (IF a = Zero THEN 0 ELSE n)
<1>0. HeldBy(b) \in Nat
  BY HeldNat
<1>1. CASE a = Zero
  BY <1>0, <1>1 DEF Add
<1>2. CASE a # Zero
  <2> DEFINE old == IF a \in DOMAIN b THEN b[a]
                    ELSE [balance |-> 0, first |-> t, last |-> t,
                          zero |-> Held, technical |-> FALSE]
             k == IF a \in DOMAIN b THEN b[a].balance ELSE 0
  <2>1. PICK w : w = [old EXCEPT !.balance = old.balance + n, !.last = t,
                        !.zero = IF old.balance + n > 0 THEN Held ELSE old.zero]
    OBVIOUS
  <2>2. old \in WalletType /\ old.balance = k
    BY DEF BookOk, WalletType
  <2>3. Add(b, a, n, t) = Put(b, a, w)
    BY <1>2, <2>1 DEF Add
  <2> HIDE DEF old, k
  <2>4. w \in WalletType /\ w.balance = k + n /\ k \in Nat
    <3>1. old.balance \in Nat /\ k \in Nat
      BY <2>2 DEF WalletType
    <3>2. old.balance + n \in Nat
      BY <3>1
    <3>3. w \in WalletType /\ w.balance = old.balance + n
      BY <2>1, <2>2, <3>2 DEF WalletType
    <3> QED
      BY <2>2, <3>1, <3>3
  <2>5. /\ BookOk(Put(b, a, w))
        /\ HeldBy(Put(b, a, w)) = HeldBy(b) + w.balance - k
    BY <2>4, PutHeld DEF k
  <2>6. HeldBy(b) + w.balance - k = HeldBy(b) + n
    BY <1>0, <2>4
  <2> QED
    BY <1>2, <2>3, <2>5, <2>6
<1> QED
  BY <1>1, <1>2

LEMMA DeductHeld ==
  ASSUME NEW b, BookOk(b), NEW a, NEW n \in Nat, NEW t \in 0..MaxTime
  PROVE  /\ BookOk(Deduct(b, a, n, t))
         /\ HeldBy(Deduct(b, a, n, t)) = HeldBy(b) - Deductible(b, a, n)
         /\ Deductible(b, a, n) \in 0..n
<1>0. HeldBy(b) \in Nat
  BY HeldNat
<1>1. CASE a \notin DOMAIN b
  BY <1>0, <1>1 DEF Deduct, Deductible
<1>2. CASE a \in DOMAIN b
  <2>1. PICK k : k = Deductible(b, a, n)
    OBVIOUS
  <2>2. b[a] \in WalletType /\ b[a].balance \in Nat
    BY <1>2 DEF BookOk, WalletType
  <2>3. k \in 0..n /\ b[a].balance - k \in Nat
    BY <1>2, <2>1, <2>2 DEF Deductible
  <2>4. PICK w : w = [b[a] EXCEPT !.balance = b[a].balance - k, !.last = t,
                        !.zero = IF b[a].balance - k = 0 /\ b[a].zero = Held
                                 THEN t ELSE b[a].zero]
    OBVIOUS
  <2>5. w \in WalletType /\ w.balance = b[a].balance - k
    BY <2>2, <2>3, <2>4 DEF WalletType
  <2>6. Deduct(b, a, n, t) = Put(b, a, w)
    <3>1. Deduct(b, a, n, t) = [b EXCEPT ![a] = w]
      BY <1>2, <2>1, <2>2, <2>4 DEF Deduct, WalletType
    <3>2. DOMAIN b \cup {a} = DOMAIN b
      BY <1>2
    <3> QED
      BY <1>2, <3>1, <3>2 DEF Put
  <2>7. /\ BookOk(Put(b, a, w))
        /\ HeldBy(Put(b, a, w)) = HeldBy(b) + w.balance - b[a].balance
    BY <1>2, <2>5, PutHeld
  <2>8. HeldBy(b) + w.balance - b[a].balance = HeldBy(b) - k
    BY <1>0, <2>2, <2>3, <2>5
  <2> QED
    BY <2>1, <2>3, <2>6, <2>7, <2>8
<1> QED
  BY <1>1, <1>2

\* An event keeps the books covered: what a sender is charged beyond what the
\* tracker saw it receive counts as uncovered.
LEMMA EventHeld ==
  ASSUME NEW b, BookOk(b), NEW e \in Entry, e.at \in 0..MaxTime
  PROVE  /\ BookOk(Booked(b, e))
         /\ IsMint(e) => HeldBy(Booked(b, e)) <= HeldBy(b) + e.amount
         /\ IsBurn(e) => HeldBy(Booked(b, e))
                           = HeldBy(b) - Deductible(b, e.from, e.amount)
         /\ ~IsMint(e) /\ ~IsBurn(e)
              => HeldBy(Booked(b, e))
                   = HeldBy(b) - Deductible(b, e.from, e.amount) + e.amount
         /\ Deductible(b, e.from, e.amount) \in 0..e.amount
<1> DEFINE n == e.amount
           d == Deductible(b, e.from, e.amount)
           c == Deduct(b, e.from, e.amount, e.at)
<1>0. n \in Nat /\ HeldBy(b) \in Nat
  BY HeldNat DEF Entry
<1>1. BookOk(c) /\ HeldBy(c) = HeldBy(b) - d /\ d \in 0..n
  BY <1>0, DeductHeld
<1>2. HeldBy(c) \in Nat
  BY <1>1, HeldNat
<1> HIDE DEF c, d
<1>3. CASE IsMint(e)
  <2>1. Booked(b, e) = Add(b, e.to, e.amount, e.at)
    BY <1>3 DEF Booked, IsBurn
  <2>2. /\ BookOk(Add(b, e.to, e.amount, e.at))
        /\ HeldBy(Add(b, e.to, e.amount, e.at))
             = HeldBy(b) + (IF e.to = Zero THEN 0 ELSE e.amount)
    BY <1>0, AddHeld
  <2>3. HeldBy(Booked(b, e)) <= HeldBy(b) + e.amount
    BY <1>0, <2>1, <2>2
  <2> QED
    BY <1>1, <1>3, <2>1, <2>2, <2>3 DEF IsBurn, d
<1>4. CASE IsBurn(e)
  <2>1. Booked(b, e) = c /\ ~IsMint(e)
    BY <1>4 DEF Booked, IsBurn, c
  <2> QED
    BY <1>1, <1>4, <2>1 DEF d
<1>5. CASE ~IsMint(e) /\ ~IsBurn(e)
  <2>1. Booked(b, e) = Add(c, e.to, e.amount, e.at) /\ e.to # Zero
    BY <1>5 DEF Booked, IsBurn, c
  <2>2. /\ BookOk(Add(c, e.to, e.amount, e.at))
        /\ HeldBy(Add(c, e.to, e.amount, e.at))
             = HeldBy(c) + (IF e.to = Zero THEN 0 ELSE e.amount)
    BY <1>0, <1>1, AddHeld
  <2>3. HeldBy(Booked(b, e)) = HeldBy(b) - d + e.amount
    BY <1>1, <2>1, <2>2
  <2> QED
    BY <1>1, <1>5, <2>1, <2>2, <2>3 DEF d
<1> QED
  BY <1>3, <1>4, <1>5

Covered == HeldBy(book) <= supply - InitialSupply + uncovered

\* What an evaluation saw with tokens says technical if the categorizer does;
\* what says technical was marked, or seen by an evaluation that said so.
FlagsOk ==
  /\ seen \subseteq DOMAIN book
  /\ \A a \in DOMAIN book :
       /\ a \in seen /\ Named[a] \in TechnicalCategory => book[a].technical
       /\ book[a].technical
            => a \in marked \/ (a \in seen /\ Named[a] \in TechnicalCategory)

BooksInv ==
  HoldersTypeOK /\ BookOk(book) /\ Covered /\ FlagsOk /\ SnapshotLagsOnce

\* An event leaves alone what is technical; who is new is not.
FlagsKept(b, c) ==
  /\ DOMAIN b \subseteq DOMAIN c
  /\ \A x \in DOMAIN c :
       c[x].technical = IF x \in DOMAIN b THEN b[x].technical ELSE FALSE

LEMMA AddFlags ==
  ASSUME NEW b, BookOk(b), NEW a, NEW n, NEW at
  PROVE  FlagsKept(b, Add(b, a, n, at))
<1>1. CASE a = Zero
  BY <1>1 DEF Add, FlagsKept
<1>2. CASE a # Zero
  <2> DEFINE old == IF a \in DOMAIN b THEN b[a]
                    ELSE [balance |-> 0, first |-> at, last |-> at,
                          zero |-> Held, technical |-> FALSE]
  <2>1. PICK w : w = [old EXCEPT !.balance = old.balance + n, !.last = at,
                        !.zero = IF old.balance + n > 0 THEN Held ELSE old.zero]
    OBVIOUS
  <2>2. /\ DOMAIN old = WalletField
        /\ old.technical = IF a \in DOMAIN b THEN b[a].technical ELSE FALSE
    BY DEF BookOk, WalletType, WalletField
  <2>3. Add(b, a, n, at) = Put(b, a, w)
    BY <1>2, <2>1 DEF Add
  <2> HIDE DEF old
  <2>4. w.technical = old.technical
    BY <2>1, <2>2 DEF WalletField
  <2> QED
    BY <2>2, <2>3, <2>4 DEF FlagsKept, Put
<1> QED
  BY <1>1, <1>2

LEMMA DeductFlags ==
  ASSUME NEW b, BookOk(b), NEW a, NEW n, NEW at
  PROVE  FlagsKept(b, Deduct(b, a, n, at))
<1>1. CASE a \notin DOMAIN b
  BY <1>1 DEF Deduct, FlagsKept
<1>2. CASE a \in DOMAIN b
  <2>1. PICK left : left = b[a].balance - Deductible(b, a, n)
    OBVIOUS
  <2>2. PICK w : w = [b[a] EXCEPT !.balance = left, !.last = at,
                        !.zero = IF left = 0 /\ b[a].zero = Held THEN at
                                 ELSE b[a].zero]
    OBVIOUS
  <2>3. DOMAIN b[a] = WalletField
    BY <1>2 DEF BookOk, WalletType, WalletField
  <2>4. Deduct(b, a, n, at) = [b EXCEPT ![a] = w]
    BY <1>2, <2>1, <2>2, <2>3 DEF Deduct, WalletField
  <2>5. w.technical = b[a].technical
    BY <2>2, <2>3 DEF WalletField
  <2> QED
    BY <1>2, <2>4, <2>5 DEF FlagsKept
<1> QED
  BY <1>1, <1>2

LEMMA EventFlags ==
  ASSUME NEW b, BookOk(b), NEW e \in Entry, e.at \in 0..MaxTime
  PROVE  FlagsKept(b, Booked(b, e))
<1>1. e.amount \in Nat
  BY DEF Entry
<1>2. CASE IsMint(e)
  <2>1. Booked(b, e) = Add(b, e.to, e.amount, e.at)
    BY <1>2 DEF Booked, IsBurn
  <2> QED
    BY <2>1, AddFlags
<1>3. PICK c : c = Deduct(b, e.from, e.amount, e.at)
  OBVIOUS
<1>4. BookOk(c) /\ FlagsKept(b, c)
  BY <1>1, <1>3, DeductHeld, DeductFlags
<1>5. CASE IsBurn(e)
  <2>1. Booked(b, e) = c
    BY <1>3, <1>5 DEF Booked, IsBurn
  <2> QED
    BY <1>4, <2>1
<1>6. CASE ~IsMint(e) /\ ~IsBurn(e)
  <2>1. Booked(b, e) = Add(c, e.to, e.amount, e.at)
    BY <1>3, <1>6 DEF Booked
  <2>2. FlagsKept(c, Booked(b, e))
    BY <1>4, <2>1, AddFlags
  <2>3. DOMAIN c = DOMAIN b
    BY <1>3 DEF Deduct
  <2> QED
    BY <1>4, <2>2, <2>3 DEF FlagsKept
<1> QED
  BY <1>2, <1>5, <1>6

LEMMA ProcessTransferBooks ==
  ASSUME BooksInv, WalletsInv', NEW t \in Transfers, NEW at \in 0..MaxTime,
         ProcessTransfer(t, at)
  PROVE  BooksInv'
<1> DEFINE e == [kind |-> t.kind, from |-> t.from, to |-> t.to,
                 amount |-> t.amount, at |-> at]
<1>0. /\ supply \in Nat /\ uncovered \in Nat
      /\ InitialSupply \in Nat /\ MaxTime \in Nat
  BY HoldersAssumption DEF BooksInv, HoldersTypeOK
<1>1. /\ book' = Booked(book, e) /\ supply' = SupplyAfter(supply, e)
      /\ uncovered' = IF IsMint(e) THEN uncovered
                      ELSE uncovered + e.amount
                             - Deductible(book, e.from, e.amount)
      /\ UNCHANGED <<marked, snapshots, report, seen>>
  BY DEF ProcessTransfer
<1>2. e \in Entry /\ e.at \in 0..MaxTime
  BY <1>0, HoldersAssumption DEF Entry
<1> HIDE DEF e
<1> DEFINE n == e.amount
           d == Deductible(book, e.from, e.amount)
           h == HeldBy(book)
           h2 == HeldBy(book')
<1>3. /\ BookOk(book')
      /\ IsMint(e) => h2 <= h + n
      /\ IsBurn(e) => h2 = h - d
      /\ ~IsMint(e) /\ ~IsBurn(e) => h2 = h - d + n
      /\ d \in 0..n
  BY <1>1, <1>2, EventHeld DEF BooksInv
<1>4. h \in Nat /\ h2 \in Nat /\ n \in Nat
  BY <1>2, <1>3, HeldNat DEF BooksInv, Entry
<1>5. h <= supply - InitialSupply + uncovered
  BY DEF BooksInv, Covered
<1>6. /\ uncovered' = IF IsMint(e) THEN uncovered ELSE uncovered + n - d
      /\ IsMint(e) => supply' = supply + n
      /\ IsBurn(e) => supply' = supply
                      \/ (supply < n /\ supply' = 0)
                      \/ (supply >= n /\ supply' = supply - n)
      /\ ~IsMint(e) /\ ~IsBurn(e) => supply' = supply
  BY <1>0, <1>1, <1>4 DEF SupplyAfter, IsBurn
<1> HIDE DEF n, d, h, h2
<1>7. /\ supply' \in Nat /\ uncovered' \in Nat
      /\ h2 <= supply' - InitialSupply + uncovered'
  <2>1. CASE IsMint(e)
    BY <1>0, <1>3, <1>4, <1>5, <1>6, <2>1
  <2>2. CASE IsBurn(e)
    <3>1. ~IsMint(e)
      BY <2>2 DEF IsBurn
    <3> QED
      BY <1>0, <1>3, <1>4, <1>5, <1>6, <2>2, <3>1
  <2>3. CASE ~IsMint(e) /\ ~IsBurn(e)
    BY <1>0, <1>3, <1>4, <1>5, <1>6, <2>3
  <2> QED
    BY <2>1, <2>2, <2>3
<1>8. FlagsKept(book, book')
  BY <1>1, <1>2, EventFlags DEF BooksInv
<1>9. FlagsOk'
  BY <1>1, <1>8 DEF BooksInv, FlagsOk, FlagsKept
<1>10. HoldersTypeOK'
  BY <1>1, <1>3, <1>7, <1>9
     DEF BooksInv, HoldersTypeOK, BookOk, WalletType, WalletsInv, FlagsOk
<1> QED
  BY <1>1, <1>3, <1>7, <1>9, <1>10 DEF BooksInv, Covered, SnapshotLagsOnce, h2

\* A change of what is technical leaves the books covered.
LEMMA TechnicalHeld ==
  ASSUME NEW b, BookOk(b), NEW c, DOMAIN c = DOMAIN b,
         \A a \in DOMAIN b :
           \/ c[a] = b[a]
           \/ \E v \in BOOLEAN : c[a] = [b[a] EXCEPT !.technical = v]
  PROVE  /\ BookOk(c) /\ HeldBy(c) = HeldBy(b)
         /\ Holding(c) = Holding(b)
         /\ \A a \in DOMAIN b : c[a].balance = b[a].balance
<1>1. ASSUME NEW a \in DOMAIN b
      PROVE  c[a] \in WalletType /\ c[a].balance = b[a].balance
  BY <1>1 DEF BookOk, WalletType
<1>2. \A a \in DOMAIN b : Balances(c)[a] = Balances(b)[a]
  BY <1>1 DEF Balances
<1> QED
  BY <1>1, <1>2, SumEqual DEF BookOk, HeldBy, Holding

LEMMA MarkTechnicalBooks ==
  ASSUME BooksInv, NEW a \in Markable, MarkTechnical(a)
  PROVE  BooksInv'
<1>1. /\ marked' = marked \cup {a}
      /\ UNCHANGED <<supply, uncovered, log, snapshots, report, seen>>
      /\ DOMAIN book' = DOMAIN book
      /\ \A x \in DOMAIN book :
           book'[x] = book[x]
           \/ \E v \in BOOLEAN : book'[x] = [book[x] EXCEPT !.technical = v]
  BY DEF MarkTechnical
<1>2. PICK b, c : b = book /\ c = book'
  OBVIOUS
<1>3. BookOk(c) /\ HeldBy(c) = HeldBy(b)
  BY <1>1, <1>2, TechnicalHeld DEF BooksInv
<1>4. BookOk(book') /\ HeldBy(book') = HeldBy(book)
  BY <1>2, <1>3
<1>5. HoldersTypeOK'
  BY <1>1, <1>4, HoldersAssumption
     DEF BooksInv, HoldersTypeOK, BookOk, WalletType
<1>6. FlagsOk'
  <2>1. \A x \in DOMAIN book : DOMAIN book[x] = WalletField
    BY DEF BooksInv, BookOk, WalletType, WalletField
  <2>2. \A x \in DOMAIN book :
          book'[x].technical = (book[x].technical \/ x = a)
    <3> SUFFICES ASSUME NEW x \in DOMAIN book
                 PROVE  book'[x].technical = (book[x].technical \/ x = a)
      OBVIOUS
    <3>1. book[x].technical \in BOOLEAN
      BY DEF BooksInv, BookOk, WalletType
    <3>2. CASE x = a
      BY <2>1, <3>1, <3>2 DEF MarkTechnical, WalletField
    <3>3. CASE x # a
      BY <3>1, <3>3 DEF MarkTechnical
    <3> QED
      BY <3>2, <3>3
  <2> QED
    BY <1>1, <2>2 DEF BooksInv, FlagsOk
<1> QED
  BY <1>1, <1>4, <1>5, <1>6 DEF BooksInv, Covered, SnapshotLagsOnce

LEMMA CategoryType ==
  ASSUME NEW a \in Address
  PROVE  /\ Category(a) \in TechnicalCategory \cup EconomicCategory
         /\ Named[a] \in TechnicalCategory
              <=> Category(a) \in TechnicalCategory
         /\ TechnicalCategory \cap EconomicCategory = {}
<1>1. Named[a] \in TechnicalCategory \cup (EconomicCategory \ {"WHALE"})
  BY HoldersAssumption
<1>2. "RETAIL" \notin TechnicalCategory /\ "WHALE" \notin TechnicalCategory
  BY DEF TechnicalCategory
<1> QED
  BY <1>1, <1>2 DEF Category, TechnicalCategory, EconomicCategory

\* Who is economic to a snapshot: whom the categorizer takes for economic, but
\* for those marked by hand, and technical wallets no evaluation saw before.
LEMMA SnapshotCounts ==
  ASSUME BooksInv
  PROVE  Snapshot.economic + Cardinality(Economic \cap marked)
           = Cardinality(Economic)
             + Cardinality((Holding(book) \ Economic) \ (seen \cup marked))
<1> DEFINE H == Holding(book)
           technical == {a \in H : a \in marked \/ book[a].technical}
           E == Economic
           early == (H \ E) \ (seen \cup marked)
           plain == E \ marked
<1>1. /\ H \subseteq Address /\ H \subseteq DOMAIN book /\ E \subseteq H
      /\ IsFiniteSet(DOMAIN book)
  BY DEF BooksInv, HoldersTypeOK, Holding, BookOk, Economic
<1>2. \A a \in H : a \in E <=> Named[a] \notin TechnicalCategory
  BY <1>1, CategoryType DEF Economic
<1>3. H \ technical = plain \cup early /\ plain \cap early = {}
  <2>1. \A a \in H : a \notin technical <=> a \in plain \/ a \in early
    <3> SUFFICES ASSUME NEW a \in H
                 PROVE  a \notin technical <=> a \in plain \/ a \in early
      OBVIOUS
    <3>1. /\ a \in seen /\ Named[a] \in TechnicalCategory
               => book[a].technical
          /\ book[a].technical
               => a \in marked
                  \/ (a \in seen /\ Named[a] \in TechnicalCategory)
      BY <1>1 DEF BooksInv, FlagsOk
    <3> QED
      BY <1>2, <3>1
  <2> QED
    BY <1>1, <2>1
<1>4. Snapshot.economic = Cardinality(H \ technical)
  BY DEF Snapshot
<1> HIDE DEF H, technical, E, early, plain
<1>5. PICK o : o = E \cap marked
  OBVIOUS
<1>6. E = plain \cup o /\ plain \cap o = {}
  BY <1>5 DEF plain
<1>7. IsFiniteSet(plain) /\ IsFiniteSet(early) /\ IsFiniteSet(o)
  <2>1. \A Q \in SUBSET DOMAIN book : IsFiniteSet(Q)
    BY <1>1, FS_Subset
  <2>2. plain \subseteq DOMAIN book /\ early \subseteq DOMAIN book
        /\ o \subseteq DOMAIN book
    BY <1>1, <1>5 DEF plain, early
  <2> QED
    BY <2>1, <2>2
<1>8. /\ Cardinality(plain) \in Nat /\ Cardinality(early) \in Nat
      /\ Cardinality(o) \in Nat
  BY <1>7, FS_CardinalityType
<1>9. Cardinality(plain \cup early) = Cardinality(plain) + Cardinality(early)
  <2>1. Cardinality(plain \cup early)
          = Cardinality(plain) + Cardinality(early)
            - Cardinality(plain \cap early)
    BY <1>7, FS_Union
  <2>2. Cardinality(plain \cap early) = 0
    BY <1>3, FS_EmptySet
  <2> QED
    BY <1>8, <2>1, <2>2
<1>10. Cardinality(plain \cup o) = Cardinality(plain) + Cardinality(o)
  <2>1. Cardinality(plain \cup o)
          = Cardinality(plain) + Cardinality(o) - Cardinality(plain \cap o)
    BY <1>7, FS_Union
  <2>2. Cardinality(plain \cap o) = 0
    BY <1>6, FS_EmptySet
  <2> QED
    BY <1>8, <2>1, <2>2
<1>11. Cardinality(plain) + Cardinality(early) + Cardinality(o)
         = Cardinality(plain) + Cardinality(o) + Cardinality(early)
  BY <1>8
<1>12. Snapshot.economic + Cardinality(o) = Cardinality(E) + Cardinality(early)
  BY <1>3, <1>4, <1>6, <1>9, <1>10, <1>11
<1> QED
  BY <1>5, <1>12 DEF E, early, H

LEMMA EvaluateBooks ==
  ASSUME BooksInv, NEW now, Evaluate(now)
  PROVE  BooksInv'
<1>1. /\ book' = Classified /\ seen' = seen \cup Holding(book)
      /\ snapshots' = Append(snapshots, Snapshot)
      /\ Len(snapshots) < MaxReports
      /\ report'.economic = Snapshot.economic
      /\ report'.classified = Cardinality(Economic)
      /\ report'.overruled = Economic \cap marked
      /\ report'.early = (Holding(book) \ Economic) \ (seen \cup marked)
      /\ UNCHANGED <<supply, uncovered, marked, log>>
  BY DEF Evaluate
<1>2. /\ DOMAIN book' = DOMAIN book
      /\ \A x \in DOMAIN book :
           book'[x] = IF x \in Holding(book)
                      THEN [book[x] EXCEPT
                              !.technical = Category(x) \in TechnicalCategory]
                      ELSE book[x]
  BY <1>1 DEF Classified
<1>3. PICK b, c : b = book /\ c = book'
  OBVIOUS
<1>4. \A x \in DOMAIN b :
        c[x] = b[x] \/ \E v \in BOOLEAN : c[x] = [b[x] EXCEPT !.technical = v]
  <2> SUFFICES ASSUME NEW x \in DOMAIN b, c[x] # b[x]
               PROVE  \E v \in BOOLEAN : c[x] = [b[x] EXCEPT !.technical = v]
    OBVIOUS
  <2> DEFINE v == Category(x) \in TechnicalCategory
  <2>1. v \in BOOLEAN
    OBVIOUS
  <2>2. c[x] = [b[x] EXCEPT !.technical = v]
    BY <1>2, <1>3
  <2> HIDE DEF v
  <2> QED
    BY <2>1, <2>2
<1>5. /\ BookOk(c) /\ HeldBy(c) = HeldBy(b) /\ Holding(c) = Holding(b)
      /\ \A a \in DOMAIN b : c[a].balance = b[a].balance
  <2>1. BookOk(b) /\ DOMAIN c = DOMAIN b
    BY <1>2, <1>3 DEF BooksInv
  <2>2. BookOk(c) /\ HeldBy(c) = HeldBy(b)
    BY <1>4, <2>1, TechnicalHeld
  <2>3. Holding(c) = Holding(b)
    BY <1>4, <2>1, TechnicalHeld
  <2>4. \A a \in DOMAIN b : c[a].balance = b[a].balance
    <3> SUFFICES ASSUME NEW a \in DOMAIN b PROVE c[a].balance = b[a].balance
      OBVIOUS
    <3>1. b[a] \in WalletType
      BY <2>1 DEF BookOk
    <3>2. CASE c[a] = b[a]
      BY <3>2
    <3>3. ASSUME NEW v \in BOOLEAN, c[a] = [b[a] EXCEPT !.technical = v]
          PROVE  c[a].balance = b[a].balance
      BY <3>1, <3>3 DEF WalletType
    <3> QED
      BY <1>4, <3>2, <3>3
  <2> QED
    BY <2>2, <2>3, <2>4
<1>6. /\ BookOk(book') /\ HeldBy(book') = HeldBy(book)
      /\ Holding(book') = Holding(book)
      /\ \A a \in DOMAIN book : book'[a].balance = book[a].balance
  BY <1>3, <1>5
<1>7. HoldersTypeOK'
  <2>1. Len(snapshots') \in 0..MaxReports
    <3>1. Len(snapshots) \in Nat /\ MaxReports \in Nat
      BY HoldersAssumption DEF BooksInv, HoldersTypeOK
    <3>2. Len(snapshots') = Len(snapshots) + 1
      BY <1>1 DEF BooksInv, HoldersTypeOK
    <3> QED
      BY <1>1, <3>1, <3>2
  <2>2. seen' \subseteq DOMAIN book'
    BY <1>1, <1>2 DEF BooksInv, HoldersTypeOK, Holding
  <2> QED
    BY <1>1, <1>2, <1>6, <2>1, <2>2
       DEF BooksInv, HoldersTypeOK, BookOk, WalletType
<1>8. FlagsOk'
  <2>1. seen' \subseteq DOMAIN book'
    BY <1>1, <1>2 DEF BooksInv, HoldersTypeOK, Holding
  <2> SUFFICES ASSUME NEW a \in DOMAIN book
               PROVE  /\ a \in seen' /\ Named[a] \in TechnicalCategory
                           => book'[a].technical
                      /\ book'[a].technical
                           => a \in marked
                              \/ (a \in seen'
                                  /\ Named[a] \in TechnicalCategory)
    BY <1>1, <1>2, <2>1 DEF FlagsOk
  <2>2. book[a] \in WalletType /\ a \in Address
    BY DEF BooksInv, BookOk, HoldersTypeOK
  <2>3. CASE a \in Holding(book)
    <3>1. book'[a].technical = (Category(a) \in TechnicalCategory)
      BY <1>2, <2>2, <2>3 DEF WalletType
    <3> QED
      BY <1>1, <2>2, <2>3, <3>1, CategoryType
  <2>4. CASE a \notin Holding(book)
    BY <1>1, <1>2, <2>4 DEF BooksInv, FlagsOk
  <2> QED
    BY <2>3, <2>4
<1>9. SnapshotLagsOnce'
  BY <1>1, SnapshotCounts DEF SnapshotLagsOnce
<1> QED
  BY <1>1, <1>6, <1>7, <1>8, <1>9 DEF BooksInv, Covered

LEMMA HoldersBooksStep ==
  ASSUME BooksInv, WalletsInv', HoldersNext
  PROVE  BooksInv'
  BY ProcessTransferBooks, MarkTechnicalBooks, EvaluateBooks DEF HoldersNext

LEMMA BooksInit == EnginesInit => BooksInv
<1> SUFFICES ASSUME EnginesInit PROVE BooksInv
  OBVIOUS
<1>1. /\ book = <<>> /\ supply = InitialSupply /\ uncovered = 0
      /\ marked = {} /\ snapshots = <<>> /\ report = NoReport
      /\ seen = {}
  BY DEF EnginesInit, HoldersInit
<1>2. DOMAIN book = {} /\ Len(snapshots) = 0
  BY <1>1
<1>3. HoldersTypeOK
  <2>1. MaxTime \in Nat /\ MaxReports \in Nat /\ InitialSupply \in Nat
    BY HoldersAssumption
  <2>2. /\ 0 \in 0..MaxTime /\ 0 \in 0..MaxReports /\ {} \subseteq Address
        /\ FALSE \in BOOLEAN
    BY <2>1
  <2> QED
    BY <1>1, <1>2, <2>1, <2>2, Zenon DEF HoldersTypeOK
<1>4. BookOk(book)
  BY <1>2, FS_EmptySet DEF BookOk
<1>5. HeldBy(book) = 0
  BY <1>2, SumEmpty DEF HeldBy
<1>6. Covered
  BY <1>1, <1>5, HoldersAssumption DEF Covered
<1>7. SnapshotLagsOnce
  BY <1>1 DEF NoReport, SnapshotLagsOnce
<1> QED
  BY <1>1, <1>2, <1>3, <1>4, <1>6, <1>7 DEF BooksInv, FlagsOk

LEMMA BooksStutter ==
  ASSUME BooksInv, UNCHANGED holderVars
  PROVE  BooksInv'
  BY DEF holderVars, BooksInv, HoldersTypeOK, BookOk, Covered, HeldBy,
         Balances, FlagsOk, SnapshotLagsOnce

\* Wallets and books together are inductive: the addresses of the books come
\* from the former.
LEMMA BooksInvariant == EnginesSpec => [](WalletsInv /\ BooksInv)
<1>1. EnginesInit => WalletsInv /\ BooksInv
  BY WalletsInit, BooksInit
<1>2. WalletsInv /\ BooksInv /\ [EnginesNext]_engineVars
        => (WalletsInv /\ BooksInv)'
  <2> SUFFICES ASSUME WalletsInv, BooksInv, [EnginesNext]_engineVars
               PROVE  WalletsInv' /\ BooksInv'
    OBVIOUS
  <2>1. WalletsInv'
    BY WalletsStep
  <2>2. CASE HoldersNext
    BY <2>1, <2>2, HoldersBooksStep
  <2>3. CASE UNCHANGED holderVars
    BY <2>1, <2>3, BooksStutter
  <2> QED
    BY <2>1, <2>2, <2>3 DEF EnginesNext, engineVars
<1> QED
  BY <1>1, <1>2, PTL DEF EnginesSpec

\* The books of the tracker are in order: neither a burn, nor a mint, nor a
\* transfer of a wallet to itself creates tokens in them, and an exit is an
\* empty wallet (tracker.py 85-150 of src/intelligence/holder).
THEOREM BooksAreCovered == EnginesSpec => []HolderBooks
<1>1. WalletsInv => ExitsAreEmptyWallets
  BY DEF WalletsInv, WalletsOk, Ever, ExitsAreEmptyWallets
<1>2. BooksInv => HeldIsCovered
  BY AmountIsHeld DEF BooksInv, BookOk, Covered, HeldIsCovered
<1> QED
  BY <1>1, <1>2, BooksInvariant, PTL DEF HolderBooks

\* The snapshot of a report lags behind the categories that the evaluation
\* writes after it by one report for each technical wallet, and by the accounts
\* marked by hand that are economic to the categorizer; by nothing else, in any
\* order of events, marks and evaluations (section_eight_holder.py 86-156,
\* distribution.py 134-197).
THEOREM SnapshotsLagOnce == EnginesSpec => []SnapshotLagsOnce
<1>1. BooksInv => SnapshotLagsOnce
  BY DEF BooksInv
<1> QED
  BY <1>1, BooksInvariant, PTL
----------------------------------------------------------------------------
(* Holders: the log replayed.                                              *)

Replay(s) == FoldLeft(Booked, <<>>, s)

\* The recursion of FoldLeft, over the subsets of 1..n.
Folded(g, s, n) ==
  [S \in SUBSET (1..n) |->
     IF S = {} THEN <<>> ELSE Booked(g[S \ {Max(S)}], s[Max(S)])]

IsFold(g, s, n) == g = Folded(g, s, n)

LEMMA FoldExists ==
  ASSUME NEW n \in Nat, NEW s
  PROVE  \E g : IsFold(g, s, n)
<1> DEFINE D == 1..n
           UpTo(g, k) == \A S \in SUBSET D :
                           Cardinality(S) <= k => g[S] = Folded(g, s, n)[S]
           N == {k \in Nat : \E g : UpTo(g, k)}
<1>0. IsFiniteSet(D)
  BY FS_Interval
<1>1. IsFiniteSet(D) /\ \A S \in SUBSET D : /\ IsFiniteSet(S)
                                            /\ Cardinality(S) \in Nat
  BY <1>0, FS_Subset, FS_CardinalityType
<1>2. ASSUME NEW k \in Nat, k \in N PROVE k + 1 \in N
  <2>1. PICK g : UpTo(g, k)
    BY <1>2
  <2>2. PICK h : h = Folded(g, s, n)
    OBVIOUS
  <2>3. ASSUME NEW S \in SUBSET D, Cardinality(S) <= k + 1
        PROVE  h[S] = Folded(h, s, n)[S]
    <3>1. CASE S = {}
      BY <2>2, <3>1 DEF Folded
    <3>2. CASE S # {}
      <4>1. Cardinality(S \ {Max(S)}) = Cardinality(S) - 1
        BY <3>2, LastIn
      <4>2. Cardinality(S \ {Max(S)}) <= k
        BY <1>1, <2>3, <4>1
      <4>3. S \ {Max(S)} \in SUBSET D
        OBVIOUS
      <4>4. g[S \ {Max(S)}] = h[S \ {Max(S)}]
        BY <2>1, <2>2, <4>2, <4>3
      <4> QED
        BY <2>2, <4>4 DEF Folded
    <3> QED
      BY <3>1, <3>2
  <2> QED
    BY <2>3
<1>3. 0 \in N
  <2> DEFINE g == [S \in SUBSET D |-> <<>>]
  <2>1. \A S \in SUBSET D : Cardinality(S) <= 0 => S = {}
    BY <1>1, FS_EmptySet
  <2>2. UpTo(g, 0)
    BY <2>1 DEF Folded
  <2> QED
    BY <2>2
<1> HIDE DEF N
<1>4. Cardinality(D) \in N
  BY <1>1, <1>2, <1>3, NatInduct
<1>5. PICK g : UpTo(g, Cardinality(D))
  BY <1>4 DEF N
<1>6. \A S \in SUBSET D : Cardinality(S) <= Cardinality(D)
  BY <1>1, FS_Subset
<1>7. \A S \in SUBSET D : g[S] = Folded(g, s, n)[S]
  BY <1>5, <1>6
<1>8. PICK h : h = [S \in SUBSET D |-> g[S]]
  OBVIOUS
<1>9. h = Folded(g, s, n)
  BY <1>7, <1>8 DEF Folded
<1>10. \A S \in SUBSET D : S \ {Max(S)} \in SUBSET D
  OBVIOUS
<1>11. Folded(g, s, n) = Folded(h, s, n)
  BY <1>8, <1>10 DEF Folded
<1> QED
  BY <1>9, <1>11 DEF IsFold

LEMMA ReplayIs ==
  ASSUME NEW n \in Nat, NEW s, DOMAIN s = 1..n
  PROVE  \E g : IsFold(g, s, n) /\ Replay(s) = g[1..n]
<1> DEFINE g == CHOOSE g : g = [S \in SUBSET DOMAIN s |->
                  IF S = {} THEN <<>>
                  ELSE Booked(g[S \ {Max(S)}], s[Max(S)])]
<1>1. Replay(s) = g[DOMAIN s]
  BY DEF Replay, FoldLeft, MapThenFoldSet
<1>2. \E h : h = [S \in SUBSET DOMAIN s |->
                  IF S = {} THEN <<>>
                  ELSE Booked(h[S \ {Max(S)}], s[Max(S)])]
  <2>1. PICK h : IsFold(h, s, n)
    BY FoldExists
  <2> QED
    BY <2>1, Zenon DEF IsFold, Folded
<1>3. g = [S \in SUBSET DOMAIN s |->
             IF S = {} THEN <<>>
             ELSE Booked(g[S \ {Max(S)}], s[Max(S)])]
  BY <1>2, Zenon
<1> HIDE DEF g
<1>4. IsFold(g, s, n)
  BY <1>3, Zenon DEF IsFold, Folded
<1> QED
  BY <1>1, <1>4

\* Of a prefix, the fold does not look beyond it.
LEMMA FoldPrefix ==
  ASSUME NEW m \in Nat, NEW n \in Nat, NEW s, NEW t,
         NEW g, IsFold(g, s, m), NEW h, IsFold(h, t, n),
         NEW k \in Nat, k <= m, k <= n, \A i \in 1..k : s[i] = t[i]
  PROVE  g[1..k] = h[1..k]
<1> DEFINE N == {j \in Nat : j <= k => g[1..j] = h[1..j]}
<1>1. \A S \in SUBSET (1..k) :
        /\ g[S] = IF S = {} THEN <<>> ELSE Booked(g[S \ {Max(S)}], s[Max(S)])
        /\ h[S] = IF S = {} THEN <<>> ELSE Booked(h[S \ {Max(S)}], t[Max(S)])
  <2>1. \A S \in SUBSET (1..k) : S \in SUBSET (1..m) /\ S \in SUBSET (1..n)
    OBVIOUS
  <2> QED
    BY <2>1 DEF IsFold, Folded
<1>2. 0 \in N
  <2>1. 1..0 = {} /\ 1..0 \in SUBSET (1..k)
    OBVIOUS
  <2> QED
    BY <1>1, <2>1
<1>3. ASSUME NEW j \in Nat, j \in N PROVE j + 1 \in N
  <2> SUFFICES ASSUME j + 1 <= k PROVE g[1..(j + 1)] = h[1..(j + 1)]
    OBVIOUS
  <2>1. PICK S : S = 1..(j + 1)
    OBVIOUS
  <2>2. S \in SUBSET (1..k) /\ S # {}
    <3>1. 1 \in S /\ \A x \in S : x \in 1..k
      BY <2>1
    <3> QED
      BY <3>1
  <2>3. Max(S) = j + 1
    <3>1. Max(S) \in S /\ \A y \in S : Max(S) >= y
      BY <2>2, LastIn
    <3>2. j + 1 \in S /\ \A y \in S : y \in Int /\ y <= j + 1
      BY <2>1
    <3> QED
      BY <3>1, <3>2
  <2>4. S \ {Max(S)} = 1..j
    BY <2>1, <2>3
  <2>5. g[1..j] = h[1..j] /\ s[j + 1] = t[j + 1]
    BY <1>3
  <2> QED
    BY <1>1, <2>1, <2>2, <2>3, <2>4, <2>5
<1> HIDE DEF N
<1>4. k \in N
  BY <1>2, <1>3, NatInduct
<1> QED
  BY <1>4 DEF N

LEMMA ReplayNothing == Replay(<<>>) = <<>>
<1>1. DOMAIN <<>> = 1..0 /\ 1..0 = {}
  OBVIOUS
<1>2. PICK g : IsFold(g, <<>>, 0) /\ Replay(<<>>) = g[1..0]
  BY <1>1, ReplayIs
<1> QED
  BY <1>1, <1>2 DEF IsFold, Folded

LEMMA ReplayOneMore ==
  ASSUME NEW E, NEW s \in Seq(E), NEW e
  PROVE  Replay(Append(s, e)) = Booked(Replay(s), e)
<1> DEFINE t == Append(s, e)
           n == Len(s)
<1>1. /\ n \in Nat /\ DOMAIN s = 1..n /\ DOMAIN t = 1..(n + 1)
      /\ \A i \in 1..n : t[i] = s[i]
      /\ t[n + 1] = e
  OBVIOUS
<1> HIDE DEF t, n
<1>2. PICK g : IsFold(g, s, n) /\ Replay(s) = g[1..n]
  BY <1>1, ReplayIs
<1>3. PICK h : IsFold(h, t, n + 1) /\ Replay(t) = h[1..(n + 1)]
  BY <1>1, ReplayIs
<1>4. h[1..n] = g[1..n]
  BY <1>1, <1>2, <1>3, FoldPrefix
<1>5. PICK S : S = 1..(n + 1)
  OBVIOUS
<1>6. S # {} /\ Max(S) = n + 1 /\ S \ {Max(S)} = 1..n
  <2>1. S \in SUBSET (1..(n + 1)) /\ S # {} /\ n + 1 \in S
    <3>1. n + 1 \in S
      BY <1>1, <1>5
    <3> QED
      BY <1>5, <3>1
  <2>2. Max(S) \in S /\ \A y \in S : Max(S) >= y
    <3>1. n + 1 \in Nat
      BY <1>1
    <3> QED
      BY <2>1, <3>1, LastIn
  <2>3. \A y \in S : y \in Int /\ y <= n + 1
    BY <1>1, <1>5
  <2>4. Max(S) = n + 1
    <3>1. PICK m : m = Max(S)
      OBVIOUS
    <3>2. m \in Int /\ m <= n + 1 /\ m >= n + 1 /\ n \in Nat
      BY <1>1, <2>1, <2>2, <2>3, <3>1
    <3> QED
      BY <3>1, <3>2
  <2> QED
    BY <1>1, <1>5, <2>1, <2>4
<1>7. h[S] = Booked(h[S \ {Max(S)}], t[Max(S)])
  BY <1>3, <1>5, <1>6 DEF IsFold, Folded
<1> QED
  BY <1>1, <1>2, <1>3, <1>4, <1>5, <1>6, <1>7 DEF t

----------------------------------------------------------------------------
(* Holders: what becomes of a wallet.                                      *)

\* a holds, or stopped at time t or later.
Stayed(b, a, t) == b[a].balance > 0 \/ (b[a].zero # Held /\ b[a].zero >= t)

\* Nothing that c forgets of b, seen from time t.
Keeps(b, c, t) ==
  \A a \in DOMAIN b : /\ a \in DOMAIN c /\ c[a].first = b[a].first
                      /\ Stayed(b, a, t) => Stayed(c, a, t)

\* The same wallets, apart from what is technical.
Like(b, c) ==
  /\ DOMAIN b = DOMAIN c
  /\ \A a \in DOMAIN b : /\ b[a].balance = c[a].balance
                         /\ b[a].first = c[a].first /\ b[a].last = c[a].last
                         /\ b[a].zero = c[a].zero

\* What an addition of n to a at time at makes of b.
AddedTo(b, c, a, n, at) ==
  /\ DOMAIN c = DOMAIN b \cup {a}
  /\ \A x \in DOMAIN b : x # a => c[x] = b[x]
  /\ a \in DOMAIN b =>
       /\ c[a].balance = b[a].balance + n /\ c[a].first = b[a].first
       /\ c[a].zero = IF b[a].balance + n > 0 THEN Held ELSE b[a].zero
  /\ a \notin DOMAIN b =>
       c[a].balance = n /\ c[a].first = at /\ c[a].zero = Held
  /\ c[a].last = at

LEMMA WalletAdded ==
  ASSUME NEW b, BookOk(b), NEW a, a # Zero, NEW n \in Nat,
         NEW at \in 0..MaxTime
  PROVE  AddedTo(b, Add(b, a, n, at), a, n, at)
<1> SUFFICES ASSUME NEW c, c = Add(b, a, n, at)
             PROVE  AddedTo(b, c, a, n, at)
  OBVIOUS
<1> DEFINE old == IF a \in DOMAIN b THEN b[a]
                  ELSE [balance |-> 0, first |-> at, last |-> at,
                        zero |-> Held, technical |-> FALSE]
<1>1. old \in WalletType
  BY DEF BookOk, WalletType
<1>2. PICK w : w = [old EXCEPT !.balance = old.balance + n, !.last = at,
                      !.zero = IF old.balance + n > 0 THEN Held ELSE old.zero]
  OBVIOUS
<1>3. c = Put(b, a, w)
  BY <1>2 DEF Add
<1> HIDE DEF old
<1>4. /\ w.balance = old.balance + n /\ w.first = old.first /\ w.last = at
      /\ w.zero = IF old.balance + n > 0 THEN Held ELSE old.zero
  BY <1>1, <1>2 DEF WalletType
<1>5. /\ DOMAIN c = DOMAIN b \cup {a} /\ c[a] = w
      /\ \A x \in DOMAIN b : x # a => c[x] = b[x]
  BY <1>3 DEF Put
<1>6. CASE a \in DOMAIN b
  <2>1. old = b[a]
    BY <1>6 DEF old
  <2> QED
    BY <1>4, <1>5, <1>6, <2>1 DEF AddedTo
<1>7. CASE a \notin DOMAIN b
  <2>1. old.balance = 0 /\ old.first = at /\ old.zero = Held
    BY <1>7 DEF old
  <2>2. w.balance = n /\ w.zero = Held
    BY <1>4, <2>1
  <2> QED
    BY <1>4, <1>5, <1>7, <2>1, <2>2 DEF AddedTo
<1> QED
  BY <1>6, <1>7

LEMMA WalletDeducted ==
  ASSUME NEW b, BookOk(b), NEW a \in DOMAIN b, NEW n \in Nat,
         NEW at \in 0..MaxTime
  PROVE  LET c == Deduct(b, a, n, at)
             left == IF b[a].balance < n THEN 0 ELSE b[a].balance - n
         IN  /\ DOMAIN c = DOMAIN b
             /\ c[a].balance = left /\ c[a].first = b[a].first
             /\ c[a].last = at
             /\ c[a].zero = IF left = 0 /\ b[a].zero = Held THEN at
                            ELSE b[a].zero
             /\ \A x \in DOMAIN b : x # a => c[x] = b[x]
<1> DEFINE c == Deduct(b, a, n, at)
           left == IF b[a].balance < n THEN 0 ELSE b[a].balance - n
<1>1. b[a] \in WalletType /\ b[a].balance \in Nat
  BY DEF BookOk, WalletType
<1>2. b[a].balance - Deductible(b, a, n) = left
  BY <1>1 DEF Deductible
<1> HIDE DEF left
<1>3. PICK w : w = [b[a] EXCEPT !.balance = left, !.last = at,
                      !.zero = IF left = 0 /\ b[a].zero = Held THEN at
                               ELSE b[a].zero]
  OBVIOUS
<1>4. c = [b EXCEPT ![a] = w]
  BY <1>1, <1>2, <1>3 DEF Deduct, WalletType
<1>5. /\ w.balance = left /\ w.first = b[a].first /\ w.last = at
      /\ w.zero = IF left = 0 /\ b[a].zero = Held THEN at ELSE b[a].zero
  BY <1>1, <1>3 DEF WalletType
<1> HIDE DEF c
<1>6. /\ DOMAIN c = DOMAIN b
      /\ c[a].balance = left /\ c[a].first = b[a].first
      /\ c[a].last = at
      /\ c[a].zero = IF left = 0 /\ b[a].zero = Held THEN at ELSE b[a].zero
      /\ \A x \in DOMAIN b : x # a => c[x] = b[x]
  BY <1>4, <1>5
<1> QED
  BY <1>6 DEF c, left

LEMMA AddKeeps ==
  ASSUME NEW b, BookOk(b), NEW a, NEW n \in Nat, NEW at \in 0..MaxTime,
         NEW t \in Int
  PROVE  Keeps(b, Add(b, a, n, at), t)
<1>1. CASE a = Zero
  BY <1>1 DEF Add, Keeps
<1>2. CASE a # Zero
  <2>1. PICK c : c = Add(b, a, n, at)
    OBVIOUS
  <2>0. AddedTo(b, c, a, n, at)
    BY <1>2, <2>1, WalletAdded
  <2>2. a \in DOMAIN b =>
          /\ c[a].balance = b[a].balance + n /\ c[a].first = b[a].first
          /\ c[a].zero = IF b[a].balance + n > 0 THEN Held ELSE b[a].zero
          /\ b[a].balance \in Nat
    BY <2>0 DEF AddedTo, BookOk, WalletType
  <2>3. /\ DOMAIN c = DOMAIN b \cup {a}
        /\ \A x \in DOMAIN b : x # a => c[x] = b[x]
    BY <2>0 DEF AddedTo
  <2>4. ASSUME NEW x \in DOMAIN b
        PROVE  /\ x \in DOMAIN c /\ c[x].first = b[x].first
               /\ Stayed(b, x, t) => Stayed(c, x, t)
    <3>1. CASE x = a
      BY <2>2, <2>3, <3>1 DEF Stayed
    <3>2. CASE x # a
      BY <2>3, <3>2 DEF Stayed
    <3> QED
      BY <3>1, <3>2
  <2> QED
    BY <2>1, <2>4 DEF Keeps
<1> QED
  BY <1>1, <1>2

\* A wallet that is emptied remembers when.
LEMMA DeductKeeps ==
  ASSUME NEW b, BookOk(b),
         \A x \in DOMAIN b : b[x].zero # Held => b[x].balance = 0,
         NEW a, NEW n \in Nat, NEW at \in 0..MaxTime, NEW t \in Int, t <= at
  PROVE  Keeps(b, Deduct(b, a, n, at), t)
<1>1. CASE a \notin DOMAIN b
  BY <1>1 DEF Deduct, Keeps
<1>2. CASE a \in DOMAIN b
  <2>1. PICK c : c = Deduct(b, a, n, at)
    OBVIOUS
  <2>2. PICK left : left = IF b[a].balance < n THEN 0 ELSE b[a].balance - n
    OBVIOUS
  <2>3. /\ DOMAIN c = DOMAIN b /\ c[a].balance = left
        /\ c[a].first = b[a].first
        /\ c[a].zero = IF left = 0 /\ b[a].zero = Held THEN at ELSE b[a].zero
        /\ \A x \in DOMAIN b : x # a => c[x] = b[x]
    BY <1>2, <2>1, <2>2, WalletDeducted
  <2>4. left \in Nat /\ at \in Int /\ at # Held
    <3>1. b[a].balance \in Nat
      BY <1>2 DEF BookOk, WalletType
    <3> QED
      BY <2>2, <3>1, HoldersAssumption DEF Held
  <2>5. Stayed(b, a, t) => Stayed(c, a, t)
    <3> SUFFICES ASSUME Stayed(b, a, t), left = 0
                 PROVE  c[a].zero # Held /\ c[a].zero >= t
      BY <2>3, <2>4 DEF Stayed
    <3>1. CASE b[a].zero = Held
      BY <2>3, <2>4, <3>1
    <3>2. CASE b[a].zero # Held
      <4>1. b[a].balance = 0 /\ c[a].zero = b[a].zero
        BY <1>2, <2>3, <3>2
      <4> QED
        BY <3>2, <4>1 DEF Stayed
    <3> QED
      BY <3>1, <3>2
  <2>6. ASSUME NEW x \in DOMAIN b
        PROVE  /\ x \in DOMAIN c /\ c[x].first = b[x].first
               /\ Stayed(b, x, t) => Stayed(c, x, t)
    <3>1. CASE x = a
      BY <2>3, <2>5, <3>1
    <3>2. CASE x # a
      BY <2>3, <3>2 DEF Stayed
    <3> QED
      BY <3>1, <3>2
  <2> QED
    BY <2>1, <2>6 DEF Keeps
<1> QED
  BY <1>1, <1>2

LEMMA EventKeeps ==
  ASSUME NEW b, BookOk(b),
         \A x \in DOMAIN b : b[x].zero # Held => b[x].balance = 0,
         NEW e \in Entry, e.at \in 0..MaxTime, NEW t \in Int, t <= e.at
  PROVE  Keeps(b, Booked(b, e), t)
<1>1. e.amount \in Nat
  BY DEF Entry
<1>2. CASE IsMint(e)
  <2>1. \A d : Booked(d, e) = Add(d, e.to, e.amount, e.at)
    BY <1>2 DEF Booked, IsBurn
  <2> QED
    BY <1>1, <2>1, AddKeeps
<1>3. CASE IsBurn(e)
  <2>1. Booked(b, e) = Deduct(b, e.from, e.amount, e.at)
    BY <1>3 DEF Booked, IsBurn
  <2> QED
    BY <1>1, <2>1, DeductKeeps
<1>4. CASE ~IsMint(e) /\ ~IsBurn(e)
  <2>1. PICK c : c = Deduct(b, e.from, e.amount, e.at)
    OBVIOUS
  <2>2. Booked(b, e) = Add(c, e.to, e.amount, e.at)
    BY <1>4, <2>1 DEF Booked
  <2>3. BookOk(c) /\ Keeps(b, c, t)
    BY <1>1, <2>1, DeductHeld, DeductKeeps
  <2>4. Keeps(c, Add(c, e.to, e.amount, e.at), t)
    BY <1>1, <2>3, AddKeeps
  <2> QED
    BY <2>2, <2>3, <2>4 DEF Keeps
<1> QED
  BY <1>2, <1>3, <1>4

LEMMA AddLike ==
  ASSUME NEW b, BookOk(b), NEW c, BookOk(c), Like(b, c),
         NEW a, NEW n \in Nat, NEW at \in 0..MaxTime
  PROVE  Like(Add(b, a, n, at), Add(c, a, n, at))
<1>1. CASE a = Zero
  BY <1>1 DEF Add
<1>2. CASE a # Zero
  <2>1. PICK d, f : d = Add(b, a, n, at) /\ f = Add(c, a, n, at)
    OBVIOUS
  <2>0. AddedTo(b, d, a, n, at) /\ AddedTo(c, f, a, n, at)
    BY <1>2, <2>1, WalletAdded
  <2>2. /\ DOMAIN d = DOMAIN b \cup {a} /\ DOMAIN f = DOMAIN c \cup {a}
        /\ \A x \in DOMAIN b : x # a => d[x] = b[x]
        /\ \A x \in DOMAIN c : x # a => f[x] = c[x]
    BY <2>0 DEF AddedTo
  <2>3. /\ d[a].balance = f[a].balance /\ d[a].first = f[a].first
        /\ d[a].last = f[a].last /\ d[a].zero = f[a].zero
    <3>1. CASE a \in DOMAIN b
      BY <2>0, <3>1 DEF AddedTo, Like
    <3>2. CASE a \notin DOMAIN b
      BY <2>0, <3>2 DEF AddedTo, Like
    <3> QED
      BY <3>1, <3>2
  <2> QED
    BY <2>1, <2>2, <2>3 DEF Like
<1> QED
  BY <1>1, <1>2

LEMMA DeductLike ==
  ASSUME NEW b, BookOk(b), NEW c, BookOk(c), Like(b, c),
         NEW a, NEW n \in Nat, NEW at \in 0..MaxTime
  PROVE  Like(Deduct(b, a, n, at), Deduct(c, a, n, at))
<1>1. CASE a \notin DOMAIN b
  BY <1>1 DEF Deduct, Like
<1>2. CASE a \in DOMAIN b
  <2>1. PICK d, f : d = Deduct(b, a, n, at) /\ f = Deduct(c, a, n, at)
    OBVIOUS
  <2>2. a \in DOMAIN c
    BY <1>2 DEF Like
  <2>3. /\ DOMAIN d = DOMAIN b /\ DOMAIN f = DOMAIN c
        /\ \A x \in DOMAIN b : x # a => d[x] = b[x]
        /\ \A x \in DOMAIN c : x # a => f[x] = c[x]
    BY <1>2, <2>1, <2>2, WalletDeducted
  <2>4. /\ d[a].balance = f[a].balance /\ d[a].first = f[a].first
        /\ d[a].last = f[a].last /\ d[a].zero = f[a].zero
    BY <1>2, <2>1, <2>2, WalletDeducted DEF Like
  <2> QED
    BY <2>1, <2>3, <2>4 DEF Like
<1> QED
  BY <1>1, <1>2

LEMMA EventLike ==
  ASSUME NEW b, BookOk(b), NEW c, BookOk(c), Like(b, c),
         NEW e \in Entry, e.at \in 0..MaxTime
  PROVE  Like(Booked(b, e), Booked(c, e))
<1>1. e.amount \in Nat
  BY DEF Entry
<1>2. CASE IsMint(e)
  <2>1. \A d : Booked(d, e) = Add(d, e.to, e.amount, e.at)
    BY <1>2 DEF Booked, IsBurn
  <2> QED
    BY <1>1, <2>1, AddLike
<1>3. CASE IsBurn(e)
  <2>1. \A d : Booked(d, e) = Deduct(d, e.from, e.amount, e.at)
    BY <1>3 DEF Booked, IsBurn
  <2> QED
    BY <1>1, <2>1, DeductLike
<1>4. CASE ~IsMint(e) /\ ~IsBurn(e)
  <2>1. PICK d, f : /\ d = Deduct(b, e.from, e.amount, e.at)
                    /\ f = Deduct(c, e.from, e.amount, e.at)
    OBVIOUS
  <2>2. /\ Booked(b, e) = Add(d, e.to, e.amount, e.at)
        /\ Booked(c, e) = Add(f, e.to, e.amount, e.at)
    BY <1>4, <2>1 DEF Booked
  <2>3. BookOk(d) /\ BookOk(f) /\ Like(d, f)
    BY <1>1, <2>1, DeductHeld, DeductLike
  <2> QED
    BY <1>1, <2>2, <2>3, AddLike
<1> QED
  BY <1>2, <1>3, <1>4

\* The wallets an event adds are first seen at its time.
FirstSeen(b, c, at) ==
  \A a \in DOMAIN c : \/ a \in DOMAIN b /\ c[a].first = b[a].first
                      \/ c[a].first = at

LEMMA AddFirst ==
  ASSUME NEW b, BookOk(b), NEW a, NEW n \in Nat, NEW at \in 0..MaxTime
  PROVE  FirstSeen(b, Add(b, a, n, at), at)
<1>1. CASE a = Zero
  BY <1>1 DEF Add, FirstSeen
<1>2. CASE a # Zero
  <2>1. PICK c : c = Add(b, a, n, at)
    OBVIOUS
  <2>2. AddedTo(b, c, a, n, at)
    BY <1>2, <2>1, WalletAdded
  <2> QED
    BY <2>1, <2>2 DEF AddedTo, FirstSeen
<1> QED
  BY <1>1, <1>2

LEMMA DeductFirst ==
  ASSUME NEW b, BookOk(b), NEW a, NEW n \in Nat, NEW at \in 0..MaxTime
  PROVE  /\ DOMAIN Deduct(b, a, n, at) = DOMAIN b
         /\ \A x \in DOMAIN b : Deduct(b, a, n, at)[x].first = b[x].first
<1>1. CASE a \notin DOMAIN b
  BY <1>1 DEF Deduct
<1>2. CASE a \in DOMAIN b
  <2>1. PICK c : c = Deduct(b, a, n, at)
    OBVIOUS
  <2>2. /\ DOMAIN c = DOMAIN b /\ c[a].first = b[a].first
        /\ \A x \in DOMAIN b : x # a => c[x] = b[x]
    BY <1>2, <2>1, WalletDeducted
  <2> QED
    BY <2>1, <2>2
<1> QED
  BY <1>1, <1>2

LEMMA EventFirst ==
  ASSUME NEW b, BookOk(b), NEW e \in Entry, e.at \in 0..MaxTime
  PROVE  FirstSeen(b, Booked(b, e), e.at)
<1>1. e.amount \in Nat
  BY DEF Entry
<1>2. CASE IsMint(e)
  <2>1. Booked(b, e) = Add(b, e.to, e.amount, e.at)
    BY <1>2 DEF Booked, IsBurn
  <2> QED
    BY <1>1, <2>1, AddFirst
<1>3. PICK c : c = Deduct(b, e.from, e.amount, e.at)
  OBVIOUS
<1>4. /\ BookOk(c) /\ DOMAIN c = DOMAIN b
      /\ \A x \in DOMAIN b : c[x].first = b[x].first
  <2>1. BookOk(c)
    BY <1>1, <1>3, DeductHeld
  <2>2. DOMAIN c = DOMAIN b
    BY <1>1, <1>3, DeductFirst
  <2>3. \A x \in DOMAIN b : c[x].first = b[x].first
    BY <1>1, <1>3, DeductFirst
  <2> QED
    BY <2>1, <2>2, <2>3
<1>5. CASE IsBurn(e)
  <2>1. Booked(b, e) = c
    BY <1>3, <1>5 DEF Booked, IsBurn
  <2> QED
    BY <1>4, <2>1 DEF FirstSeen
<1>6. CASE ~IsMint(e) /\ ~IsBurn(e)
  <2>1. Booked(b, e) = Add(c, e.to, e.amount, e.at)
    BY <1>3, <1>6 DEF Booked
  <2>2. FirstSeen(c, Booked(b, e), e.at)
    BY <1>1, <1>4, <2>1, AddFirst
  <2> QED
    BY <1>4, <2>2 DEF FirstSeen
<1> QED
  BY <1>2, <1>5, <1>6

----------------------------------------------------------------------------
(* Holders: the log and the books.                                         *)

\* The first n events of s are those before time t.
UpToTime(s, n, t) == \A i \in 1..Len(s) : i <= n <=> s[i].at < t

\* Whoever held after the first n events is still in b, was first seen before
\* t, and holds or stopped since.
Remembered(s, n, b, t) ==
  \A a \in Holding(Replay(SubSeq(s, 1, n))) :
    a \in DOMAIN b /\ b[a].first < t /\ Stayed(b, a, t)

\* Whoever is in b was first seen by an event of s.
Logged(s, b) ==
  \A a \in DOMAIN b : \E i \in 1..Len(s) : b[a].first = s[i].at

LogInv ==
  /\ BookOk(Replay(log)) /\ Like(Replay(log), book)
  /\ Logged(log, book)
  /\ \A n \in 0..Len(log), t \in Int :
       UpToTime(log, n, t) => Remembered(log, n, book, t)

LEMMA PrefixOfAppend ==
  ASSUME NEW E, NEW s \in Seq(E), NEW e \in E, NEW n \in 0..Len(s)
  PROVE  /\ SubSeq(Append(s, e), 1, n) = SubSeq(s, 1, n)
         /\ SubSeq(s, 1, Len(s)) = s
         /\ Append(s, e) \in Seq(E) /\ Len(Append(s, e)) = Len(s) + 1
         /\ \A i \in 1..Len(s) : Append(s, e)[i] = s[i]
         /\ Append(s, e)[Len(s) + 1] = e
  OBVIOUS

LEMMA ProcessTransferLog ==
  ASSUME WalletsInv, BooksInv, LogInv, BooksInv',
         NEW t \in Transfers, NEW at \in 0..MaxTime, ProcessTransfer(t, at)
  PROVE  LogInv'
<1> DEFINE e == [kind |-> t.kind, from |-> t.from, to |-> t.to,
                 amount |-> t.amount, at |-> at]
<1>0. MaxTime \in Nat
  BY HoldersAssumption
<1>1. book' = Booked(book, e) /\ log' = Append(log, e)
  BY DEF ProcessTransfer
<1>2. e \in Entry /\ e.at = at
  BY <1>0, HoldersAssumption DEF Entry
<1> HIDE DEF e
<1>3. PICK s, l, b, c, n : /\ s = log /\ l = log' /\ b = book /\ c = book'
                           /\ n = Len(log)
  OBVIOUS
<1>4. /\ s \in Seq(Entry) /\ l \in Seq(Entry) /\ n = Len(s) /\ n \in Nat
      /\ Len(l) = n + 1 /\ l[n + 1] = e
      /\ \A i \in 1..n : l[i] = s[i]
  BY <1>1, <1>2, <1>3, PrefixOfAppend DEF WalletsInv
<1>5. /\ BookOk(b) /\ BookOk(c) /\ c = Booked(b, e)
      /\ \A x \in DOMAIN b : b[x].zero # Held => b[x].balance = 0
  BY <1>1, <1>3 DEF BooksInv, WalletsInv, WalletsOk
<1>6. /\ BookOk(Replay(s)) /\ Like(Replay(s), b)
      /\ Logged(s, b)
      /\ \A m \in 0..n, u \in Int : UpToTime(s, m, u) => Remembered(s, m, b, u)
  BY <1>3 DEF LogInv
<1>8. Replay(l) = Booked(Replay(s), e)
  BY <1>1, <1>3, <1>4, ReplayOneMore
<1>9. BookOk(Replay(l)) /\ Like(Replay(l), c)
  <2>1. BookOk(Booked(Replay(s), e))
    BY <1>0, <1>2, <1>6, EventHeld
  <2>2. Like(Booked(Replay(s), e), Booked(b, e))
    BY <1>0, <1>2, <1>5, <1>6, EventLike
  <2> QED
    BY <1>5, <1>8, <2>1, <2>2
<1>10. Logged(l, c)
  <2> SUFFICES ASSUME NEW a \in DOMAIN c
               PROVE  \E i \in 1..Len(l) : c[a].first = l[i].at
    BY DEF Logged
  <2>1. FirstSeen(b, c, at)
    BY <1>0, <1>2, <1>5, EventFirst
  <2>2. CASE a \in DOMAIN b /\ c[a].first = b[a].first
    <3>1. PICK i \in 1..n : b[a].first = s[i].at
      BY <1>4, <1>6, <2>2 DEF Logged
    <3>2. i \in 1..Len(l) /\ l[i] = s[i]
      BY <1>4
    <3> QED
      BY <2>2, <3>1, <3>2
  <2>3. CASE c[a].first = at
    <3>1. n + 1 \in 1..Len(l) /\ l[n + 1].at = at
      BY <1>2, <1>4
    <3> QED
      BY <2>3, <3>1
  <2> QED
    BY <2>1, <2>2, <2>3 DEF FirstSeen
<1>11. ASSUME NEW m \in 0..(n + 1), NEW u \in Int, UpToTime(l, m, u)
       PROVE  Remembered(l, m, c, u)
  <2>1. CASE m = n + 1
    <3>1. \A i \in 1..Len(l) : l[i].at < u
      <4>1. \A i \in 1..Len(l) : i <= m
        BY <1>4, <2>1
      <4> QED
        BY <1>11, <4>1 DEF UpToTime
    <3>2. SubSeq(l, 1, m) = l
      BY <1>4, <2>1
    <3>3. ASSUME NEW a \in Holding(Replay(l))
          PROVE  a \in DOMAIN c /\ c[a].first < u /\ Stayed(c, a, u)
      <4>1. a \in DOMAIN Replay(l) /\ Replay(l)[a].balance > 0
        BY <3>3 DEF Holding
      <4>2. a \in DOMAIN c /\ c[a].balance > 0
        BY <1>9, <4>1 DEF Like
      <4>3. PICK i \in 1..Len(l) : c[a].first = l[i].at
        BY <1>10, <4>2 DEF Logged
      <4>5. c[a].first < u
        BY <3>1, <4>3
      <4> QED
        BY <4>2, <4>5 DEF Stayed
    <3> QED
      BY <3>2, <3>3 DEF Remembered
  <2>2. CASE m \in 0..n
    <3>1. u <= at
      <4>1. n + 1 \in 1..Len(l) /\ ~(n + 1 <= m)
        BY <1>4, <2>2
      <4>2. ~(at < u)
        BY <1>2, <1>4, <1>11, <4>1 DEF UpToTime
      <4> QED
        BY <1>0, <4>2
    <3>2. UpToTime(s, m, u)
      <4>1. \A i \in 1..n : i \in 1..(n + 1)
        BY <1>4
      <4> QED
        BY <1>4, <1>11, <4>1 DEF UpToTime
    <3>3. SubSeq(l, 1, m) = SubSeq(s, 1, m)
      BY <1>1, <1>2, <1>3, <1>4, <2>2, PrefixOfAppend
    <3>4. Remembered(s, m, b, u)
      BY <1>6, <2>2, <3>2
    <3>5. Keeps(b, c, u)
      BY <1>0, <1>2, <1>5, <3>1, EventKeeps
    <3> QED
      BY <3>3, <3>4, <3>5 DEF Remembered, Keeps
  <2> QED
    BY <1>4, <2>1, <2>2
<1> QED
  BY <1>1, <1>3, <1>4, <1>9, <1>10, <1>11 DEF LogInv

\* What is technical plays no part in the log.
LEMMA TechnicalLog ==
  ASSUME LogInv, UNCHANGED log, Like(book, book')
  PROVE  LogInv'
<1>1. PICK s, b, c : s = log /\ b = book /\ c = book'
  OBVIOUS
<1>2. Like(b, c) /\ Like(Replay(s), b)
  BY <1>1 DEF LogInv
<1>3. Like(Replay(s), c)
  BY <1>2 DEF Like
<1>4. \A n, t : Remembered(s, n, b, t) => Remembered(s, n, c, t)
  BY <1>2 DEF Like, Remembered, Stayed
<1>5. Logged(s, c)
  BY <1>1, <1>2 DEF LogInv, Like, Logged
<1> QED
  BY <1>1, <1>3, <1>4, <1>5 DEF LogInv

LEMMA HoldersLogStep ==
  ASSUME WalletsInv, BooksInv, LogInv, BooksInv', HoldersNext
  PROVE  LogInv'
<1>0. \A a \in DOMAIN book : DOMAIN book[a] = WalletField
  BY DEF WalletsInv, WalletsOk
<1>1. ASSUME NEW t \in Transfers, NEW at \in 0..MaxTime,
             ProcessTransfer(t, at)
      PROVE  LogInv'
  BY <1>1, ProcessTransferLog
<1>2. ASSUME DOMAIN book' = DOMAIN book, UNCHANGED log,
             \A a \in DOMAIN book :
               book'[a] = book[a]
               \/ \E v : book'[a] = [book[a] EXCEPT !.technical = v]
      PROVE  LogInv'
  <2>1. PICK b, c : b = book /\ c = book'
    OBVIOUS
  <2>2. ASSUME NEW a \in DOMAIN b
        PROVE  /\ b[a].balance = c[a].balance /\ b[a].first = c[a].first
               /\ b[a].last = c[a].last /\ b[a].zero = c[a].zero
    <3>1. DOMAIN b[a] = WalletField
      BY <1>0, <2>1
    <3>2. CASE c[a] = b[a]
      BY <3>2
    <3>3. ASSUME NEW v, c[a] = [b[a] EXCEPT !.technical = v]
          PROVE  /\ b[a].balance = c[a].balance /\ b[a].first = c[a].first
                 /\ b[a].last = c[a].last /\ b[a].zero = c[a].zero
      BY <3>1, <3>3 DEF WalletField
    <3> QED
      BY <1>2, <2>1, <3>2, <3>3
  <2>3. Like(b, c)
    BY <1>2, <2>1, <2>2 DEF Like
  <2> QED
    BY <1>2, <2>1, <2>3, TechnicalLog
<1>3. ASSUME NEW a \in Markable, MarkTechnical(a) PROVE LogInv'
  BY <1>2, <1>3 DEF MarkTechnical
<1>4. ASSUME NEW now \in 0..MaxTime, Evaluate(now) PROVE LogInv'
  BY <1>2, <1>4 DEF Evaluate, Classified
<1> QED
  BY <1>1, <1>3, <1>4 DEF HoldersNext

LEMMA LogInit == EnginesInit => LogInv
<1> SUFFICES ASSUME EnginesInit PROVE LogInv
  OBVIOUS
<1>1. book = <<>> /\ log = <<>>
  BY DEF EnginesInit, HoldersInit
<1>2. DOMAIN book = {} /\ Len(log) = 0 /\ SubSeq(log, 1, 0) = <<>>
  BY <1>1
<1>3. Replay(log) = <<>> /\ Replay(SubSeq(log, 1, 0)) = <<>>
  BY <1>1, <1>2, ReplayNothing
<1>4. BookOk(<<>>) /\ Holding(<<>>) = {}
  BY FS_EmptySet DEF BookOk, Holding
<1> QED
  BY <1>1, <1>2, <1>3, <1>4 DEF LogInv, Like, Remembered, Logged

LEMMA LogInvariant == EnginesSpec => [](WalletsInv /\ BooksInv /\ LogInv)
<1>1. EnginesInit => WalletsInv /\ BooksInv /\ LogInv
  BY WalletsInit, BooksInit, LogInit
<1>2. WalletsInv /\ BooksInv /\ LogInv /\ [EnginesNext]_engineVars
        => (WalletsInv /\ BooksInv /\ LogInv)'
  <2> SUFFICES ASSUME WalletsInv, BooksInv, LogInv, [EnginesNext]_engineVars
               PROVE  WalletsInv' /\ BooksInv' /\ LogInv'
    OBVIOUS
  <2>1. WalletsInv'
    BY WalletsStep
  <2>2. CASE HoldersNext
    <3>1. BooksInv'
      BY <2>1, <2>2, HoldersBooksStep
    <3>2. LogInv'
      BY <2>2, <3>1, HoldersLogStep
    <3> QED
      BY <2>1, <3>1, <3>2
  <2>3. CASE UNCHANGED holderVars
    <3>1. BooksInv'
      BY <2>3, BooksStutter
    <3>2. LogInv'
      BY <2>3 DEF holderVars, LogInv, UpToTime, Remembered, Stayed, Logged
    <3> QED
      BY <2>1, <3>1, <3>2
  <2> QED
    BY <2>1, <2>2, <2>3 DEF EnginesNext, engineVars
<1> QED
  BY <1>1, <1>2, PTL DEF EnginesSpec

\* Whoever held after the events from before t holds since, or has left since.
LEMMA HeldBefore ==
  ASSUME WalletsInv, BooksInv, LogInv, NEW t \in Int, NEW m \in 0..Len(log),
         IsPast(m, t)
  PROVE  HoldersAfter(m) \subseteq
           (Holding(book) \ NewHolders(t)) \cup Exits(t)
<1>3. HoldersAfter(m) = Holding(Replay(SubSeq(log, 1, m)))
  BY DEF HoldersAfter, Replay
<1>4. Remembered(log, m, book, t)
  <2>1. UpToTime(log, m, t)
    BY DEF UpToTime, IsPast
  <2> QED
    BY <2>1 DEF LogInv
<1>5. ASSUME NEW a \in HoldersAfter(m)
      PROVE  a \in (Holding(book) \ NewHolders(t)) \cup Exits(t)
  <2>1. a \in DOMAIN book /\ book[a].first < t /\ Stayed(book, a, t)
    BY <1>3, <1>4 DEF Remembered
  <2>2. book[a].first \in Int
    BY <2>1, HoldersAssumption DEF BooksInv, BookOk, WalletType
  <2>3. ~(book[a].first >= t)
    BY <2>1, <2>2
  <2> QED
    BY <2>1, <2>3 DEF Stayed, Holding, NewHolders, Exits
<1> QED
  BY <1>5

\* The net growth of a window is at most the change of the number of holders
\* over it, whatever times the callers put on the events, as long as none from
\* before the window is processed after one from within it: the tracker may
\* miss a holder who came and left, never invent one (tracker.py 257-283 of
\* src/intelligence/holder).
THEOREM GrowthIsNotOverstated == EnginesSpec => []NetGrowthNotOverstated
<1>1. ASSUME WalletsInv, BooksInv, LogInv PROVE NetGrowthNotOverstated
  <2> SUFFICES ASSUME NEW now \in 0..MaxTime, NEW k \in 0..Len(log),
                      IsPast(k, now - Window)
               PROVE  Velocity(snapshots, now).net
                        <= Cardinality(Holding(book))
                           - Cardinality(HoldersAfter(k))
    BY DEF NetGrowthNotOverstated
  <2> DEFINE t == now - Window
             H == Holding(book)
             N == NewHolders(t)
             X == Exits(t)
             B == HoldersAfter(k)
  <2>1. t \in Int
    BY HoldersAssumption
  <2>2. /\ N \subseteq H /\ H \subseteq DOMAIN book /\ X \subseteq DOMAIN book
        /\ IsFiniteSet(DOMAIN book)
    BY <1>1 DEF NewHolders, Holding, Exits, BooksInv, BookOk
  <2>3. B \subseteq (H \ N) \cup X
    BY <1>1, <2>1, HeldBefore
  <2>4. Velocity(snapshots, now).net = Cardinality(N) - Cardinality(X)
    BY DEF Velocity
  <2> HIDE DEF t, H, N, X, B
  <2>6. IsFiniteSet(H) /\ IsFiniteSet(N) /\ IsFiniteSet(X)
        /\ IsFiniteSet(H \ N) /\ IsFiniteSet((H \ N) \cup X)
    <3>1. \A Q \in SUBSET DOMAIN book : IsFiniteSet(Q)
      BY <2>2, FS_Subset
    <3> QED
      BY <2>2, <3>1
  <2>7. IsFiniteSet(B) /\ Cardinality(B) <= Cardinality((H \ N) \cup X)
    BY <2>3, <2>6, FS_Subset
  <2>8. /\ Cardinality((H \ N) \cup X)
             = Cardinality(H \ N) + Cardinality(X)
               - Cardinality((H \ N) \cap X)
        /\ Cardinality(H \ N) = Cardinality(H) - Cardinality(H \cap N)
    BY <2>6, FS_Union, FS_Difference
  <2>9. H \cap N = N /\ IsFiniteSet((H \ N) \cap X)
    BY <2>2, <2>6, FS_Subset
  <2>10. /\ Cardinality(H) \in Nat /\ Cardinality(N) \in Nat
         /\ Cardinality(X) \in Nat /\ Cardinality(B) \in Nat
         /\ Cardinality((H \ N) \cap X) \in Nat
    BY <2>6, <2>7, <2>9, FS_CardinalityType
  <2>11. Cardinality(N) - Cardinality(X) <= Cardinality(H) - Cardinality(B)
    <3>1. PICK h, n, x, b, o : /\ h = Cardinality(H) /\ n = Cardinality(N)
                               /\ x = Cardinality(X) /\ b = Cardinality(B)
                               /\ o = Cardinality((H \ N) \cap X)
      OBVIOUS
    <3>2. /\ h \in Nat /\ n \in Nat /\ x \in Nat /\ b \in Nat /\ o \in Nat
          /\ b <= h - n + x - o
      BY <2>7, <2>8, <2>9, <2>10, <3>1
    <3>3. n - x <= h - b
      BY <3>2
    <3> QED
      BY <3>1, <3>3
  <2> QED
    BY <2>4, <2>11 DEF H, B
<1> QED
  BY <1>1, LogInvariant, PTL
----------------------------------------------------------------------------
(* Prices.                                                                 *)

\* Observations that a price is made of.
Priced(obs) == IsFiniteSet(obs) /\ \A o \in obs : o.price \in Nat \ {0}

LEMMA Extremes ==
  ASSUME NEW obs, Priced(obs), obs # {}
  PROVE  /\ Cheapest(obs) \in Nat \ {0} /\ Dearest(obs) \in Nat \ {0}
         /\ \A o \in obs : Cheapest(obs) <= o.price /\ o.price <= Dearest(obs)
         /\ \E o \in obs : o.price = Cheapest(obs)
         /\ \E o \in obs : o.price = Dearest(obs)
<1> DEFINE T == {s \in SUBSET obs : s = {} \/
                   \E a, b \in s : \A o \in s : a.price <= o.price
                                                /\ o.price <= b.price}
           P == {o.price : o \in obs}
<1>1. {} \in T
  OBVIOUS
<1>2. ASSUME NEW s \in SUBSET obs, NEW x \in obs \ s, s \in T
      PROVE  s \cup {x} \in T
  <2>1. CASE s = {}
    <3>1. x.price <= x.price
      BY DEF Priced
    <3> QED
      BY <2>1, <3>1
  <2>2. CASE s # {}
    <3>1. PICK a \in s, b \in s :
            \A o \in s : a.price <= o.price /\ o.price <= b.price
      BY <1>2, <2>2
    <3>2. x.price \in Nat /\ \A o \in s : o.price \in Nat
      BY DEF Priced
    <3>3. PICK c \in {a, x} : c.price <= a.price /\ c.price <= x.price
      BY <3>2
    <3>4. PICK d \in {b, x} : d.price >= b.price /\ d.price >= x.price
      BY <3>2
    <3>5. \A o \in s \cup {x} : c.price <= o.price /\ o.price <= d.price
      BY <3>1, <3>2, <3>3, <3>4
    <3> QED
      BY <3>3, <3>4, <3>5
  <2> QED
    BY <2>1, <2>2
<1> HIDE DEF T
<1>3. obs \in T
  BY <1>1, <1>2, SetInduct DEF Priced
<1>4. PICK a \in obs, b \in obs :
        \A o \in obs : a.price <= o.price /\ o.price <= b.price
  BY <1>3 DEF T
<1>5. a.price \in P /\ b.price \in P /\ P \subseteq Nat \ {0}
  BY DEF Priced
<1>6. \A p \in P : a.price <= p /\ b.price >= p
  BY <1>4, <1>5
<1>7. Min(P) \in P /\ \A p \in P : Min(P) <= p
  BY <1>5, <1>6 DEF Min
<1>8. Max(P) \in P /\ \A p \in P : Max(P) >= p
  BY <1>5, <1>6 DEF Max
<1>9. Cheapest(obs) = Min(P) /\ Dearest(obs) = Max(P)
  BY DEF Cheapest, Dearest
<1> QED
  BY <1>5, <1>7, <1>8, <1>9

LEMMA AcceptedSome ==
  ASSUME NEW obs, obs # {}
  PROVE  Accepted(obs) # {} /\ Accepted(obs) \subseteq obs
  BY DEF Accepted

LEMMA ValidPriced ==
  ASSUME NEW obs, IsFiniteSet(obs), \A o \in obs : o.price \in Int
  PROVE  Valid(obs) \subseteq obs /\ Priced(Valid(obs))
<1>1. Valid(obs) \in SUBSET obs /\ IsFiniteSet(Valid(obs))
  BY FS_Subset DEF Valid
<1> QED
  BY <1>1 DEF Valid, Priced

\* Of the prices in order, the i-th is one that i of them reach and fewer
\* stay below.
LEMMA RankedFacts ==
  ASSUME NEW obs, Priced(obs), NEW i \in 1..Cardinality(obs)
  PROVE  /\ Ranked(obs, i) \in Nat \ {0}
         /\ Cardinality({o \in obs : o.price < Ranked(obs, i)}) < i
         /\ Cardinality({o \in obs : o.price <= Ranked(obs, i)}) >= i
<1> DEFINE upTo(p) == {o \in obs : o.price <= p}
           below(p) == {o \in obs : o.price < p}
           few == {p \in Nat : Cardinality(upTo(p)) < i}
           Is(p) == Cardinality(below(p)) < i /\ Cardinality(upTo(p)) >= i
<1>1. /\ \A p : IsFiniteSet(upTo(p)) /\ Cardinality(upTo(p)) \in Nat
      /\ \A o \in obs : o.price \in Nat \ {0}
      /\ Cardinality(obs) \in Nat /\ i \in Nat /\ i >= 1
      /\ i <= Cardinality(obs) /\ obs # {}
  <2>1. IsFiniteSet(obs) /\ Cardinality(obs) \in Nat
    BY FS_CardinalityType DEF Priced
  <2>2. \A p : upTo(p) \in SUBSET obs
    OBVIOUS
  <2>3. \A p : IsFiniteSet(upTo(p)) /\ Cardinality(upTo(p)) \in Nat
    BY <2>1, <2>2, FS_Subset, FS_CardinalityType
  <2>4. i \in Nat /\ i >= 1 /\ i <= Cardinality(obs)
    BY <2>1
  <2>5. obs # {}
    BY <2>1, <2>4, FS_EmptySet
  <2> QED
    BY <2>1, <2>3, <2>4, <2>5 DEF Priced
<1>2. 0 \in few
  <2>1. upTo(0) = {}
    BY <1>1
  <2> QED
    BY <1>1, <2>1, FS_EmptySet
<1>3. Dearest(obs) \in Nat /\ Dearest(obs) \notin few
  <2>1. /\ Dearest(obs) \in Nat
        /\ \A o \in obs : o.price <= Dearest(obs)
    BY <1>1, Extremes
  <2>2. upTo(Dearest(obs)) = obs
    BY <2>1
  <2> QED
    BY <1>1, <2>1, <2>2
<1>4. PICK n \in Nat : n \in few /\ n + 1 \notin few
  <2> SUFFICES ASSUME \A n \in Nat : n \in few => n + 1 \in few PROVE FALSE
    OBVIOUS
  <2> HIDE DEF few
  <2>1. Nat \subseteq few
    BY <1>2, NatInduct
  <2> QED
    BY <1>3, <2>1
<1>5. PICK m \in Nat : m = n + 1
  OBVIOUS
<1>6. below(m) = upTo(n)
  BY <1>1, <1>5
<1>7. Cardinality(upTo(m)) \in Nat /\ Cardinality(upTo(n)) \in Nat
  BY <1>1
<1>8. Is(m)
  <2>1. Cardinality(below(m)) < i
    BY <1>4, <1>6
  <2>2. ~ (Cardinality(upTo(m)) < i)
    BY <1>4, <1>5
  <2> QED
    BY <1>1, <1>7, <2>1, <2>2
<1>9. m \in {o.price : o \in obs}
  <2> SUFFICES ASSUME \A o \in obs : o.price # m PROVE FALSE
    OBVIOUS
  <2>1. upTo(m) = upTo(n)
    BY <1>1, <1>5
  <2> QED
    BY <1>1, <1>4, <1>7, <1>8, <2>1
<1>10. Ranked(obs, i) = CHOOSE p \in {o.price : o \in obs} : Is(p)
  BY DEF Ranked
<1> HIDE DEF Is
<1>11. Ranked(obs, i) \in {o.price : o \in obs} /\ Is(Ranked(obs, i))
  BY <1>8, <1>9, <1>10
<1> QED
  BY <1>1, <1>11 DEF Is

\* The middle of the prices is within the range of all but one of them.
LEMMA MedianBetween ==
  ASSUME NEW obs, Priced(obs), NEW bad \in obs, Cardinality(obs) >= 3
  PROVE  LET good == obs \ {bad} IN
         /\ Median2(obs) \in Nat
         /\ 2 * Cheapest(good) <= Median2(obs)
         /\ Median2(obs) <= 2 * Dearest(good)
<1> DEFINE good == obs \ {bad}
           N == Cardinality(obs)
<1>1. /\ IsFiniteSet(obs) /\ N \in Nat /\ N >= 3
      /\ \A o \in obs : o.price \in Nat
      /\ Priced(good) /\ Cardinality(good) = N - 1 /\ good # {}
  <2>1. IsFiniteSet(obs) /\ N \in Nat
    BY FS_CardinalityType DEF Priced
  <2>2. IsFiniteSet(good) /\ Cardinality(good) = N - 1
    BY <2>1, FS_RemoveElement
  <2>3. good # {}
    BY <2>1, <2>2, FS_EmptySet
  <2> QED
    BY <2>1, <2>2, <2>3 DEF Priced
<1>2. /\ Cheapest(good) \in Nat /\ Dearest(good) \in Nat
      /\ \A o \in good : Cheapest(good) <= o.price /\ o.price <= Dearest(good)
  BY <1>1, Extremes
<1> HIDE DEF N
<1>3. ASSUME NEW i \in 2..(N - 1)
      PROVE  /\ Ranked(obs, i) \in Nat
             /\ Cheapest(good) <= Ranked(obs, i)
             /\ Ranked(obs, i) <= Dearest(good)
  <2> DEFINE r == Ranked(obs, i)
             low == {o \in obs : o.price <= r}
             under == {o \in obs : o.price < r}
  <2>1. i \in 1..N
    BY <1>1
  <2>2. r \in Nat /\ Cardinality(under) < i /\ Cardinality(low) >= i
    BY <2>1, RankedFacts DEF N
  <2> HIDE DEF r
  <2>3. /\ IsFiniteSet(low) /\ Cardinality(low) \in Nat
        /\ IsFiniteSet(under) /\ Cardinality(under) \in Nat
    <3>1. low \in SUBSET obs /\ under \in SUBSET obs
      OBVIOUS
    <3> QED
      BY <1>1, <3>1, FS_Subset, FS_CardinalityType
  <2>4. PICK o \in good : o.price <= r
    <3> SUFFICES ASSUME \A o \in good : ~ (o.price <= r) PROVE FALSE
      OBVIOUS
    <3>1. low \in SUBSET {bad}
      OBVIOUS
    <3>2. IsFiniteSet({bad}) /\ Cardinality({bad}) = 1
      BY FS_Singleton
    <3>3. Cardinality(low) <= 1
      BY <3>1, <3>2, FS_Subset
    <3> HIDE DEF low
    <3> QED
      BY <1>1, <2>2, <2>3, <3>3
  <2>5. PICK q \in good : q.price >= r
    <3> SUFFICES ASSUME \A q \in good : ~ (q.price >= r) PROVE FALSE
      OBVIOUS
    <3>1. good \in SUBSET under
      BY <1>1, <2>2
    <3>2. Cardinality(good) <= Cardinality(under)
      BY <2>3, <3>1, FS_Subset
    <3> HIDE DEF good, under
    <3> QED
      BY <1>1, <2>2, <2>3, <3>2
  <2>6. o.price \in Nat /\ q.price \in Nat
    BY <1>1
  <2>7. Cheapest(good) <= o.price /\ q.price <= Dearest(good)
    BY <1>2
  <2> HIDE DEF good
  <2>8. Cheapest(good) <= r /\ r <= Dearest(good)
    BY <1>2, <2>2, <2>4, <2>5, <2>6, <2>7
  <2> QED
    BY <2>2, <2>8 DEF r
<1> HIDE DEF good
<1>4. PICK mid \in Int : mid = N \div 2
  BY <1>1
<1>5. mid + 1 \in 2..(N - 1) /\ (N % 2 # 1 => mid \in 2..(N - 1))
  BY <1>1, <1>4
<1>6. Median2(obs) = IF N % 2 = 1 THEN 2 * Ranked(obs, mid + 1)
                     ELSE Ranked(obs, mid) + Ranked(obs, mid + 1)
  BY <1>4 DEF Median2, N
<1>7. CASE N % 2 = 1
  <2>1. PICK r \in Nat : /\ r = Ranked(obs, mid + 1)
                         /\ Cheapest(good) <= r /\ r <= Dearest(good)
    BY <1>3, <1>5
  <2>2. Median2(obs) = 2 * r
    BY <1>6, <1>7, <2>1
  <2> QED
    BY <1>2, <2>1, <2>2 DEF good
<1>8. CASE N % 2 # 1
  <2>1. PICK r \in Nat : /\ r = Ranked(obs, mid + 1)
                         /\ Cheapest(good) <= r /\ r <= Dearest(good)
    BY <1>3, <1>5
  <2>2. PICK s \in Nat : /\ s = Ranked(obs, mid)
                         /\ Cheapest(good) <= s /\ s <= Dearest(good)
    BY <1>3, <1>5, <1>8
  <2>3. Median2(obs) = s + r
    BY <1>6, <1>8, <2>1, <2>2
  <2> QED
    BY <1>2, <2>1, <2>2, <2>3 DEF good
<1> QED
  BY <1>7, <1>8

\* A price among those that are accepted, whatever one of them says.
LEMMA OneBadPrice ==
  ASSUME NEW obs, Priced(obs), NEW bad \in obs,
         Cardinality(obs \ {bad}) >= 2,
         4 * (Dearest(obs \ {bad}) - Cheapest(obs \ {bad}))
           <= Cheapest(obs \ {bad}),
         NEW p \in Cheapest(Accepted(obs))..Dearest(Accepted(obs))
  PROVE  /\ 4 * p <= 5 * Dearest(obs \ {bad})
         /\ 4 * p >= 3 * Cheapest(obs \ {bad})
<1> DEFINE good == obs \ {bad}
           near == {o \in obs : ~Outlier(o, obs)}
<1>1. /\ IsFiniteSet(obs) /\ Cardinality(obs) \in Nat /\ Cardinality(obs) >= 3
      /\ Priced(good) /\ good # {}
      /\ \A o \in obs : o.price \in Nat
  <2>1. IsFiniteSet(obs) /\ Cardinality(obs) \in Nat
    BY FS_CardinalityType DEF Priced
  <2>2. IsFiniteSet(good) /\ Cardinality(good) = Cardinality(obs) - 1
    BY <2>1, FS_RemoveElement
  <2>3. good # {}
    BY <2>2, FS_EmptySet
  <2> QED
    BY <2>1, <2>2, <2>3 DEF Priced
<1>2. /\ Cheapest(good) \in Nat /\ Dearest(good) \in Nat
      /\ \A o \in good : Cheapest(good) <= o.price /\ o.price <= Dearest(good)
  BY <1>1, Extremes
<1>3. /\ Median2(obs) \in Nat
      /\ 2 * Cheapest(good) <= Median2(obs)
      /\ Median2(obs) <= 2 * Dearest(good)
  BY <1>1, MedianBetween
<1>4. PICK c, d, m : c = Cheapest(good) /\ d = Dearest(good) /\ m = Median2(obs)
  OBVIOUS
<1>5. /\ c \in Nat /\ d \in Nat /\ m \in Nat /\ 4 * (d - c) <= c
      /\ 2 * c <= m /\ m <= 2 * d
  BY <1>2, <1>3, <1>4
<1>6. \A o \in obs : o \in near
                <=> 4 * (IF 2 * o.price - m < 0 THEN -(2 * o.price - m)
                         ELSE 2 * o.price - m) <= m
  BY <1>1, <1>4, <1>5 DEF Outlier
<1> HIDE DEF near
<1>7. \A o \in good : o \in near
  <2> SUFFICES ASSUME NEW o \in good PROVE o \in near
    OBVIOUS
  <2>1. PICK q \in Nat : q = o.price /\ c <= q /\ q <= d
    BY <1>1, <1>2, <1>4
  <2>2. 4 * (IF 2 * q - m < 0 THEN -(2 * q - m) ELSE 2 * q - m) <= m
    BY <1>5, <2>1
  <2> QED
    BY <1>6, <2>1, <2>2
<1>8. \A o \in near \cap obs : 4 * o.price <= 5 * d /\ 4 * o.price >= 3 * c
  <2> SUFFICES ASSUME NEW o \in near \cap obs
               PROVE  4 * o.price <= 5 * d /\ 4 * o.price >= 3 * c
    OBVIOUS
  <2>1. PICK q \in Nat : q = o.price
    BY <1>1
  <2>2. 4 * (IF 2 * q - m < 0 THEN -(2 * q - m) ELSE 2 * q - m) <= m
    BY <1>6, <2>1
  <2> QED
    BY <1>5, <2>1, <2>2
<1>9. Accepted(obs) = near
  <2>1. near # {}
    BY <1>1, <1>7
  <2> QED
    BY <1>1, <2>1 DEF Accepted, near
<1>10. near \in SUBSET obs /\ near # {}
  BY <1>1, <1>7 DEF near
<1>11. Priced(near)
  BY <1>1, <1>10, FS_Subset DEF Priced
<1>12. /\ Cheapest(near) \in Nat /\ Dearest(near) \in Nat
       /\ 4 * Dearest(near) <= 5 * d /\ 4 * Cheapest(near) >= 3 * c
  BY <1>8, <1>10, <1>11, Extremes
<1>13. 4 * p <= 5 * d /\ 4 * p >= 3 * c
  BY <1>5, <1>9, <1>12
<1> QED
  BY <1>4, <1>13

PricePoint ==
  [price : Nat, provenance : {e.observations : e \in MarketEvents},
   reliable : BOOLEAN]

\* What OneBadSource says of one recorded price.
Honest(point) ==
  \A bad \in Valid(point.provenance) :
    LET good == Valid(point.provenance) \ {bad} IN
    Cardinality(good) >= 2
    /\ 4 * (Dearest(good) - Cheapest(good)) <= Cheapest(good)
      => /\ 4 * point.price <= 5 * Dearest(good) + 2 * Grain
         /\ 4 * point.price + 2 * Grain >= 3 * Cheapest(good)

LEMMA HonestPrices ==
  ASSUME \A i \in 1..Len(prices) : Honest(prices[i]) PROVE OneBadSource
  BY DEF OneBadSource, Honest

\* A rounded price is a price, at most half a grain away.
LEMMA RoundedNear ==
  ASSUME NEW p \in Nat, NEW q \in Rounded(p)
  PROVE  q \in Nat /\ 2 * q <= 2 * p + Grain /\ 2 * p <= 2 * q + Grain
<1>1. Grain \in Nat \ {0}
  BY MarketAssumption
<1>2. PICK k : k = p \div Grain
  OBVIOUS
<1>3. k \in Nat
  BY <1>1, <1>2
<1>4. Grain * k \in Nat /\ Grain * (k + 1) \in Nat
  BY <1>1, <1>3
<1> QED
  BY <1>2, <1>4 DEF Rounded

LEMMA ReconciledPoint ==
  ASSUME NEW e \in MarketEvents, NEW history,
         NEW r \in Reconciled(e.observations, history)
  PROVE  \/ r.history = history
         \/ \E point \in PricePoint : Honest(point)
                                      /\ r.history = Append(history, point)
<1> DEFINE obs == e.observations
           taken == Accepted(Valid(obs))
<1>1. CASE Valid(obs) = {}
  BY <1>1 DEF Reconciled
<1>2. CASE Valid(obs) # {}
  <2>1. Valid(obs) \subseteq obs /\ Priced(Valid(obs))
    BY MarketAssumption, ValidPriced
  <2>2. taken # {} /\ taken \in SUBSET Valid(obs)
    BY <1>2, AcceptedSome
  <2>3. Priced(taken)
    BY <2>1, <2>2, FS_Subset DEF Priced
  <2>4. Cheapest(taken) \in Nat \ {0} /\ Dearest(taken) \in Nat \ {0}
    BY <2>2, <2>3, Extremes
  <2>5. \A p : Reliable(taken, p, history) \in BOOLEAN
    BY DEF Reliable
  <2> DEFINE Entered(p, q) ==
        [price |-> q,
         history |->
           Append(history, [price |-> q, provenance |-> obs,
                            reliable |-> Reliable(taken, p, history)])]
  <2>0. PICK p \in Cheapest(taken)..Dearest(taken) :
          r \in {Entered(p, q) : q \in Rounded(p)}
    BY <1>2, Zenon DEF Reconciled
  <2>6. PICK q \in Rounded(p) : r = Entered(p, q)
    BY <2>0
  <2>7. PICK point : point = [price |-> q, provenance |-> obs,
                              reliable |-> Reliable(taken, p, history)]
    OBVIOUS
  <2>8. p \in Nat /\ q \in Nat
        /\ 2 * q <= 2 * p + Grain /\ 2 * p <= 2 * q + Grain
    BY <2>4, RoundedNear
  <2>9. point \in PricePoint /\ point.price = q /\ point.provenance = obs
    BY <2>5, <2>7, <2>8 DEF PricePoint
  <2>10. Honest(point)
    <3> SUFFICES ASSUME NEW bad \in Valid(obs),
                        Cardinality(Valid(obs) \ {bad}) >= 2,
                        4 * (Dearest(Valid(obs) \ {bad})
                             - Cheapest(Valid(obs) \ {bad}))
                          <= Cheapest(Valid(obs) \ {bad})
                 PROVE  /\ 4 * q <= 5 * Dearest(Valid(obs) \ {bad}) + 2 * Grain
                        /\ 4 * q + 2 * Grain >= 3 * Cheapest(Valid(obs) \ {bad})
      BY <2>9 DEF Honest
    <3>1. /\ 4 * p <= 5 * Dearest(Valid(obs) \ {bad})
          /\ 4 * p >= 3 * Cheapest(Valid(obs) \ {bad})
      BY <2>1, OneBadPrice
    <3>2. /\ Dearest(Valid(obs) \ {bad}) \in Nat
          /\ Cheapest(Valid(obs) \ {bad}) \in Nat
      <4>1. Priced(Valid(obs) \ {bad})
        BY <2>1, FS_Subset DEF Priced
      <4>2. Valid(obs) \ {bad} # {}
        BY FS_EmptySet
      <4> QED
        BY <4>1, <4>2, Extremes
    <3>3. Grain \in Nat
      BY MarketAssumption
    <3> QED
      BY <2>8, <3>1, <3>2, <3>3
  <2>11. r.history = Append(history, point)
    BY <2>6, <2>7
  <2> QED
    BY <2>9, <2>10, <2>11
<1> QED
  BY <1>1, <1>2

----------------------------------------------------------------------------
(* Liquidity.                                                              *)

LEMMA TotalIsSum ==
  ASSUME NEW ps, IsFiniteSet(DOMAIN ps)
  PROVE  TotalLiquidity(ps)
           = Sum([k \in DOMAIN ps |-> ps[k].liquidity], DOMAIN ps)
<1> DEFINE S == DOMAIN ps
           v == [k \in S |-> ps[k].liquidity]
           g == CHOOSE g : g = [s \in SUBSET S |->
                  IF s = {} THEN 0
                  ELSE ps[CHOOSE x \in s : TRUE].liquidity
                       + g[s \ {CHOOSE x \in s : TRUE}]]
<1>1. TotalLiquidity(ps) = g[S]
  BY DEF TotalLiquidity, MapThenSumSet, MapThenFoldSet
<1>2. \E h : h = [s \in SUBSET S |->
                  IF s = {} THEN 0
                  ELSE ps[CHOOSE x \in s : TRUE].liquidity
                       + h[s \ {CHOOSE x \in s : TRUE}]]
  <2>1. PICK h : IsSum(h, v, S)
    BY SumExists
  <2>2. \A s \in SUBSET S : s # {} => v[Picked(s)] = ps[Picked(s)].liquidity
    BY PickedIn
  <2>3. h = [s \in SUBSET S |->
               IF s = {} THEN 0
               ELSE ps[Picked(s)].liquidity + h[s \ {Picked(s)}]]
    BY <2>1, <2>2 DEF IsSum, Unfolded
  <2> QED
    BY <2>3, Zenon DEF Picked
<1>3. g = [s \in SUBSET S |->
             IF s = {} THEN 0
             ELSE ps[CHOOSE x \in s : TRUE].liquidity
                  + g[s \ {CHOOSE x \in s : TRUE}]]
  BY <1>2
<1> HIDE DEF g
<1>4. g = [s \in SUBSET S |->
             IF s = {} THEN 0
             ELSE ps[Picked(s)].liquidity + g[s \ {Picked(s)}]]
  BY <1>3, Zenon DEF Picked
<1>5. \A s \in SUBSET S : s # {} => v[Picked(s)] = ps[Picked(s)].liquidity
  BY PickedIn
<1>6. IsSum(g, v, S)
  BY <1>4, <1>5 DEF IsSum, Unfolded
<1> HIDE DEF v
<1>7. g[S] = Sum(v, S)
  BY <1>6, SumOf
<1> QED
  BY <1>1, <1>7 DEF v

PoolsOk ==
  /\ IsFiniteSet(DOMAIN pools) /\ DOMAIN pools \subseteq PoolId
  /\ \A k \in DOMAIN pools : pools[k].liquidity \in Nat

LEMMA TotalNat ==
  ASSUME NEW ps, IsFiniteSet(DOMAIN ps),
         \A k \in DOMAIN ps : ps[k].liquidity \in Nat
  PROVE  TotalLiquidity(ps) \in Nat
  BY TotalIsSum, SumNat

\* The last analysis measured the pools as they are, unless nobody ever saw
\* a pool or asked for one, or the evaluation of the last one raised.
AnalysedIsCurrent ==
  \/ unread
  \/ analysed = TotalLiquidity(pools)
  \/ DOMAIN pools = {} /\ analysed = NotAnalysed

\* What DropRaised says of a step.
DropSeen ==
  TotalLiquidity(pools) > 0 /\ ~unread /\ ~unread'
  /\ 100 * TotalLiquidity(pools') <= 80 * TotalLiquidity(pools)
    => "SHARP_LIQUIDITY_DROP" \in raised'

MarketInv ==
  /\ PoolsOk /\ AnalysedIsCurrent
  /\ analysed \in {NotAnalysed} \cup Nat /\ unread \in BOOLEAN
  /\ raised \subseteq RiskType /\ marketCalls \in 0..MaxMarketEvents
  /\ prices \in Seq(PricePoint)
  /\ \A i \in 1..Len(prices) : Honest(prices[i])
  /\ SupplyInv

LEMMA MarketTyped == MarketInv => MarketTypeOK
<1> SUFFICES ASSUME MarketInv PROVE MarketTypeOK
  OBVIOUS
<1>1. \A i \in 1..Len(prices) : prices[i].price \in Nat
  <2> SUFFICES ASSUME NEW i \in 1..Len(prices) PROVE prices[i].price \in Nat
    OBVIOUS
  <2>1. prices[i] \in PricePoint
    BY DEF MarketInv
  <2> QED
    BY <2>1 DEF PricePoint
<1> QED
  BY <1>1
     DEF MarketInv, MarketTypeOK, PoolsOk, SupplyInv, Breakdown

LEMMA PricesAppended ==
  ASSUME MarketInv, NEW e \in MarketEvents,
         NEW r \in Reconciled(e.observations, prices)
  PROVE  /\ r.history \in Seq(PricePoint)
         /\ \A i \in 1..Len(r.history) : Honest(r.history[i])
<1>1. CASE r.history = prices
  BY <1>1 DEF MarketInv
<1>2. CASE r.history # prices
  <2>1. PICK point \in PricePoint :
          Honest(point) /\ r.history = Append(prices, point)
    BY <1>2, ReconciledPoint
  <2>2. PICK h : h = r.history
    OBVIOUS
  <2>3. /\ h \in Seq(PricePoint) /\ Len(h) = Len(prices) + 1
        /\ h[Len(prices) + 1] = point
        /\ \A i \in 1..Len(prices) : h[i] = prices[i]
    BY <2>1, <2>2 DEF MarketInv
  <2>4. \A i \in 1..Len(h) : i \in 1..Len(prices) \/ i = Len(prices) + 1
    BY <2>3 DEF MarketInv
  <2>5. \A i \in 1..Len(h) : Honest(h[i])
    BY <2>1, <2>3, <2>4 DEF MarketInv
  <2> QED
    BY <2>2, <2>3, <2>5
<1> QED
  BY <1>1, <1>2

\* The pool of an event is put among the others.
LEMMA PoolPut ==
  ASSUME PoolsOk, NEW q, q.id \in PoolId, q.liquidity \in Nat, NEW now,
         now = Put(pools, q.id, q)
  PROVE  /\ IsFiniteSet(DOMAIN now) /\ DOMAIN now \subseteq PoolId
         /\ \A k \in DOMAIN now : now[k].liquidity \in Nat
<1>1. DOMAIN now = DOMAIN pools \cup {q.id}
  BY DEF Put
<1>2. \A k \in DOMAIN pools \cup {q.id} :
        now[k] = IF k = q.id THEN q ELSE pools[k]
  BY DEF Put
<1>3. IsFiniteSet(DOMAIN now)
  BY <1>1, FS_AddElement DEF PoolsOk
<1> QED
  BY <1>1, <1>2, <1>3 DEF PoolsOk

LEMMA MarketEventStep ==
  ASSUME MarketInv, NEW e \in MarketEvents, MarketEvent(e)
  PROVE  MarketInv' /\ DropSeen
<1> DEFINE priced == e.observations # {}
           before == IF priced THEN TotalLiquidity(pools) ELSE analysed
<1>1. PICK r \in Reconciled(e.observations, prices) :
        /\ marketCalls < MaxMarketEvents
        /\ prices' = r.history
        /\ PoolPart(e, before)
        /\ unread' = IF e.pool # None THEN ~e.evaluable ELSE unread /\ ~priced
        /\ marketCalls' = marketCalls + 1
  BY DEF MarketEvent, PoolsAtPrice
<1>2. SupplyInv'
  BY MarketSupplyStep DEF MarketInv, MarketNext
<1>4. e.pool = None => pools' = pools /\ analysed' = before /\ raised' = {}
  BY <1>1 DEF PoolPart
<1>5. e.pool # None =>
        /\ pools' = Put(pools, e.pool.id, e.pool)
        /\ IF e.evaluable
           THEN /\ analysed' = TotalLiquidity(pools')
                /\ raised' = Risks(pools', before, e.price, e.largest)
           ELSE analysed' = before /\ raised' = {}
  BY <1>1 DEF PoolPart
<1>6. PoolsOk'
  <2>1. CASE e.pool = None
    BY <1>4, <2>1 DEF MarketInv, PoolsOk
  <2>2. CASE e.pool # None
    <3>1. e.pool.id \in PoolId /\ e.pool.liquidity \in Nat
      BY <2>2, MarketAssumption DEF None
    <3>2. pools' = Put(pools, e.pool.id, e.pool)
      BY <1>5, <2>2
    <3> QED
      BY <3>1, <3>2, PoolPut DEF MarketInv, PoolsOk
  <2> QED
    BY <2>1, <2>2
<1>7. TotalLiquidity(pools) \in Nat /\ TotalLiquidity(pools') \in Nat
  <2>1. TotalLiquidity(pools) \in Nat
    BY TotalNat DEF MarketInv, PoolsOk
  <2>2. PICK ps : ps = pools'
    OBVIOUS
  <2>3. TotalLiquidity(ps) \in Nat
    BY <1>6, <2>2, TotalNat DEF PoolsOk
  <2> QED
    BY <2>1, <2>2, <2>3
<1>8. before \in {NotAnalysed} \cup Nat
  BY <1>7 DEF MarketInv
<1>9. analysed' \in {NotAnalysed} \cup Nat
  BY <1>4, <1>5, <1>7, <1>8
<1>10. unread' \in BOOLEAN
  BY <1>1, MarketAssumption DEF MarketInv
<1>11. AnalysedIsCurrent'
  <2>1. CASE e.pool = None
    BY <1>1, <1>4, <2>1 DEF MarketInv, AnalysedIsCurrent
  <2>2. CASE e.pool # None
    BY <1>1, <1>5, <2>2 DEF AnalysedIsCurrent
  <2> QED
    BY <2>1, <2>2
<1>12. /\ r.history \in Seq(PricePoint)
       /\ \A i \in 1..Len(r.history) : Honest(r.history[i])
  BY PricesAppended
<1>13. raised' \subseteq RiskType
  <2>1. Risks(pools', before, e.price, e.largest) \subseteq RiskType
    BY DEF Risks
  <2> QED
    BY <1>4, <1>5, <2>1
<1>14. marketCalls' \in 0..MaxMarketEvents
  BY <1>1, MarketAssumption DEF MarketInv
<1>15. MarketInv'
  BY <1>1, <1>2, <1>6, <1>9, <1>10, <1>11, <1>12, <1>13, <1>14
     DEF MarketInv, Honest
<1>16. DropSeen
  <2> SUFFICES ASSUME TotalLiquidity(pools) > 0, ~unread, ~unread',
                      100 * TotalLiquidity(pools') <= 80 * TotalLiquidity(pools)
               PROVE  "SHARP_LIQUIDITY_DROP" \in raised'
    BY DEF DropSeen
  <2>1. e.pool # None
    <3> SUFFICES ASSUME e.pool = None PROVE FALSE
      OBVIOUS
    <3>1. pools' = pools
      BY <1>4
    <3> QED
      BY <1>7, <3>1
  <2>2. before = TotalLiquidity(pools)
    <3> SUFFICES ASSUME ~priced PROVE analysed = TotalLiquidity(pools)
      OBVIOUS
    <3>1. DOMAIN pools = {} => TotalLiquidity(pools) = 0
      BY TotalIsSum, SumEmpty, FS_EmptySet
    <3> QED
      BY <3>1 DEF MarketInv, AnalysedIsCurrent
  <2>3. raised' = Risks(pools', before, e.price, e.largest)
    BY <1>1, <1>5, <2>1
  <2> QED
    BY <2>2, <2>3 DEF Risks, RiskType
<1> QED
  BY <1>15, <1>16

LEMMA MarketStep ==
  ASSUME MarketInv, MarketNext
  PROVE  MarketInv' /\ DropSeen
<1>0. SupplyInv'
  BY MarketSupplyStep DEF MarketInv
<1>1. TotalLiquidity(pools) \in Nat
  BY TotalNat DEF MarketInv, PoolsOk
<1>2. pools' = pools => DropSeen
  BY <1>1 DEF DropSeen
<1>3. CASE FullIntelligence
  <2>1. MarketInv'
    BY <1>0, <1>1, <1>3
       DEF FullIntelligence, MarketInv, PoolsOk, AnalysedIsCurrent, Honest
  <2> QED
    BY <1>2, <1>3, <2>1 DEF FullIntelligence
<1>4. CASE \E s \in Breakdowns : SetSupplyBreakdown(s)
  <2>1. PICK s \in Breakdowns : SetSupplyBreakdown(s)
    BY <1>4
  <2>2. marketCalls' \in 0..MaxMarketEvents
    BY <2>1, MarketAssumption DEF SetSupplyBreakdown, MarketInv
  <2>3. MarketInv'
    BY <1>0, <2>1, <2>2
       DEF SetSupplyBreakdown, MarketInv, PoolsOk, AnalysedIsCurrent, Honest
  <2> QED
    BY <1>2, <2>1, <2>3 DEF SetSupplyBreakdown
<1> QED
  BY <1>3, <1>4, MarketEventStep DEF MarketNext

LEMMA MarketStutter ==
  ASSUME MarketInv, UNCHANGED marketVars
  PROVE  MarketInv' /\ DropSeen
<1>1. TotalLiquidity(pools) \in Nat
  BY TotalNat DEF MarketInv, PoolsOk
<1>2. DropSeen
  BY <1>1 DEF marketVars, DropSeen
<1>3. MarketInv'
  BY DEF marketVars, MarketInv, PoolsOk, AnalysedIsCurrent, Honest, SupplyInv,
         SupplyAccounted
<1> QED
  BY <1>2, <1>3

LEMMA MarketInitial == EnginesInit => MarketInv
<1> SUFFICES ASSUME EnginesInit PROVE MarketInv
  OBVIOUS
<1>1. /\ pools = <<>> /\ analysed = NotAnalysed /\ raised = {}
      /\ unread = FALSE /\ prices = <<>> /\ marketCalls = 0
  BY DEF EnginesInit, MarketInit
<1>2. SupplyInv
  BY DEF EnginesInit, MarketInit, DefaultBreakdown, SupplyInv,
         SupplyAccounted, Breakdown
<1>3. DOMAIN pools = {} /\ Len(prices) = 0
  BY <1>1
<1>4. PoolsOk /\ AnalysedIsCurrent
  BY <1>1, <1>3, FS_EmptySet DEF PoolsOk, AnalysedIsCurrent
<1>5. 0 \in 0..MaxMarketEvents
  BY MarketAssumption
<1>6. prices \in Seq(PricePoint) /\ \A i \in 1..Len(prices) : Honest(prices[i])
  BY <1>1, <1>3
<1>7. analysed \in {NotAnalysed} \cup Nat /\ unread \in BOOLEAN
      /\ raised \subseteq RiskType /\ marketCalls \in 0..MaxMarketEvents
  BY <1>1, <1>5
<1> QED
  BY <1>2, <1>4, <1>6, <1>7 DEF MarketInv

LEMMA MarketInvariant == EnginesSpec => []MarketInv
<1>1. MarketInv /\ [EnginesNext]_engineVars => MarketInv'
  BY MarketStep, MarketStutter DEF EnginesNext, engineVars
<1> QED
  BY <1>1, MarketInitial, PTL DEF EnginesSpec

\* A price that was recorded is worth what most of its sources say: one
\* source that lies moves the median, but never out of the range of the
\* others by more than a quarter and the rounding to eight decimals
\* (price_engine.py 82-118 and 181 of src/market_data).
THEOREM PricesOutvoteOneSource == EnginesSpec => []OneBadSource
<1>1. MarketInv => OneBadSource
  BY HonestPrices DEF MarketInv
<1> QED
  BY <1>1, MarketInvariant, PTL

\* A drop of the liquidity never passes unseen, whatever was analysed in
\* between, but for pools whose evaluation raised (liquidity_engine.py 106-225
\* of src/market_data, market.py 83-89 of src/workflows).
THEOREM DropNeverMissed == EnginesSpec => DropRaised
<1>1. MarketInv /\ [EnginesNext]_engineVars => [DropSeen]_marketVars
  BY MarketStep, MarketStutter DEF EnginesNext, engineVars
<1>2. DropSeen =>
        (TotalLiquidity(pools) > 0 /\ ~unread /\ ~unread'
         /\ 100 * TotalLiquidity(pools') <= 80 * TotalLiquidity(pools)
           => "SHARP_LIQUIDITY_DROP" \in raised')
  BY DEF DropSeen
<1> QED
  BY <1>1, <1>2, MarketInvariant, PTL DEF EnginesSpec, DropRaised
----------------------------------------------------------------------------
(* Security.                                                               *)

CodeType ==
  [named : SUBSET Permission, claimed : SUBSET Permission,
   hints : SUBSET STRING, source : STRING,
   slot : STRING, slotAdmin : STRING, admin : STRING]
OwnerType ==
  [renounced : BOOLEAN, governance : STRING, bypasses : SUBSET Bypass]
SimulationType ==
  [faults : SUBSET Fault, buyTax : Int, sellTax : Int,
   seenBuy : Int, seenSell : Int]
LpType == [known : BOOLEAN, locked : BOOLEAN, percent : Nat, days : Nat]
SeenType ==
  [threats : SUBSET Threat, habits : SUBSET Habit, lp : LpType,
   holders : [known : BOOLEAN, top10 : Nat, dev : Nat]]

\* Whatever can be assessed.
Token ==
  [code : CodeType, owner : OwnerType, sim : SimulationType, seen : SeenType]

LEMMA PermissionsRiskGrows ==
  ASSUME NEW p, NEW q, p \subseteq q
  PROVE  /\ PermissionsRisk(p) \in Int /\ PermissionsRisk(q) \in Int
         /\ PermissionsRisk(p) <= PermissionsRisk(q)
<1> DEFINE W == DOMAIN PermissionWeight
           counted(s) == (s \cup (IF {"blacklist", "freeze"} \cap s = {} THEN {}
                                  ELSE {"restrain"})) \cap W
           total(s) == Sum(PermissionWeight, counted(s))
<1>1. /\ W = {"mint", "modify_balances", "restrain", "alter_fees",
              "upgrade_logic"}
      /\ \A x \in W : PermissionWeight[x] \in Nat
  BY DEF PermissionWeight
<1>2. IsFiniteSet(W)
  <2>1. IsFiniteSet({"mint"})
    BY FS_Singleton
  <2>2. IsFiniteSet({"mint"} \cup {"modify_balances"})
    BY <2>1, FS_AddElement
  <2>3. IsFiniteSet({"mint"} \cup {"modify_balances"} \cup {"restrain"})
    BY <2>2, FS_AddElement
  <2>4. IsFiniteSet({"mint"} \cup {"modify_balances"} \cup {"restrain"}
                    \cup {"alter_fees"})
    BY <2>3, FS_AddElement
  <2>5. IsFiniteSet({"mint"} \cup {"modify_balances"} \cup {"restrain"}
                    \cup {"alter_fees"} \cup {"upgrade_logic"})
    BY <2>4, FS_AddElement
  <2>6. W = {"mint"} \cup {"modify_balances"} \cup {"restrain"}
                    \cup {"alter_fees"} \cup {"upgrade_logic"}
    BY <1>1
  <2> QED
    BY <2>5, <2>6
<1>3. \A s : PermissionsRisk(s) = Min({100, total(s)})
  BY DEF PermissionsRisk, Sum
<1>4. counted(p) \in SUBSET counted(q) /\ counted(q) \in SUBSET W
  OBVIOUS
<1> HIDE DEF counted, W
<1>5. /\ IsFiniteSet(counted(q))
      /\ \A x \in counted(q) : PermissionWeight[x] \in Nat
  BY <1>1, <1>2, <1>4, FS_Subset
<1>6. total(p) <= total(q)
  BY <1>4, <1>5, SumGrows
<1>7. total(q) \in Nat
  BY <1>5, SumNat
<1>8. total(p) \in Nat
  <2>1. /\ IsFiniteSet(counted(p))
        /\ \A x \in counted(p) : PermissionWeight[x] \in Nat
    BY <1>4, <1>5, FS_Subset
  <2> QED
    BY <2>1, SumNat
<1> HIDE DEF total
<1>9. PICK a \in Nat, b \in Nat : a = total(p) /\ b = total(q) /\ a <= b
  BY <1>6, <1>7, <1>8
<1>10. /\ Min({100, a}) = IF 100 <= a THEN 100 ELSE a
       /\ Min({100, b}) = IF 100 <= b THEN 100 ELSE b
  BY MinOfTwo
<1>11. PermissionsRisk(p) = Min({100, a}) /\ PermissionsRisk(q) = Min({100, b})
  BY <1>3, <1>9
<1> QED
  BY <1>9, <1>10, <1>11

LEMMA HabitRiskGrows ==
  ASSUME NEW h \in SUBSET Habit, NEW k \in SUBSET Habit, h \subseteq k
  PROVE  /\ HabitRisk(h) \in Nat /\ HabitRisk(k) \in Nat
         /\ HabitRisk(h) <= HabitRisk(k)
<1>1. \A x \in Habit : HabitWeight[x] \in Nat
  BY DEF Habit, HabitWeight
<1>2. IsFiniteSet(Habit)
  <2>1. IsFiniteSet({"mixer"})
    BY FS_Singleton
  <2>2. IsFiniteSet({"mixer"} \cup {"fresh_funding"})
    BY <2>1, FS_AddElement
  <2>3. IsFiniteSet({"mixer"} \cup {"fresh_funding"} \cup {"sends_to_cex"})
    BY <2>2, FS_AddElement
  <2>4. Habit = {"mixer"} \cup {"fresh_funding"} \cup {"sends_to_cex"}
    BY DEF Habit
  <2> QED
    BY <2>3, <2>4
<1>3. /\ IsFiniteSet(h) /\ \A x \in h : HabitWeight[x] \in Nat
      /\ IsFiniteSet(k) /\ \A x \in k : HabitWeight[x] \in Nat
      /\ h \in SUBSET k
  BY <1>1, <1>2, FS_Subset
<1>4. Sum(HabitWeight, h) <= Sum(HabitWeight, k)
  BY <1>3, SumGrows
<1>5. Sum(HabitWeight, h) \in Nat /\ Sum(HabitWeight, k) \in Nat
  BY <1>3, SumNat
<1>6. \A s : HabitRisk(s) = Sum(HabitWeight, s)
  BY DEF HabitRisk, Sum
<1> QED
  BY <1>4, <1>5, <1>6

\* y is the token x, with no finding less.
NoBetter(x, y) ==
  /\ /\ x.code.named \subseteq y.code.named
     /\ y.code.claimed = x.code.claimed /\ y.code.hints = x.code.hints
     /\ y.code.source = x.code.source /\ y.code.slot = x.code.slot
     /\ y.code.slotAdmin = x.code.slotAdmin /\ y.code.admin = x.code.admin
  /\ y.owner.renounced = x.owner.renounced
  /\ y.owner.governance = x.owner.governance
  /\ x.owner.bypasses \subseteq y.owner.bypasses
  /\ /\ x.sim.faults \subseteq y.sim.faults
     /\ y.sim.buyTax = x.sim.buyTax /\ y.sim.sellTax = x.sim.sellTax
     /\ y.sim.seenBuy = x.sim.seenBuy /\ y.sim.seenSell = x.sim.seenSell
  /\ /\ x.seen.threats \subseteq y.seen.threats
     /\ x.seen.habits \subseteq y.seen.habits
     /\ y.seen.lp.known = x.seen.lp.known
     /\ y.seen.lp.locked => x.seen.lp.locked
     /\ y.seen.lp.percent = x.seen.lp.percent
     /\ y.seen.lp.days = x.seen.lp.days
     /\ y.seen.holders = x.seen.holders

LEMMA WorseIsNoBetter ==
  ASSUME NEW x \in Token, NEW y \in Worse(x)
  PROVE  y \in Token /\ NoBetter(x, y)
<1>0. /\ x.code \in CodeType /\ x.owner \in OwnerType
      /\ x.sim \in SimulationType /\ x.seen \in SeenType
      /\ x = [code |-> x.code, owner |-> x.owner, sim |-> x.sim,
              seen |-> x.seen]
  BY DEF Token
<1>1. ASSUME NEW p \in Permission, y = [x EXCEPT !.code.named = @ \cup {p}]
      PROVE  y \in Token /\ NoBetter(x, y)
  <2>1. PICK c : c = [x.code EXCEPT !.named = @ \cup {p}]
    OBVIOUS
  <2>2. /\ c \in CodeType /\ x.code.named \subseteq c.named
        /\ c.claimed = x.code.claimed /\ c.hints = x.code.hints
        /\ c.source = x.code.source /\ c.slot = x.code.slot
        /\ c.slotAdmin = x.code.slotAdmin /\ c.admin = x.code.admin
    BY <1>0, <2>1 DEF CodeType
  <2>3. y = [x EXCEPT !.code = c]
    BY <1>0, <1>1, <2>1
  <2>4. /\ y \in Token /\ y.code = c /\ y.owner = x.owner /\ y.sim = x.sim
        /\ y.seen = x.seen
    BY <1>0, <2>2, <2>3 DEF Token
  <2> QED
    BY <2>2, <2>4 DEF NoBetter
<1>2. ASSUME y = [x EXCEPT !.owner.bypasses = @ \cup {"role"}]
      PROVE  y \in Token /\ NoBetter(x, y)
  <2>1. PICK o : o = [x.owner EXCEPT !.bypasses = @ \cup {"role"}]
    OBVIOUS
  <2>0. "role" \in Bypass
    BY DEF Bypass
  <2> DEFINE b == x.owner.bypasses \cup {"role"}
  <2>b. b \in SUBSET Bypass /\ o = [x.owner EXCEPT !.bypasses = b]
    BY <1>0, <2>0, <2>1 DEF OwnerType
  <2> HIDE DEF b
  <2>2. /\ o \in OwnerType /\ o.renounced = x.owner.renounced
        /\ o.governance = x.owner.governance
        /\ x.owner.bypasses \subseteq o.bypasses
    BY <1>0, <2>b DEF OwnerType, b
  <2>3. y = [x EXCEPT !.owner = o]
    BY <1>0, <1>2, <2>1
  <2>4. /\ y \in Token /\ y.code = x.code /\ y.owner = o /\ y.sim = x.sim
        /\ y.seen = x.seen
    BY <1>0, <2>2, <2>3 DEF Token
  <2> QED
    BY <2>2, <2>4 DEF NoBetter
<1>3. ASSUME NEW f \in Fault, y = [x EXCEPT !.sim.faults = @ \cup {f}]
      PROVE  y \in Token /\ NoBetter(x, y)
  <2>1. PICK s : s = [x.sim EXCEPT !.faults = @ \cup {f}]
    OBVIOUS
  <2> DEFINE b == x.sim.faults \cup {f}
  <2>b. b \in SUBSET Fault /\ s = [x.sim EXCEPT !.faults = b]
    BY <1>0, <2>1 DEF SimulationType
  <2> HIDE DEF b
  <2>2. /\ s \in SimulationType /\ x.sim.faults \subseteq s.faults
        /\ s.buyTax = x.sim.buyTax /\ s.sellTax = x.sim.sellTax
        /\ s.seenBuy = x.sim.seenBuy /\ s.seenSell = x.sim.seenSell
    BY <1>0, <2>b DEF SimulationType, b
  <2>3. y = [x EXCEPT !.sim = s]
    BY <1>0, <1>3, <2>1
  <2>4. /\ y \in Token /\ y.code = x.code /\ y.owner = x.owner /\ y.sim = s
        /\ y.seen = x.seen
    BY <1>0, <2>2, <2>3 DEF Token
  <2> QED
    BY <2>2, <2>4 DEF NoBetter
<1>4. ASSUME NEW t \in Threat, y = [x EXCEPT !.seen.threats = @ \cup {t}]
      PROVE  y \in Token /\ NoBetter(x, y)
  <2>1. PICK n : n = [x.seen EXCEPT !.threats = @ \cup {t}]
    OBVIOUS
  <2>2. /\ n \in SeenType /\ x.seen.threats \subseteq n.threats
        /\ n.habits = x.seen.habits /\ n.lp = x.seen.lp
        /\ n.holders = x.seen.holders
    BY <1>0, <2>1 DEF SeenType
  <2>3. y = [x EXCEPT !.seen = n]
    BY <1>0, <1>4, <2>1
  <2>4. /\ y \in Token /\ y.code = x.code /\ y.owner = x.owner
        /\ y.sim = x.sim /\ y.seen = n
    BY <1>0, <2>2, <2>3 DEF Token
  <2> QED
    BY <2>2, <2>4 DEF NoBetter
<1>5. ASSUME NEW h \in Habit, y = [x EXCEPT !.seen.habits = @ \cup {h}]
      PROVE  y \in Token /\ NoBetter(x, y)
  <2>1. PICK n : n = [x.seen EXCEPT !.habits = @ \cup {h}]
    OBVIOUS
  <2>2. /\ n \in SeenType /\ n.threats = x.seen.threats
        /\ x.seen.habits \subseteq n.habits /\ n.lp = x.seen.lp
        /\ n.holders = x.seen.holders
    BY <1>0, <2>1 DEF SeenType
  <2>3. y = [x EXCEPT !.seen = n]
    BY <1>0, <1>5, <2>1
  <2>4. /\ y \in Token /\ y.code = x.code /\ y.owner = x.owner
        /\ y.sim = x.sim /\ y.seen = n
    BY <1>0, <2>2, <2>3 DEF Token
  <2> QED
    BY <2>2, <2>4 DEF NoBetter
<1>6. ASSUME y = [x EXCEPT !.seen.lp.locked = FALSE]
      PROVE  y \in Token /\ NoBetter(x, y)
  <2>1. PICK l : l = [x.seen.lp EXCEPT !.locked = FALSE]
    OBVIOUS
  <2>2. x.seen.lp \in LpType
    BY <1>0 DEF SeenType
  <2>3. /\ l \in LpType /\ l.known = x.seen.lp.known /\ ~l.locked
        /\ l.percent = x.seen.lp.percent /\ l.days = x.seen.lp.days
    BY <2>1, <2>2 DEF LpType
  <2>4. PICK n : n = [x.seen EXCEPT !.lp = l]
    OBVIOUS
  <2>5. /\ n \in SeenType /\ n.threats = x.seen.threats
        /\ n.habits = x.seen.habits /\ n.lp = l
        /\ n.holders = x.seen.holders
    BY <1>0, <2>3, <2>4 DEF SeenType
  <2>6. y = [x EXCEPT !.seen = n]
    BY <1>0, <1>6, <2>1, <2>4
  <2>7. /\ y \in Token /\ y.code = x.code /\ y.owner = x.owner
        /\ y.sim = x.sim /\ y.seen = n
    BY <1>0, <2>5, <2>6 DEF Token
  <2> QED
    BY <2>3, <2>5, <2>7 DEF NoBetter
<1> QED
  BY <1>1, <1>2, <1>3, <1>4, <1>5, <1>6 DEF Worse

\* Pairs of tokens, the second no better than the first.
LEMMA FakeGrows ==
  ASSUME NEW x, NEW y, NoBetter(x, y)
  PROVE  Fake(x.code, x.owner) => Fake(y.code, y.owner)
<1>1. Permissions(x.code) \subseteq Permissions(y.code)
  BY DEF NoBetter, Permissions
<1>2. IsProxy(x.code) = IsProxy(y.code) /\ Admin(x.code) = Admin(y.code)
  BY DEF NoBetter, IsProxy, Admin
<1> QED
  BY <1>1, <1>2 DEF NoBetter, Fake

LEMMA OwnershipGrows ==
  ASSUME NEW x, NEW y, NoBetter(x, y)
  PROVE  LET a == OwnershipRisk(Governance(x.code, x.owner))
             b == OwnershipRisk(Governance(y.code, y.owner))
         IN  a \in Nat /\ b \in Nat /\ a <= b
<1>1. \A g : OwnershipRisk(g) \in 0..90
  BY DEF OwnershipRisk
<1>2. OwnershipRisk("FAKE_RENOUNCED_BYPASSED") = 90
  BY DEF OwnershipRisk
<1>3. /\ y.owner.renounced = x.owner.renounced
      /\ y.owner.governance = x.owner.governance
  BY DEF NoBetter
<1>4. CASE Fake(y.code, y.owner)
  <2>1. Governance(y.code, y.owner) = "FAKE_RENOUNCED_BYPASSED"
    BY <1>4 DEF Governance, Fake
  <2>2. OwnershipRisk(Governance(y.code, y.owner)) = 90
    BY <1>2, <2>1
  <2>3. OwnershipRisk(Governance(x.code, x.owner)) \in 0..90
    BY <1>1
  <2> QED
    BY <2>2, <2>3
<1>5. CASE ~Fake(y.code, y.owner)
  <2>1. Governance(x.code, x.owner) = Governance(y.code, y.owner)
    BY <1>3, <1>5, FakeGrows DEF Governance
  <2>2. OwnershipRisk(Governance(x.code, x.owner)) \in 0..90
    BY <1>1
  <2> QED
    BY <2>1, <2>2
<1> QED
  BY <1>4, <1>5

LEMMA HoneypotGrows ==
  ASSUME NEW x \in Token, NEW y \in Token, NoBetter(x, y)
  PROVE  /\ Honeypot(x.sim) => Honeypot(y.sim)
         /\ HoneypotRisk(x.sim) \in Int /\ HoneypotRisk(y.sim) \in Int
         /\ Failed(y.sim) = Failed(x.sim)
              => HoneypotRisk(x.sim) <= HoneypotRisk(y.sim)
<1> DEFINE a == x.sim
           b == y.sim
           mild(s) == IF s.sellTax > 10 THEN 40 ELSE Min({5, s.sellTax})
<1>1. /\ a.sellTax \in Int /\ b.sellTax = a.sellTax
      /\ a.faults \subseteq b.faults
      /\ Discrepancy(b) = Discrepancy(a)
  BY DEF NoBetter, Token, SimulationType, Discrepancy
<1> HIDE DEF a, b
<1>2. Honeypot(a) => Honeypot(b)
  <2>1. Failed(a) => Failed(b)
    BY <1>1 DEF Failed
  <2>2. ASSUME NEW w \in Persona, ~CanSell(w, a) PROVE ~CanSell(w, b)
    BY <1>1, <2>2 DEF CanSell
  <2>3. ASSUME NEW w \in Persona, SellTax(w, a) >= 50 PROVE SellTax(w, b) >= 50
    BY <1>1, <2>3 DEF SellTax
  <2> QED
    BY <2>1, <2>2, <2>3 DEF Honeypot
<1>3. mild(a) = mild(b) /\ mild(a) \in Int /\ mild(a) <= 40
  <2>1. Min({5, a.sellTax}) = IF 5 <= a.sellTax THEN 5 ELSE a.sellTax
    BY <1>1, MinOfTwo
  <2> QED
    BY <1>1, <2>1
<1> HIDE DEF mild
<1>4. \A s : HoneypotRisk(s) =
               IF Failed(s) THEN 95
               ELSE IF Honeypot(s) THEN 99
               ELSE IF "dynamic_tax" \in s.faults THEN 75
               ELSE IF Discrepancy(s) THEN 60 ELSE mild(s)
  <2> SUFFICES ASSUME NEW s
               PROVE  HoneypotRisk(s) =
                        IF Failed(s) THEN 95
                        ELSE IF Honeypot(s) THEN 99
                        ELSE IF "dynamic_tax" \in s.faults THEN 75
                        ELSE IF Discrepancy(s) THEN 60 ELSE mild(s)
    OBVIOUS
  <2>1. Failed(s) => Honeypot(s)
    BY DEF Honeypot
  <2> QED
    BY <2>1 DEF HoneypotRisk, mild
<1>5. PICK m \in Int : m = mild(a) /\ m = mild(b) /\ m <= 40
  BY <1>3
<1>6. /\ HoneypotRisk(a) \in Int /\ HoneypotRisk(b) \in Int
      /\ Failed(b) = Failed(a) => HoneypotRisk(a) <= HoneypotRisk(b)
  <2>1. PICK s, t : s = HoneypotRisk(a) /\ t = HoneypotRisk(b)
    OBVIOUS
  <2>2. s = IF Failed(a) THEN 95 ELSE IF Honeypot(a) THEN 99
            ELSE IF "dynamic_tax" \in a.faults THEN 75
            ELSE IF Discrepancy(a) THEN 60 ELSE m
    BY <1>4, <1>5, <2>1
  <2>3. t = IF Failed(b) THEN 95 ELSE IF Honeypot(b) THEN 99
            ELSE IF "dynamic_tax" \in b.faults THEN 75
            ELSE IF Discrepancy(b) THEN 60 ELSE m
    BY <1>4, <1>5, <2>1
  <2>4. s \in Int /\ t \in Int
    BY <1>5, <2>2, <2>3
  <2>5. Failed(b) = Failed(a) => s <= t
    BY <1>1, <1>2, <1>5, <2>2, <2>3
  <2> QED
    BY <2>1, <2>4, <2>5
<1> QED
  BY <1>2, <1>6 DEF a, b

LEMMA LpGrows ==
  ASSUME NEW x \in Token, NEW y \in Token, NoBetter(x, y)
  PROVE  /\ LpRisk(x.seen.lp) \in Int /\ LpRisk(y.seen.lp) \in Int
         /\ LpRisk(x.seen.lp) <= LpRisk(y.seen.lp)
<1> DEFINE a == x.seen.lp
           b == y.seen.lp
<1>1. /\ a.percent \in Nat /\ b.percent = a.percent /\ b.known = a.known
      /\ b.days = a.days /\ (b.locked => a.locked)
      /\ a.known \in BOOLEAN
  BY DEF NoBetter, Token, SeenType, LpType
<1> HIDE DEF a, b
<1>2. PICK p \in Nat : p = a.percent /\ p = b.percent
  BY <1>1
<1>3. Max({0, 100 - p}) = IF 0 >= 100 - p THEN 0 ELSE 100 - p
  BY MaxOfTwo
<1>4. PICK m \in Int : m = Max({0, 100 - p}) /\ (p >= 50 => m <= 50)
  BY <1>3
<1> DEFINE risk(l) == IF ~l.known THEN 50 ELSE IF ~l.locked THEN 95
                      ELSE IF l.percent < 50 THEN 70
                      ELSE IF l.days \in 1..2 THEN 85
                      ELSE Max({0, 100 - l.percent})
<1>5. LpRisk(a) = risk(a) /\ LpRisk(b) = risk(b)
  BY <1>1 DEF LpRisk
<1>6. risk(a) \in Int /\ risk(b) \in Int /\ risk(a) <= risk(b)
  BY <1>1, <1>2, <1>4
<1> HIDE DEF risk
<1> QED
  BY <1>5, <1>6 DEF a, b

LEMMA WeightsGrow ==
  ASSUME NEW x \in Token, NEW y \in Token, NoBetter(x, y)
  PROVE  /\ Weighted(x) \in Int /\ Weighted(y) \in Int
         /\ Failed(y.sim) = Failed(x.sim) => Weighted(x) <= Weighted(y)
<1>1. PICK p1 \in Int, p2 \in Int :
        /\ p1 = PermissionsRisk(Permissions(x.code))
        /\ p2 = PermissionsRisk(Permissions(y.code)) /\ p1 <= p2
  <2>1. Permissions(x.code) \subseteq Permissions(y.code)
    BY DEF NoBetter, Permissions
  <2> QED
    BY <2>1, PermissionsRiskGrows
<1>2. PICK o1 \in Int, o2 \in Int :
        /\ o1 = OwnershipRisk(Governance(x.code, x.owner))
        /\ o2 = OwnershipRisk(Governance(y.code, y.owner)) /\ o1 <= o2
  BY OwnershipGrows
<1>3. PICK h1 \in Int, h2 \in Int :
        /\ h1 = HoneypotRisk(x.sim) /\ h2 = HoneypotRisk(y.sim)
        /\ Failed(y.sim) = Failed(x.sim) => h1 <= h2
  BY HoneypotGrows
<1>4. PICK l1 \in Int, l2 \in Int :
        l1 = LpRisk(x.seen.lp) /\ l2 = LpRisk(y.seen.lp) /\ l1 <= l2
  BY LpGrows
<1>5. PICK c \in Int : /\ c = ConcentrationRisk(x.seen.holders)
                       /\ c = ConcentrationRisk(y.seen.holders)
  <2>1. ConcentrationRisk(x.seen.holders) \in Int
    BY DEF ConcentrationRisk
  <2> QED
    BY <2>1 DEF NoBetter
<1>6. PICK u1 \in Int, u2 \in Int :
        /\ u1 = HabitRisk(x.seen.habits) /\ u2 = HabitRisk(y.seen.habits)
        /\ u1 <= u2
  <2>1. /\ x.seen.habits \in SUBSET Habit /\ y.seen.habits \in SUBSET Habit
        /\ x.seen.habits \subseteq y.seen.habits
    BY DEF NoBetter, Token, SeenType
  <2> QED
    BY <2>1, HabitRiskGrows
<1>7. Weighted(x) = 20 * p1 + 15 * o1 + 25 * h1 + 20 * l1 + 10 * c + 10 * u1
  BY <1>1, <1>2, <1>3, <1>4, <1>5, <1>6 DEF Weighted
<1>8. Weighted(y) = 20 * p2 + 15 * o2 + 25 * h2 + 20 * l2 + 10 * c + 10 * u2
  BY <1>1, <1>2, <1>3, <1>4, <1>5, <1>6 DEF Weighted
<1> QED
  BY <1>1, <1>2, <1>3, <1>4, <1>6, <1>7, <1>8

LEMMA ScoreIs ==
  ASSUME NEW x, Weighted(x) \in Int
  PROVE  Score(x) = IF Blocks(x)
                    THEN IF 9500 >= Weighted(x) THEN 9500 ELSE Weighted(x)
                    ELSE IF 10000 <= Weighted(x) THEN 10000 ELSE Weighted(x)
<1>1. /\ Max({9500, Weighted(x)})
           = IF 9500 >= Weighted(x) THEN 9500 ELSE Weighted(x)
      /\ Min({10000, Weighted(x)})
           = IF 10000 <= Weighted(x) THEN 10000 ELSE Weighted(x)
  BY MinOfTwo, MaxOfTwo
<1> QED
  BY <1>1 DEF Score

LEMMA VerdictIs ==
  ASSUME NEW x
  PROVE  /\ Verdict(x).blocked <=> (Blocks(x) \/ Score(x) >= 7500)
         /\ Verdict(x).score = Score(x)
         /\ Verdict(x).upgrade = UpgradeRisk(x.code, x.owner)
         /\ Verdict(x).safe <=> (~(Blocks(x) \/ Score(x) >= 7500)
                                 /\ Score(x) < 5000 /\ ~Honeypot(x.sim))
<1> DEFINE blocked == Blocks(x) \/ Score(x) >= 7500
           safe == ~blocked /\ Score(x) < 5000 /\ ~Honeypot(x.sim)
<1>1. Verdict(x).blocked = blocked /\ Verdict(x).safe = safe
      /\ Verdict(x).score = Score(x)
      /\ Verdict(x).upgrade = UpgradeRisk(x.code, x.owner)
  BY DEF Verdict
<1>2. blocked \in BOOLEAN /\ safe \in BOOLEAN
  OBVIOUS
<1> HIDE DEF blocked, safe
<1>3. (Verdict(x).blocked <=> blocked) /\ (Verdict(x).safe <=> safe)
  BY <1>1, <1>2
<1> QED
  BY <1>1, <1>3 DEF blocked, safe

LEMMA VerdictNoBetter ==
  ASSUME NEW x \in Token, NEW y \in Token, NoBetter(x, y)
  PROVE  /\ ~Verdict(x).safe => ~Verdict(y).safe
         /\ Verdict(x).blocked => Verdict(y).blocked
         /\ Failed(y.sim) = Failed(x.sim)
              => Verdict(y).score >= Verdict(x).score
<1>1. PICK v \in Int, w \in Int :
        /\ v = Weighted(x) /\ w = Weighted(y)
        /\ Failed(y.sim) = Failed(x.sim) => v <= w
  BY WeightsGrow
<1>2. PICK s, t : s = Score(x) /\ t = Score(y)
  OBVIOUS
<1>3. /\ s = IF Blocks(x) THEN IF 9500 >= v THEN 9500 ELSE v
             ELSE IF 10000 <= v THEN 10000 ELSE v
      /\ t = IF Blocks(y) THEN IF 9500 >= w THEN 9500 ELSE w
             ELSE IF 10000 <= w THEN 10000 ELSE w
  BY <1>1, <1>2, ScoreIs
<1>4. /\ Honeypot(x.sim) => Honeypot(y.sim)
      /\ Honeypot(y.sim) => Blocks(y)
      /\ Failed(y.sim) => Honeypot(y.sim)
      /\ Failed(x.sim) => Failed(y.sim)
      /\ Failed(x.sim) \in BOOLEAN /\ Failed(y.sim) \in BOOLEAN
  BY HoneypotGrows DEF Blocks, Honeypot, Failed, NoBetter
<1>5. Failed(y.sim) = Failed(x.sim) /\ Blocks(x) => Blocks(y)
  <2> SUFFICES ASSUME Failed(y.sim) = Failed(x.sim), Blocks(x) PROVE Blocks(y)
    OBVIOUS
  <2>1. CASE x.seen.threats # {} \/ Honeypot(x.sim) \/ Fake(x.code, x.owner)
    BY <1>4, <2>1, FakeGrows DEF Blocks, NoBetter
  <2>2. CASE v > 6000 /\ x.seen.lp.known /\ ~x.seen.lp.locked
               /\ x.seen.lp.percent < 20
    <3>1. w > 6000
      BY <1>1, <2>2
    <3> QED
      BY <1>1, <2>2, <3>1 DEF Blocks, NoBetter
  <2> QED
    BY <1>1, <2>1, <2>2 DEF Blocks
<1>6. /\ Verdict(x).blocked <=> (Blocks(x) \/ s >= 7500)
      /\ Verdict(y).blocked <=> (Blocks(y) \/ t >= 7500)
      /\ Verdict(x).score = s /\ Verdict(y).score = t
      /\ Verdict(x).safe <=> (~(Blocks(x) \/ s >= 7500) /\ s < 5000
                                /\ ~Honeypot(x.sim))
      /\ Verdict(y).safe <=> (~(Blocks(y) \/ t >= 7500) /\ t < 5000
                                /\ ~Honeypot(y.sim))
  BY <1>2, VerdictIs
<1>7. CASE Failed(y.sim) = Failed(x.sim)
  <2>1. v <= w /\ (Blocks(x) => Blocks(y))
    BY <1>1, <1>5, <1>7
  <2>2. s <= t /\ s \in Int /\ t \in Int
    BY <1>3, <2>1
  <2> QED
    BY <1>4, <1>6, <2>1, <2>2
<1>8. CASE Failed(y.sim) # Failed(x.sim)
  <2>1. Failed(y.sim) /\ Blocks(y)
    BY <1>4, <1>8
  <2>2. Verdict(y).blocked /\ ~Verdict(y).safe
    BY <1>6, <2>1
  <2> QED
    BY <1>8, <2>2
<1> QED
  BY <1>7, <1>8

\* Behind a renounced owner nobody upgrades a token that is called safe.
LEMMA SafeUpgrade ==
  ASSUME NEW x \in Token
  PROVE  Verdict(x).safe /\ Verdict(x).upgrade = "CRITICAL"
           => ~x.owner.renounced
<1> SUFFICES ASSUME Verdict(x).safe, Verdict(x).upgrade = "CRITICAL",
                    x.owner.renounced
             PROVE  FALSE
  OBVIOUS
<1>1. ~Blocks(x) /\ UpgradeRisk(x.code, x.owner) = "CRITICAL"
  BY VerdictIs
<1>2. Governance(x.code, x.owner) = "RENOUNCED"
  BY <1>1 DEF Blocks, Governance
<1> QED
  BY <1>1, <1>2 DEF UpgradeRisk

\* Only tokens are assessed, and the verdict is the one of the token.
SecurityInv ==
  assessed \subseteq Token /\ \A x \in assessed : verdict = Verdict(x)

LEMMA SecurityStep ==
  ASSUME SecurityInv, SecurityNext
  PROVE  SecurityInv'
<1>1. PICK code \in Codes, o \in Owners, s \in Simulations,
           c \in Circumstances :
        LET x == [code |-> code, owner |-> o, sim |-> s, seen |-> c] IN
        assessed' = {x} /\ verdict' = Verdict(x)
  BY DEF SecurityNext, Assess
<1>2. PICK x : x = [code |-> code, owner |-> o, sim |-> s, seen |-> c]
  OBVIOUS
<1>3. x \in Token
  BY <1>2, SecurityAssumption
     DEF Token, CodeType, OwnerType, SimulationType, LpType, SeenType
<1>4. assessed' = {x} /\ verdict' = Verdict(x)
  BY <1>1, <1>2
<1> QED
  BY <1>3, <1>4 DEF SecurityInv

LEMMA SecurityInvariant == EnginesSpec => []SecurityInv
<1>1. EnginesInit => SecurityInv
  BY DEF EnginesInit, SecurityInit, SecurityInv
<1>2. SecurityInv /\ UNCHANGED securityVars => SecurityInv'
  BY DEF SecurityInv, securityVars
<1>3. SecurityInv /\ [EnginesNext]_engineVars => SecurityInv'
  BY <1>2, SecurityStep DEF EnginesNext, engineVars
<1> QED
  BY <1>1, <1>3, PTL DEF EnginesSpec

\* One more bad finding never turns a verdict to the better, whatever the
\* inputs are (section_seven_security.py 132-207, rug_detector.py 74-148 of
\* src/security).
THEOREM WorseNeverSafer == EnginesSpec => []WorseIsNotSafer
<1>1. ASSUME SecurityInv PROVE WorseIsNotSafer
  <2> SUFFICES ASSUME NEW x \in assessed
               PROVE  /\ \A y \in Worse(x) :
                           LET w == Verdict(y) IN
                           /\ ~verdict.safe => ~w.safe
                           /\ verdict.blocked => w.blocked
                           /\ Failed(y.sim) = Failed(x.sim)
                                => w.score >= verdict.score
                      /\ verdict.safe /\ verdict.upgrade = "CRITICAL"
                           => ~x.owner.renounced
    BY DEF WorseIsNotSafer
  <2>1. x \in Token /\ verdict = Verdict(x)
    BY <1>1 DEF SecurityInv
  <2>2. ASSUME NEW y \in Worse(x)
        PROVE  /\ ~Verdict(x).safe => ~Verdict(y).safe
               /\ Verdict(x).blocked => Verdict(y).blocked
               /\ Failed(y.sim) = Failed(x.sim)
                    => Verdict(y).score >= Verdict(x).score
    BY <2>1, WorseIsNoBetter, VerdictNoBetter
  <2> QED
    BY <2>1, <2>2, SafeUpgrade
<1> QED
  BY <1>1, SecurityInvariant, PTL

----------------------------------------------------------------------------
(* The types.                                                              *)

LEMMA CrossTyped == CrossInv => CrossTypeOK
<1> SUFFICES ASSUME CrossInv PROVE CrossTypeOK
  OBVIOUS
<1>1. /\ DOMAIN reps \subseteq Group /\ DOMAIN totals = DOMAIN reps
      /\ \A g \in DOMAIN reps :
           /\ DOMAIN reps[g] \subseteq Deployment
           /\ \A d \in DOMAIN reps[g] : reps[g][d] \in Rep
  BY DEF CrossInv, RepsOk
<1>2. /\ DOMAIN groupOf \subseteq Deployment
      /\ \A d \in DOMAIN groupOf : groupOf[d] \in DOMAIN reps
  BY DEF CrossInv, Agree, In
<1>3. moves \in [Deployment -> 0..MaxLinks] /\ links \in 0..MaxLinks
  <2>1. /\ links \in 0..MaxLinks /\ moves \in [Deployment -> Nat]
        /\ \A d \in Deployment : moves[d] <= links
    BY DEF CrossInv, MovesOk
  <2>2. \A d \in Deployment : moves[d] \in 0..MaxLinks
    BY <2>1, CrossChainAssumption
  <2> QED
    BY <2>1, <2>2
<1> QED
  BY <1>1, <1>2, <1>3 DEF CrossTypeOK, Rep

\* The variables of the engines keep their types, for any inputs of the types
\* the code gives them.
THEOREM TypeCorrect == EnginesSpec => []EnginesTypeOK
<1>1. EnginesSpec => []CrossInv
  BY CrossInvariant, PTL DEF EnginesSpec
<1>2. BooksInv => HoldersTypeOK
  BY DEF BooksInv
<1>3. HoldersTypeOK /\ CrossTypeOK /\ MarketTypeOK => EnginesTypeOK
  BY DEF EnginesTypeOK
<1> QED
  BY <1>1, <1>2, <1>3, CrossTyped, MarketTyped, BooksInvariant,
     MarketInvariant, PTL
=============================================================================
