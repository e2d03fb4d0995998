------------------------------- MODULE SumProofs -------------------------------
(***************************************************************************)
(* Sums over finite sets, as MapThenSumSet of FiniteSetsExt computes them, *)
(* for the proofs about the engines.  Induction over the naturals and over *)
(* finite sets is stated about a set of numbers or of sets instead of a    *)
(* predicate, and proved from a smallest counterexample.                   *)
(***************************************************************************)
EXTENDS Integers, FiniteSetsExt, FiniteSetTheorems, NaturalsInduction,
        WellFoundedInduction, TLAPS

LEMMA NatInduct ==
  ASSUME NEW T, 0 \in T, \A n \in Nat : n \in T => n + 1 \in T
  PROVE  Nat \subseteq T
<1> SUFFICES ASSUME Nat \ T # {} PROVE FALSE
  OBVIOUS
<1>1. IsWellFoundedOn(OpToRel(<, Nat), Nat)
  BY NatLessThanWellFounded, Zenon
<1>2. PICK R : /\ IsWellFoundedOn(R, Nat)
               /\ \A x, y \in Nat : y < x => <<y, x>> \in R
  <2>1. \A x, y \in Nat : y < x => <<y, x>> \in OpToRel(<, Nat)
    BY DEF OpToRel
  <2> QED
    BY <1>1, <2>1, Zenon
<1>3. PICK x \in Nat \ T : \A y \in Nat \ T : ~ (<<y, x>> \in R)
  BY <1>2, WFMin
<1>4. x # 0 /\ x - 1 \in Nat /\ x - 1 < x /\ (x - 1) + 1 = x
  BY <1>3
<1>5. <<x - 1, x>> \in R
  BY <1>2, <1>3, <1>4
<1>6. x - 1 \in T
  BY <1>3, <1>4, <1>5
<1> QED
  BY <1>3, <1>4, <1>6

LEMMA OneLess ==
  ASSUME NEW s, IsFiniteSet(s), NEW n \in Nat, Cardinality(s) = n + 1,
         NEW x \in s
  PROVE  Cardinality(s \ {x}) = n
<1>1. Cardinality(s \ {x}) = Cardinality(s) - 1
  BY FS_RemoveElement
<1> QED
  BY <1>1

\* What holds of the empty set, and of a set with one more element of S
\* whenever it holds of the set, holds of a finite S.
LEMMA SetInduct ==
  ASSUME NEW S, IsFiniteSet(S), NEW T, {} \in T,
         \A s \in SUBSET S : \A x \in S \ s : s \in T => s \cup {x} \in T
  PROVE  S \in T
<1> DEFINE N == {n \in Nat : \A s \in SUBSET S : Cardinality(s) = n => s \in T}
<1>1. \A s \in SUBSET S : IsFiniteSet(s) /\ Cardinality(s) \in Nat
  BY FS_Subset, FS_CardinalityType
<1>2. 0 \in N
  BY <1>1, FS_EmptySet
<1>3. ASSUME NEW n \in Nat, n \in N PROVE n + 1 \in N
  <2> SUFFICES ASSUME NEW s \in SUBSET S, Cardinality(s) = n + 1
               PROVE  s \in T
    OBVIOUS
  <2>1. s # {}
    BY <1>1, FS_EmptySet
  <2>2. PICK x \in s : TRUE
    BY <2>1
  <2>3. Cardinality(s \ {x}) = n
    BY <1>1, OneLess
  <2>4. s \ {x} \in T
    BY <1>3, <2>3
  <2>5. (s \ {x}) \cup {x} = s
    BY <2>2
  <2> QED
    BY <2>2, <2>4, <2>5
<1> HIDE DEF N
<1>4. Nat \subseteq N
  BY <1>2, <1>3, NatInduct
<1> QED
  BY <1>1, <1>4 DEF N

----------------------------------------------------------------------------
Sum(v, S) == MapThenSumSet(LAMBDA x : v[x], S)

Picked(s) == CHOOSE x \in s : TRUE

\* The recursion of MapThenSumSet for the summands v, over the subsets of S.
Unfolded(g, v, S) ==
  [s \in SUBSET S |->
     IF s = {} THEN 0 ELSE v[Picked(s)] + g[s \ {Picked(s)}]]

IsSum(g, v, S) == g = Unfolded(g, v, S)

LEMMA PickedIn == ASSUME NEW s, s # {} PROVE Picked(s) \in s
  BY DEF Picked

LEMMA SumExists ==
  ASSUME NEW S, IsFiniteSet(S), NEW v
  PROVE  \E g : IsSum(g, v, S)
<1> DEFINE UpTo(g, n) ==
             \A s \in SUBSET S :
               Cardinality(s) <= n => g[s] = Unfolded(g, v, S)[s]
           N == {n \in Nat : \E g : UpTo(g, n)}
<1>1. \A s \in SUBSET S : IsFiniteSet(s) /\ Cardinality(s) \in Nat
  BY FS_Subset, FS_CardinalityType
<1>2. ASSUME NEW n \in Nat, n \in N PROVE n + 1 \in N
  <2>1. PICK g : UpTo(g, n)
    BY <1>2
  <2>2. PICK h : h = Unfolded(g, v, S)
    OBVIOUS
  <2>3. ASSUME NEW s \in SUBSET S, Cardinality(s) <= n + 1
        PROVE  h[s] = Unfolded(h, v, S)[s]
    <3>1. CASE s = {}
      BY <2>2, <3>1 DEF Unfolded
    <3>2. CASE s # {}
      <4>1. Cardinality(s \ {Picked(s)}) = Cardinality(s) - 1
        BY <1>1, <3>2, PickedIn, FS_RemoveElement
      <4>2. Cardinality(s \ {Picked(s)}) <= n
        BY <1>1, <2>3, <4>1
      <4>3. s \ {Picked(s)} \in SUBSET S
        OBVIOUS
      <4>4. g[s \ {Picked(s)}] = h[s \ {Picked(s)}]
        BY <2>1, <2>2, <4>2, <4>3
      <4> QED
        BY <2>2, <4>4 DEF Unfolded
    <3> QED
      BY <3>1, <3>2
  <2> QED
    BY <2>3
<1>3. 0 \in N
  <2> DEFINE g == [s \in SUBSET S |-> 0]
  <2>1. \A s \in SUBSET S : Cardinality(s) <= 0 => s = {}
    BY <1>1, FS_EmptySet
  <2>2. UpTo(g, 0)
    BY <2>1 DEF Unfolded
  <2> QED
    BY <2>2
<1> HIDE DEF N
<1>4. Nat \subseteq N
  BY <1>2, <1>3, NatInduct
<1>5. Cardinality(S) \in N
  BY <1>1, <1>4
<1>6. PICK g : UpTo(g, Cardinality(S))
  BY <1>5 DEF N
<1>7. \A s \in SUBSET S : Cardinality(s) <= Cardinality(S)
  BY FS_Subset
<1>8. \A s \in SUBSET S : g[s] = Unfolded(g, v, S)[s]
  BY <1>6, <1>7
<1>9. PICK h : h = [s \in SUBSET S |-> g[s]]
  OBVIOUS
<1>10. h = Unfolded(g, v, S)
  BY <1>8, <1>9 DEF Unfolded
<1>11. \A s \in SUBSET S : s \ {Picked(s)} \in SUBSET S
  OBVIOUS
<1>12. Unfolded(g, v, S) = Unfolded(h, v, S)
  BY <1>9, <1>11 DEF Unfolded
<1> QED
  BY <1>10, <1>12 DEF IsSum

LEMMA SumUnique ==
  ASSUME NEW S, IsFiniteSet(S), NEW R, IsFiniteSet(R), NEW v, NEW w,
         NEW g, IsSum(g, v, S), NEW h, IsSum(h, w, R),
         NEW U \in SUBSET (S \cap R), \A x \in U : v[x] = w[x]
  PROVE  g[U] = h[U]
<1> DEFINE N == {n \in Nat : \A s \in SUBSET U :
                               Cardinality(s) <= n => g[s] = h[s]}
<1>0. \A s \in SUBSET U : /\ IsFiniteSet(s) /\ Cardinality(s) \in Nat
                          /\ s \in SUBSET S /\ s \in SUBSET R
  BY FS_Subset, FS_CardinalityType
<1>1. \A s \in SUBSET U :
        /\ g[s] = IF s = {} THEN 0 ELSE v[Picked(s)] + g[s \ {Picked(s)}]
        /\ h[s] = IF s = {} THEN 0 ELSE w[Picked(s)] + h[s \ {Picked(s)}]
  BY <1>0 DEF IsSum, Unfolded
<1>2. 0 \in N
  BY <1>0, <1>1, FS_EmptySet
<1>3. ASSUME NEW n \in Nat, n \in N PROVE n + 1 \in N
  <2> SUFFICES ASSUME NEW s \in SUBSET U, Cardinality(s) <= n + 1
               PROVE  g[s] = h[s]
    OBVIOUS
  <2>1. CASE s = {}
    BY <1>1, <2>1
  <2>2. CASE s # {}
    <3>1. Picked(s) \in s
      BY <2>2, PickedIn
    <3>2. Cardinality(s \ {Picked(s)}) = Cardinality(s) - 1
      BY <1>0, <3>1, FS_RemoveElement
    <3>3. Cardinality(s \ {Picked(s)}) <= n
      BY <1>0, <3>2
    <3>4. s \ {Picked(s)} \in SUBSET U
      OBVIOUS
    <3>5. g[s \ {Picked(s)}] = h[s \ {Picked(s)}]
      BY <1>3, <3>3, <3>4
    <3>6. v[Picked(s)] = w[Picked(s)]
      BY <3>1
    <3> QED
      BY <1>1, <2>2, <3>5, <3>6
  <2> QED
    BY <2>1, <2>2
<1> HIDE DEF N
<1>4. Nat \subseteq N
  BY <1>2, <1>3, NatInduct
<1>5. Cardinality(U) \in N
  BY <1>0, <1>4
<1> QED
  BY <1>0, <1>5 DEF N

LEMMA SumIs ==
  ASSUME NEW S, IsFiniteSet(S), NEW v
  PROVE  \E g : IsSum(g, v, S) /\ Sum(v, S) = g[S]
<1> DEFINE g == CHOOSE g : g = [s \in SUBSET S |->
                  IF s = {} THEN 0
                  ELSE v[CHOOSE x \in s : TRUE]
                       + g[s \ {CHOOSE x \in s : TRUE}]]
<1>1. Sum(v, S) = g[S]
  BY DEF Sum, MapThenSumSet, MapThenFoldSet
<1>2. \E h : h = [s \in SUBSET S |->
                  IF s = {} THEN 0
                  ELSE v[CHOOSE x \in s : TRUE]
                       + h[s \ {CHOOSE x \in s : TRUE}]]
  <2>1. PICK h : IsSum(h, v, S)
    BY SumExists
  <2>2. h = [s \in SUBSET S |->
               IF s = {} THEN 0
               ELSE v[CHOOSE x \in s : TRUE]
                    + h[s \ {CHOOSE x \in s : TRUE}]]
    BY <2>1, Zenon DEF IsSum, Unfolded, Picked
  <2> QED
    BY <2>2, Zenon
<1>3. IsSum(g, v, S)
  BY <1>2 DEF IsSum, Unfolded, Picked
<1> QED
  BY <1>1, <1>3

\* Whatever satisfies the recursion of a sum is the sum.
LEMMA SumOf ==
  ASSUME NEW S, IsFiniteSet(S), NEW v, NEW g, IsSum(g, v, S)
  PROVE  g[S] = Sum(v, S)
<1>1. PICK h : IsSum(h, v, S) /\ Sum(v, S) = h[S]
  BY SumIs
<1>2. PICK w, U : w = v /\ U = S
  OBVIOUS
<1>3. IsSum(h, w, S) /\ U \in SUBSET (S \cap S) /\ \A x \in U : v[x] = w[x]
  BY <1>1, <1>2
<1>4. g[U] = h[U]
  BY <1>3, SumUnique
<1> QED
  BY <1>1, <1>2, <1>4

LEMMA SumEqual ==
  ASSUME NEW S, IsFiniteSet(S), NEW v, NEW w, \A x \in S : v[x] = w[x]
  PROVE  Sum(v, S) = Sum(w, S)
<1>1. PICK g : IsSum(g, v, S) /\ Sum(v, S) = g[S]
  BY SumIs
<1>2. PICK h : IsSum(h, w, S) /\ Sum(w, S) = h[S]
  BY SumIs
<1>3. S \in SUBSET (S \cap S)
  OBVIOUS
<1> QED
  BY <1>1, <1>2, <1>3, SumUnique

LEMMA SumEmpty == ASSUME NEW v PROVE Sum(v, {}) = 0
<1>1. PICK g : IsSum(g, v, {}) /\ Sum(v, {}) = g[{}]
  BY SumIs, FS_EmptySet
<1>2. {} \in SUBSET {}
  OBVIOUS
<1> QED
  BY <1>1, <1>2 DEF IsSum, Unfolded

\* The sum over a set takes its elements in some order.
LEMMA SumPicked ==
  ASSUME NEW S, IsFiniteSet(S), NEW v, S # {}
  PROVE  Sum(v, S) = v[Picked(S)] + Sum(v, S \ {Picked(S)})
<1>1. PICK g : IsSum(g, v, S) /\ Sum(v, S) = g[S]
  BY SumIs
<1>2. IsFiniteSet(S \ {Picked(S)})
  BY FS_RemoveElement
<1>3. PICK h : /\ IsSum(h, v, S \ {Picked(S)})
               /\ Sum(v, S \ {Picked(S)}) = h[S \ {Picked(S)}]
  BY <1>2, SumIs
<1>4. S \ {Picked(S)} \in SUBSET (S \cap (S \ {Picked(S)}))
  OBVIOUS
<1>5. g[S \ {Picked(S)}] = h[S \ {Picked(S)}]
  BY <1>1, <1>2, <1>3, <1>4, SumUnique
<1>6. S \in SUBSET S
  OBVIOUS
<1>7. g[S] = v[Picked(S)] + g[S \ {Picked(S)}]
  BY <1>1, <1>6 DEF IsSum, Unfolded
<1> QED
  BY <1>1, <1>3, <1>5, <1>7

LEMMA SumNat ==
  ASSUME NEW S, IsFiniteSet(S), NEW v, \A x \in S : v[x] \in Nat
  PROVE  Sum(v, S) \in Nat
<1> DEFINE N == {n \in Nat : \A s \in SUBSET S :
                               Cardinality(s) = n => Sum(v, s) \in Nat}
<1>0. \A s \in SUBSET S : IsFiniteSet(s) /\ Cardinality(s) \in Nat
  BY FS_Subset, FS_CardinalityType
<1>1. 0 \in N
  BY <1>0, SumEmpty, FS_EmptySet
<1>2. ASSUME NEW n \in Nat, n \in N PROVE n + 1 \in N
  <2> SUFFICES ASSUME NEW s \in SUBSET S, Cardinality(s) = n + 1
               PROVE  Sum(v, s) \in Nat
    OBVIOUS
  <2>1. s # {}
    BY <1>0, FS_EmptySet
  <2>2. Picked(s) \in s
    BY <2>1, PickedIn
  <2>3. Cardinality(s \ {Picked(s)}) = n
    BY <1>0, <2>2, OneLess
  <2>4. Sum(v, s \ {Picked(s)}) \in Nat
    BY <1>2, <2>3
  <2>5. Sum(v, s) = v[Picked(s)] + Sum(v, s \ {Picked(s)})
    BY <1>0, <2>1, SumPicked
  <2>6. v[Picked(s)] \in Nat
    BY <2>2
  <2> QED
    BY <2>4, <2>5, <2>6
<1> HIDE DEF N
<1>3. Nat \subseteq N
  BY <1>1, <1>2, NatInduct
<1> QED
  BY <1>0, <1>3 DEF N

\* Any element may be the one that is taken first.
LEMMA SumRemove ==
  ASSUME NEW S, IsFiniteSet(S), NEW v, \A x \in S : v[x] \in Nat,
         NEW a \in S
  PROVE  Sum(v, S) = v[a] + Sum(v, S \ {a})
<1> DEFINE N == {n \in Nat : \A s \in SUBSET S : Cardinality(s) = n
                    => \A x \in s : Sum(v, s) = v[x] + Sum(v, s \ {x})}
<1>0. \A s \in SUBSET S : /\ IsFiniteSet(s) /\ Cardinality(s) \in Nat
                          /\ Sum(v, s) \in Nat
  BY FS_Subset, FS_CardinalityType, SumNat
<1>1. 0 \in N
  BY <1>0, FS_EmptySet
<1>2. ASSUME NEW n \in Nat, n \in N PROVE n + 1 \in N
  <2> SUFFICES ASSUME NEW s \in SUBSET S, Cardinality(s) = n + 1,
                      NEW x \in s
               PROVE  Sum(v, s) = v[x] + Sum(v, s \ {x})
    OBVIOUS
  <2> DEFINE p == Picked(s)
  <2>1. p \in s
    BY PickedIn
  <2> HIDE DEF p
  <2>2. Sum(v, s) = v[p] + Sum(v, s \ {p})
    BY <1>0, SumPicked DEF p
  <2>3. CASE x = p
    BY <2>2, <2>3
  <2>4. CASE x # p
    <3>1. /\ Cardinality(s \ {p}) = n /\ Cardinality(s \ {x}) = n
          /\ s \ {p} \in SUBSET S /\ s \ {x} \in SUBSET S
          /\ x \in s \ {p} /\ p \in s \ {x}
        <4>1. Cardinality(s \ {p}) = n /\ Cardinality(s \ {x}) = n
        BY <1>0, <2>1, OneLess
      <4> QED
        BY <2>1, <2>4, <4>1
    <3>2. Sum(v, s \ {p}) = v[x] + Sum(v, (s \ {p}) \ {x})
      BY <1>2, <3>1
    <3>3. Sum(v, s \ {x}) = v[p] + Sum(v, (s \ {x}) \ {p})
      BY <1>2, <3>1
    <3>4. (s \ {p}) \ {x} = (s \ {x}) \ {p}
      OBVIOUS
    <3>5. /\ v[x] \in Nat /\ v[p] \in Nat
          /\ Sum(v, (s \ {x}) \ {p}) \in Nat
      BY <1>0, <2>1
    <3> QED
      BY <2>2, <3>2, <3>3, <3>4, <3>5
  <2> QED
    BY <2>3, <2>4
<1> HIDE DEF N
<1>3. Nat \subseteq N
  BY <1>1, <1>2, NatInduct
<1>4. S \in SUBSET S
  OBVIOUS
<1> QED
  BY <1>0, <1>3, <1>4 DEF N

LEMMA SumAdd ==
  ASSUME NEW S, IsFiniteSet(S), NEW v, \A x \in S : v[x] \in Nat,
         NEW a, a \notin S, v[a] \in Nat
  PROVE  Sum(v, S \cup {a}) = v[a] + Sum(v, S)
<1>1. IsFiniteSet(S \cup {a}) /\ (S \cup {a}) \ {a} = S
  BY FS_AddElement
<1> QED
  BY <1>1, SumRemove

\* One summand changes.
LEMMA SumChange ==
  ASSUME NEW S, IsFiniteSet(S), NEW v, NEW w, NEW a \in S,
         \A x \in S : v[x] \in Nat, w[a] \in Nat,
         \A x \in S \ {a} : w[x] = v[x]
  PROVE  Sum(w, S) = Sum(v, S) - v[a] + w[a]
<1>1. IsFiniteSet(S \ {a})
  BY FS_RemoveElement
<1>2. Sum(w, S \ {a}) = Sum(v, S \ {a}) /\ Sum(v, S \ {a}) \in Nat
  BY <1>1, SumEqual, SumNat
<1>3. \A x \in S : w[x] \in Nat
  OBVIOUS
<1>4. Sum(v, S) = v[a] + Sum(v, S \ {a}) /\ Sum(w, S) = w[a] + Sum(w, S \ {a})
  BY <1>3, SumRemove
<1> QED
  BY <1>2, <1>4

\* A sum grows with its set.
LEMMA SumGrows ==
  ASSUME NEW S, IsFiniteSet(S), NEW v, \A x \in S : v[x] \in Nat,
         NEW R \in SUBSET S
  PROVE  Sum(v, R) <= Sum(v, S)
<1> DEFINE T == {s \in SUBSET S : Sum(v, s \cap R) <= Sum(v, s)}
<1>0. \A s \in SUBSET S : IsFiniteSet(s) /\ Sum(v, s) \in Nat
  BY FS_Subset, SumNat
<1>1. {} \in T
  <2>1. {} \cap R = {} /\ Sum(v, {}) = 0
    BY SumEmpty
  <2> QED
    BY <2>1
<1>2. ASSUME NEW s \in SUBSET S, NEW x \in S \ s, s \in T
      PROVE  s \cup {x} \in T
  <2>1. Sum(v, s \cup {x}) = v[x] + Sum(v, s) /\ v[x] \in Nat
    BY <1>0, SumAdd
  <2>2. CASE x \in R
    <3>1. (s \cup {x}) \cap R = (s \cap R) \cup {x} /\ x \notin s \cap R
      BY <2>2
    <3>2. s \cap R \in SUBSET S
      OBVIOUS
    <3>3. Sum(v, (s \cap R) \cup {x}) = v[x] + Sum(v, s \cap R)
      BY <1>0, <3>1, <3>2, SumAdd
    <3>4. Sum(v, s \cap R) <= Sum(v, s) /\ Sum(v, s \cap R) \in Nat
      BY <1>0, <1>2, <3>2
    <3>5. Sum(v, (s \cup {x}) \cap R) = v[x] + Sum(v, s \cap R)
      BY <3>1, <3>3
    <3>6. Sum(v, s) \in Nat
      BY <1>0
    <3>7. Sum(v, (s \cup {x}) \cap R) <= Sum(v, s \cup {x})
      BY <2>1, <3>4, <3>5, <3>6
    <3> QED
      BY <3>7
  <2>3. CASE x \notin R
    <3>1. (s \cup {x}) \cap R = s \cap R
      BY <2>3
    <3>2. Sum(v, s \cap R) <= Sum(v, s) /\ Sum(v, s \cap R) \in Nat
          /\ Sum(v, s) \in Nat
      BY <1>0, <1>2
    <3>3. Sum(v, (s \cup {x}) \cap R) <= Sum(v, s \cup {x})
      <4>1. Sum(v, (s \cup {x}) \cap R) = Sum(v, s \cap R)
        BY <3>1
      <4> QED
        BY <2>1, <3>2, <4>1
    <3> QED
      BY <3>3
  <2> QED
    BY <2>2, <2>3
<1> HIDE DEF T
<1>3. S \in T
  BY <1>1, <1>2, SetInduct
<1>4. S \cap R = R
  OBVIOUS
<1> QED
  BY <1>3, <1>4 DEF T

----------------------------------------------------------------------------
\* Of two numbers, and of a finite set of them.

LEMMA MinOfTwo ==
  ASSUME NEW a \in Int, NEW b \in Int
  PROVE  Min({a, b}) = IF a <= b THEN a ELSE b
<1> DEFINE m == IF a <= b THEN a ELSE b
<1>1. m \in {a, b} /\ \A y \in {a, b} : m <= y
  OBVIOUS
<1>2. \A x \in {a, b} : (\A y \in {a, b} : x <= y) => x = m
  OBVIOUS
<1> HIDE DEF m
<1>3. Min({a, b}) = m
  BY <1>1, <1>2 DEF Min
<1> QED
  BY <1>3 DEF m

LEMMA MaxOfTwo ==
  ASSUME NEW a \in Int, NEW b \in Int
  PROVE  Max({a, b}) = IF a >= b THEN a ELSE b
<1> DEFINE m == IF a >= b THEN a ELSE b
<1>1. m \in {a, b} /\ \A y \in {a, b} : m >= y
  OBVIOUS
<1>2. \A x \in {a, b} : (\A y \in {a, b} : x >= y) => x = m
  OBVIOUS
<1> HIDE DEF m
<1>3. Max({a, b}) = m
  BY <1>1, <1>2 DEF Max
<1> QED
  BY <1>3 DEF m

LEMMA MaxIn ==
  ASSUME NEW S, IsFiniteSet(S), S # {}, S \subseteq Int
  PROVE  Max(S) \in S /\ \A y \in S : Max(S) >= y
<1> DEFINE T == {s \in SUBSET S : s = {} \/ \E x \in s : \A y \in s : x >= y}
<1>2. {} \in T
  OBVIOUS
<1>3. ASSUME NEW s \in SUBSET S, NEW z \in S \ s, s \in T
      PROVE  s \cup {z} \in T
  <2>1. z \in Int /\ \A y \in s : y \in Int
    OBVIOUS
  <2>2. CASE s = {}
    BY <2>1, <2>2
  <2>3. CASE s # {}
    <3>1. PICK x \in s : \A y \in s : x >= y
      BY <1>3, <2>3
    <3>2. PICK w \in {x, z} : w >= x /\ w >= z
      BY <2>1
    <3>3. \A y \in s \cup {z} : w >= y
      BY <2>1, <3>1, <3>2
    <3> QED
      BY <3>2, <3>3
  <2> QED
    BY <2>2, <2>3
<1> HIDE DEF T
<1>4. S \in T
  BY <1>2, <1>3, SetInduct
<1> QED
  BY <1>4 DEF T, Max

LEMMA LastIn ==
  ASSUME NEW n \in Nat, NEW S \in SUBSET (1..n), S # {}
  PROVE  /\ IsFiniteSet(S) /\ Cardinality(S) \in Nat
         /\ Max(S) \in S /\ \A y \in S : Max(S) >= y
         /\ Cardinality(S \ {Max(S)}) = Cardinality(S) - 1
<1>1. IsFiniteSet(1..n) /\ S \subseteq Int
  BY FS_Interval
<1>2. IsFiniteSet(S) /\ Cardinality(S) \in Nat
  BY <1>1, FS_Subset, FS_CardinalityType
<1>3. Max(S) \in S /\ \A y \in S : Max(S) >= y
  BY <1>1, <1>2, MaxIn
<1>4. Cardinality(S \ {Max(S)}) = Cardinality(S) - 1
  BY <1>2, <1>3, FS_RemoveElement
<1> QED
  BY <1>2, <1>3, <1>4

\* The recursion of FoldLeft for the summands v, over the subsets of 1..n.
FromLast(g, v, n) ==
  [S \in SUBSET (1..n) |->
     IF S = {} THEN 0 ELSE g[S \ {Max(S)}] + v[Max(S)]]

\* A sum that takes its numbers from the last one down.
LEMMA SumFromLast ==
  ASSUME NEW n \in Nat, NEW v, \A k \in 1..n : v[k] \in Nat,
         NEW g, g = FromLast(g, v, n)
  PROVE  g[1..n] = Sum(v, 1..n)
<1> DEFINE N == {k \in Nat : \A S \in SUBSET (1..n) :
                               Cardinality(S) = k => g[S] = Sum(v, S)}
<1>0. IsFiniteSet(1..n)
  BY FS_Interval
<1>1. \A S \in SUBSET (1..n) :
        /\ IsFiniteSet(S) /\ Cardinality(S) \in Nat
        /\ g[S] = IF S = {} THEN 0 ELSE g[S \ {Max(S)}] + v[Max(S)]
  BY <1>0, FS_Subset, FS_CardinalityType DEF FromLast
<1>2. 0 \in N
  BY <1>1, FS_EmptySet, SumEmpty
<1>3. ASSUME NEW k \in Nat, k \in N PROVE k + 1 \in N
  <2> SUFFICES ASSUME NEW S \in SUBSET (1..n), Cardinality(S) = k + 1
               PROVE  g[S] = Sum(v, S)
    OBVIOUS
  <2>1. S # {}
    BY <1>1, FS_EmptySet
  <2> DEFINE R == S \ {Max(S)}
  <2>2. Max(S) \in S /\ Cardinality(R) = k /\ R \in SUBSET (1..n)
    <3>1. /\ Max(S) \in S
          /\ Cardinality(S \ {Max(S)}) = Cardinality(S) - 1
      BY <2>1, LastIn
    <3>2. Cardinality(S) - 1 = k
      OBVIOUS
    <3> QED
      BY <3>1, <3>2
  <2>3. g[R] = Sum(v, R)
    BY <1>3, <2>2
  <2>4. IsFiniteSet(S) /\ \A x \in S : v[x] \in Nat
    BY <1>1
  <2>5. Sum(v, S) = v[Max(S)] + Sum(v, R)
    BY <2>2, <2>4, SumRemove
  <2>6. Sum(v, R) \in Nat
    <3>1. IsFiniteSet(R) /\ \A x \in R : v[x] \in Nat
      BY <1>1, <2>2
    <3> QED
      BY <3>1, SumNat
  <2>7. v[Max(S)] \in Nat
    BY <2>2
  <2>8. g[S] = g[R] + v[Max(S)]
    BY <1>1, <2>1
  <2> HIDE DEF R
  <2> QED
    BY <2>3, <2>5, <2>6, <2>7, <2>8
<1> HIDE DEF N
<1>4. Cardinality(1..n) \in N
  BY <1>1, <1>2, <1>3, NatInduct
<1>5. 1..n \in SUBSET (1..n)
  OBVIOUS
<1> QED
  BY <1>4, <1>5 DEF N

LEMMA SumFromLastExists ==
  ASSUME NEW n \in Nat, NEW v, \A k \in 1..n : v[k] \in Nat
  PROVE  \E g : g = FromLast(g, v, n)
<1> DEFINE g == [S \in SUBSET (1..n) |-> Sum(v, S)]
<1>0. IsFiniteSet(1..n)
  BY FS_Interval
<1>1. ASSUME NEW S \in SUBSET (1..n)
      PROVE  Sum(v, S) =
               IF S = {} THEN 0 ELSE g[S \ {Max(S)}] + v[Max(S)]
  <2>1. CASE S = {}
    BY <2>1, SumEmpty
  <2>2. CASE S # {}
    <3> DEFINE R == S \ {Max(S)}
    <3>1. Max(S) \in S /\ R \in SUBSET (1..n) /\ IsFiniteSet(S)
      BY <2>2, LastIn
    <3>2. \A x \in S : v[x] \in Nat
      OBVIOUS
    <3>3. Sum(v, S) = v[Max(S)] + Sum(v, R)
      BY <3>1, <3>2, SumRemove
    <3>4. IsFiniteSet(R) /\ \A x \in R : v[x] \in Nat
      BY <1>0, <3>1, <3>2, FS_Subset
    <3>5. Sum(v, R) \in Nat
      BY <3>4, SumNat
    <3>6. v[Max(S)] \in Nat /\ g[R] = Sum(v, R)
      BY <3>1, <3>2
    <3>8. S \ {Max(S)} = R
      OBVIOUS
    <3> HIDE DEF R, g
    <3>7. Sum(v, S) = g[R] + v[Max(S)]
      BY <3>3, <3>5, <3>6
    <3> QED
      BY <2>2, <3>7, <3>8
  <2> QED
    BY <2>1, <2>2
<1>2. g = FromLast(g, v, n)
  BY <1>1 DEF FromLast
<1> QED
  BY <1>2
=============================================================================
