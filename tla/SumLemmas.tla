------------------------------ MODULE SumLemmas ------------------------------
(***************************************************************************)
(* Sums over finite sets, as MapThenSumSet of FiniteSetsExt works them     *)
(* out: element after element, in an order of its choice.  What they are   *)
(* is an induction over the set; the induction is done here once, as the   *)
(* choice of a least counterexample, and the modules whose actions add     *)
(* shares up use the lemmas at the end.                                    *)
(***************************************************************************)
EXTENDS Integers, FiniteSets, FiniteSetTheorems, WellFoundedInduction, TLAPS

Pick(s) == CHOOSE x \in s : TRUE

\* The value of a sum over s, given those over its subsets.
Adding(it, F, s) == IF s = {} THEN 0 ELSE F[Pick(s)] + it[s \ {Pick(s)}]

\* it has the sums of F over the subsets of S.
IsSum(it, F, S) == it = [s \in SUBSET S |-> Adding(it, F, s)]

LEMMA LeastNatural ==
  ASSUME NEW N \in SUBSET Nat, N # {}
  PROVE  \E n \in N : \A k \in N : n <= k
<1>1. PICK n \in N : \A k \in N : <<k, n>> \notin OpToRel(<, Nat)
  <2>1. IsWellFoundedOn(OpToRel(<, Nat), Nat)
    BY NatLessThanWellFounded
  <2> QED BY <2>1, WFMin
<1>2. \A k \in N : ~(k < n)
  BY <1>1 DEF OpToRel
<1> QED BY <1>2

LEMMA PickIsIn ==
  ASSUME NEW s, s # {}
  PROVE  Pick(s) \in s
BY DEF Pick

\* Among the sets of a family of subsets there is one with the fewest elements.
LEMMA SmallestSet ==
  ASSUME NEW S, IsFiniteSet(S), NEW B \in SUBSET (SUBSET S), B # {}
  PROVE  \E s \in B : \A t \in B : Cardinality(s) <= Cardinality(t)
<1> DEFINE N == {Cardinality(s) : s \in B}
<1>1. N \in SUBSET Nat /\ N # {}
  <2>1. ASSUME NEW s \in B PROVE Cardinality(s) \in Nat
    <3>1. IsFiniteSet(s)
      BY FS_Subset
    <3> QED BY <3>1, FS_CardinalityType
  <2> QED BY <2>1
<1>2. PICK n \in N : \A k \in N : n <= k
  BY <1>1, LeastNatural
<1> QED BY <1>2

LEMMA SmallerSet ==
  ASSUME NEW S, IsFiniteSet(S), NEW s \in SUBSET S, NEW x \in s
  PROVE  /\ s \ {x} \in SUBSET S
         /\ Cardinality(s) \in Nat /\ Cardinality(s \ {x}) \in Nat
         /\ Cardinality(s \ {x}) = Cardinality(s) - 1
<1>1. IsFiniteSet(s)
  BY FS_Subset
<1>2. Cardinality(s \ {x}) = Cardinality(s) - 1 /\ IsFiniteSet(s \ {x})
  BY <1>1, FS_RemoveElement
<1> QED BY <1>1, <1>2, FS_CardinalityType

\* There are such sums, whatever F is.
LEMMA SumExists ==
  ASSUME NEW S, IsFiniteSet(S), NEW F
  PROVE  \E it : IsSum(it, F, S)
<1> DEFINE Up(n) == {s \in SUBSET S : Cardinality(s) <= n}
           Part(g, n) == g = [s \in Up(n) |-> Adding(g, F, s)]
           Bad == {n \in Nat : ~ \E g : Part(g, n)}
<1>1. ASSUME NEW s \in SUBSET S, s # {}
      PROVE  s \ {Pick(s)} \in SUBSET S /\ Cardinality(s) \in Nat
             /\ Cardinality(s \ {Pick(s)}) \in Nat
             /\ Cardinality(s \ {Pick(s)}) = Cardinality(s) - 1
  BY <1>1, PickIsIn, SmallerSet
<1>2. Bad = {}
  <2> SUFFICES ASSUME Bad # {} PROVE FALSE
    OBVIOUS
  <2>1. PICK m \in Bad : \A k \in Bad : m <= k
    BY LeastNatural
  <2>2. m \in Nat /\ ~ \E g : Part(g, m)
    OBVIOUS
  <2>3. CASE m = 0
    <3> DEFINE g == [s \in Up(0) |-> 0]
    <3>1. \A s \in Up(0) : s = {}
      <4> SUFFICES ASSUME NEW s \in Up(0), s # {} PROVE FALSE
        OBVIOUS
      <4>1. s \in SUBSET S /\ Cardinality(s) <= 0
        OBVIOUS
      <4>2. Cardinality(s) \in Nat /\ Cardinality(s) - 1 \in Nat
        BY <1>1, <4>1
      <4> QED BY <4>1, <4>2
    <3>2. \A s \in Up(0) : Adding(g, F, s) = 0
      BY <3>1 DEF Adding
    <3>3. g = [s \in Up(0) |-> Adding(g, F, s)]
      BY <3>2
    <3> QED BY <2>2, <2>3, <3>3
  <2>4. CASE m # 0
    <3>1. m - 1 \in Nat /\ m - 1 \notin Bad
      <4>1. m - 1 \in Nat /\ ~(m <= m - 1)
        BY <2>2, <2>4
      <4> HIDE DEF Bad
      <4> QED BY <2>1, <4>1
    <3>2. PICK g : Part(g, m - 1)
      BY <3>1
    <3> DEFINE h == [s \in Up(m) |-> Adding(g, F, s)]
    <3>3. ASSUME NEW s \in Up(m) PROVE Adding(g, F, s) = Adding(h, F, s)
      <4>1. CASE s = {}
        BY <4>1 DEF Adding
      <4>2. CASE s # {}
        <5> DEFINE t == s \ {Pick(s)}
        <5>1. t \in Up(m - 1) /\ t \in Up(m)
          BY <1>1, <2>2, <4>2
        <5>2. g[t] = Adding(g, F, t)
          BY <3>2, <5>1
        <5>3. h[t] = Adding(g, F, t)
          BY <5>1
        <5> QED BY <5>2, <5>3 DEF Adding
      <4> QED BY <4>1, <4>2
    <3>4. h = [s \in Up(m) |-> Adding(h, F, s)]
      BY <3>3
    <3> QED BY <2>2, <3>4
  <2> QED BY <2>3, <2>4
<1>3. Cardinality(S) \in Nat /\ Up(Cardinality(S)) = SUBSET S
  BY FS_CardinalityType, FS_Subset
<1>4. PICK g : Part(g, Cardinality(S))
  BY <1>2, <1>3
<1>5. g = [s \in SUBSET S |-> Adding(g, F, s)]
  BY <1>3, <1>4
<1> QED BY <1>5 DEF IsSum

-----------------------------------------------------------------------------
(* What a sum is *)

LEMMA SumStep ==
  ASSUME NEW S, NEW F, NEW it, IsSum(it, F, S), NEW s \in SUBSET S
  PROVE  it[s] = IF s = {} THEN 0 ELSE F[Pick(s)] + it[s \ {Pick(s)}]
BY DEF IsSum, Adding

\* A sum of integers is an integer,
LEMMA SumIsInt ==
  ASSUME NEW S, IsFiniteSet(S), NEW F \in [S -> Int], NEW it, IsSum(it, F, S)
  PROVE  \A s \in SUBSET S : it[s] \in Int
<1> DEFINE B == {t \in SUBSET S : it[t] \notin Int}
<1>1. B = {}
  <2> SUFFICES ASSUME B # {} PROVE FALSE
    OBVIOUS
  <2>1. PICK t \in B : \A u \in B : Cardinality(t) <= Cardinality(u)
    BY SmallestSet
  <2>2. CASE t = {}
    <3>1. it[t] = 0
      BY <2>2, SumStep
    <3> QED BY <3>1
  <2>3. CASE t # {}
    <3>1. Pick(t) \in t /\ t \in SUBSET S
      BY <2>3, PickIsIn
    <3> DEFINE u == t \ {Pick(t)}
    <3>2. u \in SUBSET S /\ ~(Cardinality(t) <= Cardinality(u))
      <4>1. /\ u \in SUBSET S
            /\ Cardinality(t) \in Nat /\ Cardinality(u) = Cardinality(t) - 1
        BY <3>1, SmallerSet
      <4> QED BY <4>1
    <3>3. it[u] \in Int
      BY <2>1, <3>2
    <3>4. it[t] = F[Pick(t)] + it[u]
      BY <2>3, <3>1, SumStep
    <3>5. F[Pick(t)] \in Int
      BY <3>1
    <3> QED BY <3>3, <3>4, <3>5
  <2> QED BY <2>2, <2>3
<1> QED BY <1>1

\* ... and one of naturals a natural.
LEMMA SumIsNat ==
  ASSUME NEW S, IsFiniteSet(S), NEW F \in [S -> Nat], NEW it, IsSum(it, F, S)
  PROVE  \A s \in SUBSET S : it[s] \in Nat
<1> DEFINE B == {t \in SUBSET S : it[t] \notin Nat}
<1>1. B = {}
  <2> SUFFICES ASSUME B # {} PROVE FALSE
    OBVIOUS
  <2>1. PICK t \in B : \A u \in B : Cardinality(t) <= Cardinality(u)
    BY SmallestSet
  <2>2. CASE t = {}
    <3>1. it[t] = 0
      BY <2>2, SumStep
    <3> QED BY <3>1
  <2>3. CASE t # {}
    <3>1. Pick(t) \in t /\ t \in SUBSET S
      BY <2>3, PickIsIn
    <3> DEFINE u == t \ {Pick(t)}
    <3>2. u \in SUBSET S /\ ~(Cardinality(t) <= Cardinality(u))
      <4>1. /\ u \in SUBSET S
            /\ Cardinality(t) \in Nat /\ Cardinality(u) = Cardinality(t) - 1
        BY <3>1, SmallerSet
      <4> QED BY <4>1
    <3>3. it[u] \in Nat
      BY <2>1, <3>2
    <3>4. it[t] = F[Pick(t)] + it[u]
      BY <2>3, <3>1, SumStep
    <3>5. F[Pick(t)] \in Nat
      BY <3>1
    <3> QED BY <3>3, <3>4, <3>5
  <2> QED BY <2>2, <2>3
<1> QED BY <1>1

\* Any element may be taken first.
LEMMA SumTakes ==
  ASSUME NEW S, IsFiniteSet(S), NEW F \in [S -> Int], NEW it, IsSum(it, F, S)
  PROVE  \A s \in SUBSET S : \A x \in s : it[s] = F[x] + it[s \ {x}]
<1> DEFINE B == {t \in SUBSET S : \E x \in t : it[t] # F[x] + it[t \ {x}]}
<1>1. B = {}
  <2> SUFFICES ASSUME B # {} PROVE FALSE
    OBVIOUS
  <2>1. PICK t \in B : \A u \in B : Cardinality(t) <= Cardinality(u)
    BY SmallestSet
  <2>2. PICK x \in t : it[t] # F[x] + it[t \ {x}]
    OBVIOUS
  <2> DEFINE c == Pick(t)
  <2>3. c \in t /\ it[t] = F[c] + it[t \ {c}] /\ t \in SUBSET S
    BY PickIsIn, SumStep
  <2>4. c # x
    BY <2>2, <2>3
  <2>5. ASSUME NEW y \in t, NEW z \in t \ {y}
        PROVE  it[t \ {y}] = F[z] + it[(t \ {y}) \ {z}]
    <3>1. /\ t \ {y} \in SUBSET S
          /\ Cardinality(t) \in Nat /\ Cardinality(t \ {y}) = Cardinality(t) - 1
      BY <2>3, SmallerSet
    <3>2. ~(Cardinality(t) <= Cardinality(t \ {y}))
      BY <3>1
    <3> QED BY <2>1, <3>1, <3>2
  <2>6. it[t \ {c}] = F[x] + it[(t \ {c}) \ {x}]
    BY <2>3, <2>4, <2>5
  <2>7. it[t \ {x}] = F[c] + it[(t \ {x}) \ {c}]
    BY <2>3, <2>4, <2>5
  <2>8. (t \ {c}) \ {x} = (t \ {x}) \ {c} /\ (t \ {c}) \ {x} \in SUBSET S
    BY <2>3
  <2> DEFINE r == it[(t \ {c}) \ {x}]
  <2>9. F[c] \in Int /\ F[x] \in Int /\ r \in Int
    BY <2>2, <2>3, <2>8, SumIsInt
  <2>10. it[t] = F[c] + (F[x] + r)
    BY <2>3, <2>6
  <2>11. it[t \ {x}] = F[c] + r
    BY <2>7, <2>8
  <2> HIDE DEF c, r
  <2> QED BY <2>2, <2>9, <2>10, <2>11
<1> QED BY <1>1

\* A sum depends on its terms alone.
LEMMA SumOfSame ==
  ASSUME NEW S, IsFiniteSet(S), NEW F, NEW it, IsSum(it, F, S),
         NEW R, IsFiniteSet(R), NEW G, NEW jt, IsSum(jt, G, R),
         NEW s \in SUBSET S, s \in SUBSET R, \A x \in s : F[x] = G[x]
  PROVE  it[s] = jt[s]
<1> DEFINE B == {t \in SUBSET s : it[t] # jt[t]}
<1>0. \A v \in SUBSET R : jt[v] = IF v = {} THEN 0 ELSE G[Pick(v)] + jt[v \ {Pick(v)}]
  BY DEF IsSum, Adding
<1>1. B = {}
  <2> SUFFICES ASSUME B # {} PROVE FALSE
    OBVIOUS
  <2>0. B \in SUBSET (SUBSET S)
    OBVIOUS
  <2>1. PICK t \in B : \A u \in B : Cardinality(t) <= Cardinality(u)
    BY <2>0, SmallestSet
  <2>2. CASE t = {}
    BY <2>2, SumStep
  <2>3. CASE t # {}
    <3>1. Pick(t) \in t /\ t \in SUBSET S /\ t \in SUBSET R
      BY <2>3, PickIsIn
    <3> DEFINE u == t \ {Pick(t)}
    <3>2. u \in SUBSET s /\ ~(Cardinality(t) <= Cardinality(u))
      <4>1. /\ u \in SUBSET S
            /\ Cardinality(t) \in Nat /\ Cardinality(u) = Cardinality(t) - 1
        BY <3>1, SmallerSet
      <4> QED BY <3>1, <4>1
    <3>3. it[u] = jt[u]
      BY <2>1, <3>2
    <3>4. it[t] = IF t = {} THEN 0 ELSE F[Pick(t)] + it[t \ {Pick(t)}]
      BY <3>1, SumStep
    <3>5. jt[t] = IF t = {} THEN 0 ELSE G[Pick(t)] + jt[t \ {Pick(t)}]
      BY <3>1, <1>0
    <3>6. F[Pick(t)] = G[Pick(t)]
      BY <3>1
    <3> QED BY <2>3, <3>3, <3>4, <3>5, <3>6
  <2> QED BY <2>2, <2>3
<1> QED BY <1>1

\* One term changes.
LEMMA SumChanges ==
  ASSUME NEW S, IsFiniteSet(S), NEW F \in [S -> Int], NEW it, IsSum(it, F, S),
         NEW G \in [S -> Int], NEW jt, IsSum(jt, G, S),
         NEW x \in S, \A y \in S \ {x} : F[y] = G[y]
  PROVE  jt[S] = it[S] - F[x] + G[x]
<1>0. S \in SUBSET S /\ S \ {x} \in SUBSET S
  OBVIOUS
<1>1. it[S] = F[x] + it[S \ {x}]
  BY <1>0, SumTakes
<1>2. jt[S] = G[x] + jt[S \ {x}]
  BY <1>0, SumTakes
<1>3. it[S \ {x}] = jt[S \ {x}]
  BY <1>0, SumOfSame
<1>4. it[S \ {x}] \in Int
  BY <1>0, SumIsInt
<1>5. F[x] \in Int /\ G[x] \in Int
  OBVIOUS
<1> QED BY <1>1, <1>2, <1>3, <1>4, <1>5

\* A sum of naturals is no less than any of its terms.
LEMMA SumBoundsTerms ==
  ASSUME NEW S, IsFiniteSet(S), NEW F \in [S -> Nat], NEW it, IsSum(it, F, S),
         NEW s \in SUBSET S, NEW x \in s
  PROVE  it[s] >= F[x]
<1>1. it[s] = F[x] + it[s \ {x}]
  <2>1. F \in [S -> Int]
    OBVIOUS
  <2> QED BY <2>1, SumTakes
<1>2. it[s \ {x}] \in Nat /\ F[x] \in Nat
  BY SumIsNat
<1> QED BY <1>1, <1>2

\* A sum of zeros is zero,
LEMMA SumOfNothing ==
  ASSUME NEW S, IsFiniteSet(S), NEW F, \A x \in S : F[x] = 0, NEW it, IsSum(it, F, S)
  PROVE  \A s \in SUBSET S : it[s] = 0
<1> DEFINE B == {t \in SUBSET S : it[t] # 0}
<1>0. \A v \in SUBSET S : it[v] = IF v = {} THEN 0 ELSE F[Pick(v)] + it[v \ {Pick(v)}]
  BY DEF IsSum, Adding
<1>1. B = {}
  <2> SUFFICES ASSUME B # {} PROVE FALSE
    OBVIOUS
  <2>1. PICK t \in B : \A u \in B : Cardinality(t) <= Cardinality(u)
    BY SmallestSet
  <2>2. CASE t = {}
    BY <1>0, <2>2
  <2>3. CASE t # {}
    <3>1. Pick(t) \in t /\ t \in SUBSET S
      BY <2>3, PickIsIn
    <3> DEFINE u == t \ {Pick(t)}
    <3>2. u \in SUBSET S /\ ~(Cardinality(t) <= Cardinality(u))
      <4>1. /\ u \in SUBSET S
            /\ Cardinality(t) \in Nat /\ Cardinality(u) = Cardinality(t) - 1
        BY <3>1, SmallerSet
      <4> QED BY <4>1
    <3>3. it[u] = 0
      BY <2>1, <3>2
    <3>4. it[t] = F[Pick(t)] + it[u]
      BY <1>0, <2>3, <3>1
    <3>5. F[Pick(t)] = 0
      BY <3>1
    <3> QED BY <3>3, <3>4, <3>5
  <2> QED BY <2>2, <2>3
<1> QED BY <1>1

\* ... and where a sum of naturals is zero, so are they.
LEMMA SumOfZeros ==
  ASSUME NEW S, IsFiniteSet(S), NEW F \in [S -> Nat], NEW it, IsSum(it, F, S),
         NEW s \in SUBSET S, it[s] = 0
  PROVE  \A x \in s : F[x] = 0
<1> SUFFICES ASSUME NEW x \in s PROVE F[x] = 0
  OBVIOUS
<1>1. it[s] >= F[x] /\ F[x] \in Nat
  BY SumBoundsTerms
<1> QED BY <1>1
=============================================================================
