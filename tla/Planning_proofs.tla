-------------------------- MODULE Planning_proofs --------------------------
(***************************************************************************)
(* Proofs about the batch scheduler: what the slots of a batch hold, who   *)
(* may displace whom, and what the policy of a company promises; and about *)
(* tariffs: that the prices of a curve are current.                        *)
(***************************************************************************)
EXTENDS BatchScheduler, Tariffs, FiniteSetTheorems, WellFoundedInduction, TLAPS

(***************************************************************************)
(* Orders on finite sets                                                   *)
(***************************************************************************)

Total(R, S) == \A x, y \in S : x # y => <<x, y>> \in R \/ <<y, x>> \in R
HasLeast(R, S) == \E x \in S : \A y \in S \ {x} : <<x, y>> \in R

\* A finite set that is not empty has a least member in every total order.
LEMMA LeastExists ==
    ASSUME NEW S, IsFiniteSet(S), S # {}, NEW R, Total(R, S), IsTransitivelyClosedOn(R, S)
    PROVE  HasLeast(R, S)
<1> USE DEF Total, HasLeast, IsTransitivelyClosedOn
<1> DEFINE Has(T) == \E x \in T : \A y \in T \ {x} : <<x, y>> \in R
           Without == {T \in SUBSET S : T # {} /\ ~Has(T)}
<1>1. SUFFICES ASSUME Without # {} PROVE FALSE
  OBVIOUS
<1>2. PICK T \in Without : \A U \in Without : <<U, T>> \notin StrictSubsetOrdering(S)
  <2>1. Without \subseteq FiniteSubsetsOf(S)
    BY FS_FiniteSubsetsOfFinite, FS_Subset DEF FiniteSubsetsOf
  <2>2. IsWellFoundedOn(StrictSubsetOrdering(S), FiniteSubsetsOf(S))
    BY FS_StrictSubsetOrderingWellFounded
  <2> HIDE DEF Without
  <2> QED
    BY <1>1, <2>1, <2>2, WFMin
<1>3. PICK t \in T : TRUE
  OBVIOUS
<1> DEFINE U == T \ {t}
<1>4. U # {}
  <2>1. SUFFICES ASSUME U = {} PROVE FALSE
    OBVIOUS
  <2>2. Has(T)
    BY <1>3, <2>1
  <2> QED
    BY <2>2
<1>5. Has(U)
  <2>1. <<U, T>> \in StrictSubsetOrdering(S)
    BY <1>3 DEF StrictSubsetOrdering
  <2>2. U \notin Without
    BY <1>2, <2>1
  <2> QED
    BY <1>4, <2>2
<1>6. PICK x \in U : \A y \in U \ {x} : <<x, y>> \in R
  BY <1>5
<1>7. x \in S /\ t \in S /\ x # t
  BY <1>3
<1>8. Has(T)
  <2>1. CASE <<x, t>> \in R
    BY <2>1, <1>6
  <2>2. CASE <<t, x>> \in R
    <3>1. \A y \in T \ {t} : <<t, y>> \in R
      <4>1. TAKE y \in T \ {t}
      <4>2. CASE y = x
        BY <4>2, <2>2
      <4>3. CASE y # x
        BY <4>3, <2>2, <1>6, <1>7
      <4> QED
        BY <4>2, <4>3
    <3> QED
      BY <3>1, <1>3
  <2> QED
    BY <2>1, <2>2, <1>7
<1> QED
  BY <1>8

\* The first place where two different keys of equal length differ decides.
LEMMA LexTotal ==
    ASSUME NEW N \in Nat, NEW a \in [1 .. N -> Int], NEW b \in [1 .. N -> Int], a # b
    PROVE  LexLess(a, b) \/ LexLess(b, a)
<1> DEFINE D == {n \in 1 .. N : a[n] # b[n]}
<1>1. D # {}
  OBVIOUS
<1>2. IsFiniteSet(D)
  BY FS_Interval, FS_Subset
<1> DEFINE R == {e \in Int \X Int : e[1] < e[2]}
<1>3. D \subseteq Int /\ \A x, y \in Int : <<x, y>> \in R <=> x < y
  <2>1. D \subseteq Int
    OBVIOUS
  <2>2. \A x, y \in Int : <<x, y>> \in R <=> x < y
    OBVIOUS
  <2> QED
    BY <2>1, <2>2
<1>4. Total(R, D) /\ IsTransitivelyClosedOn(R, D)
  <2> HIDE DEF R, D
  <2>1. ASSUME NEW x \in D, NEW y \in D, x # y PROVE <<x, y>> \in R \/ <<y, x>> \in R
    <3>1. x \in Int /\ y \in Int /\ (x < y \/ y < x)
      BY <1>3, <2>1
    <3> QED
      BY <3>1, <1>3
  <2>2. ASSUME NEW x \in D, NEW y \in D, NEW z \in D, <<x, y>> \in R, <<y, z>> \in R
        PROVE  <<x, z>> \in R
    <3>1. x \in Int /\ y \in Int /\ z \in Int /\ x < y /\ y < z
      BY <1>3, <2>2
    <3>2. x < z
      BY <3>1
    <3> QED
      BY <3>1, <3>2, <1>3
  <2> QED
    BY <2>1, <2>2 DEF Total, IsTransitivelyClosedOn
<1>5. PICK n \in D : \A m \in D \ {n} : <<n, m>> \in R
  <2> HIDE DEF R, D
  <2>1. HasLeast(R, D)
    BY <1>1, <1>2, <1>4, LeastExists
  <2> QED
    BY <2>1 DEF HasLeast
<1>6. \A m \in 1 .. n - 1 : a[m] = b[m]
  <2>1. TAKE m \in 1 .. n - 1
  <2>2. m \in 1 .. N /\ ~(n < m) /\ m # n
    BY <1>2
  <2>3. m \notin D
    BY <1>5, <2>2
  <2> QED
    BY <2>2, <2>3
<1>7. n \in DOMAIN a /\ n \in DOMAIN b /\ (a[n] < b[n] \/ b[n] < a[n])
  OBVIOUS
<1> HIDE DEF D, R
<1>8. CASE a[n] < b[n]
  BY <1>6, <1>7, <1>8 DEF LexLess
<1>9. CASE b[n] < a[n]
  <2>1. \A m \in 1 .. n - 1 : b[m] = a[m]
    BY <1>6
  <2> QED
    BY <2>1, <1>7, <1>9 DEF LexLess
<1> QED
  BY <1>7, <1>8, <1>9

LEMMA LexIrreflexive ==
    ASSUME NEW N \in Nat, NEW a \in [1 .. N -> Int]
    PROVE  ~LexLess(a, a)
BY DEF LexLess

LEMMA LexTransitive ==
    ASSUME NEW N \in Nat, NEW a \in [1 .. N -> Int], NEW b \in [1 .. N -> Int],
           NEW c \in [1 .. N -> Int], LexLess(a, b), LexLess(b, c)
    PROVE  LexLess(a, c)
<1>1. PICK n \in 1 .. N : a[n] < b[n] /\ \A m \in 1 .. n - 1 : a[m] = b[m]
  BY DEF LexLess
<1>2. PICK k \in 1 .. N : b[k] < c[k] /\ \A m \in 1 .. k - 1 : b[m] = c[m]
  BY DEF LexLess
<1>3. CASE n < k
  <2>1. a[n] < c[n]
    BY <1>1, <1>2, <1>3
  <2>2. \A m \in 1 .. n - 1 : a[m] = c[m]
    BY <1>1, <1>2, <1>3
  <2> QED
    BY <2>1, <2>2 DEF LexLess
<1>4. CASE n = k
  <2>1. a[n] < c[n]
    BY <1>1, <1>2, <1>4
  <2>2. \A m \in 1 .. n - 1 : a[m] = c[m]
    BY <1>1, <1>2, <1>4
  <2> QED
    BY <2>1, <2>2 DEF LexLess
<1>5. CASE k < n
  <2>1. a[k] < c[k]
    BY <1>1, <1>2, <1>5
  <2>2. \A m \in 1 .. k - 1 : a[m] = c[m]
    BY <1>1, <1>2, <1>5
  <2> QED
    BY <2>1, <2>2 DEF LexLess
<1> QED
  BY <1>3, <1>4, <1>5

\* Two keys are not each before the other.
LEMMA LexAsymmetric ==
    ASSUME NEW N \in Nat, NEW a \in [1 .. N -> Int], NEW b \in [1 .. N -> Int], LexLess(a, b)
    PROVE  ~LexLess(b, a)
BY LexTransitive, LexIrreflexive

\* A finite set whose members have different keys has one with the least key.
LEMMA LexLeast ==
    ASSUME NEW S, IsFiniteSet(S), S # {}, NEW N \in Nat, NEW key \in [S -> [1 .. N -> Int]],
           \A x, y \in S : key[x] = key[y] => x = y
    PROVE  \E x \in S : \A y \in S \ {x} : LexLess(key[x], key[y])
<1> DEFINE R == {e \in S \X S : LexLess(key[e[1]], key[e[2]])}
<1>1. \A x, y \in S : <<x, y>> \in R <=> LexLess(key[x], key[y])
  OBVIOUS
<1> HIDE DEF R
<1>2. Total(R, S)
  <2>1. SUFFICES ASSUME NEW x \in S, NEW y \in S, x # y
                 PROVE  LexLess(key[x], key[y]) \/ LexLess(key[y], key[x])
    BY <1>1 DEF Total
  <2>2. key[x] # key[y]
    BY <2>1
  <2> QED
    BY <2>2, LexTotal
<1>3. IsTransitivelyClosedOn(R, S)
  BY <1>1, LexTransitive DEF IsTransitivelyClosedOn
<1>4. HasLeast(R, S)
  BY <1>2, <1>3, LeastExists
<1> QED
  BY <1>1, <1>4 DEF HasLeast

(***************************************************************************)
(* Ranking                                                                 *)
(***************************************************************************)

\* Windows that can be ranked: finitely many, no two with the same start.
Rankable(candidates) ==
    /\ IsFiniteSet(candidates)
    /\ candidates \subseteq CandidateRow
    /\ \A c, d \in candidates : c.start = d.start => c = d

Priced(candidates, cost) == \A c \in candidates : cost[c] \in Figure

Width(p) == IF p.policy = "CARBON_CONSTRAINED" THEN 4 ELSE 3

LEMMA OrZeroType ==
    ASSUME NEW v \in Figure
    PROVE  OrZero(v) \in Nat
BY PolicyAssumption DEF Figure, OrZero

LEMMA SortKeyType ==
    ASSUME NEW candidates, Rankable(candidates), NEW p \in Policy, NEW cost,
           Priced(candidates, cost), NEW c \in candidates
    PROVE  SortKey(c, candidates, p, cost) \in [1 .. Width(p) -> Int]
<1> DEFINE carbon == OrZero(c.carbon)
           price == OrZero(cost[c])
           start == c.start
<1>1. carbon \in Int /\ price \in Int /\ start \in Int
  BY OrZeroType DEF Rankable, Priced, CandidateRow
<1>2. p.policy \in Policies
  BY DEF Policy
<1> HIDE DEF carbon, price, start
<1>3. CASE p.policy = "CARBON_FIRST"
  <2>1. SortKey(c, candidates, p, cost) = <<carbon, price, start>>
    BY <1>3 DEF SortKey, carbon, price, start
  <2> QED
    BY <2>1, <1>1, <1>3 DEF Width
<1>4. CASE p.policy = "COST_FIRST"
  <2>1. SortKey(c, candidates, p, cost) = <<price, carbon, start>>
    BY <1>4 DEF SortKey, carbon, price, start
  <2> QED
    BY <2>1, <1>1, <1>4 DEF Width
<1>5. CASE p.policy = "CARBON_CONSTRAINED"
  <2>1. SortKey(c, candidates, p, cost) \in {<<0, price, start, 0>>, <<1, carbon, price, start>>}
    BY <1>5 DEF SortKey, carbon, price, start
  <2> QED
    BY <2>1, <1>1, <1>5 DEF Width
<1> QED
  BY <1>2, <1>3, <1>4, <1>5 DEF Policies

\* No two windows have the same key, so that there are no ties.
LEMMA SortKeyInjective ==
    ASSUME NEW candidates, Rankable(candidates), NEW p \in Policy, NEW cost,
           NEW c \in candidates, NEW d \in candidates,
           SortKey(c, candidates, p, cost) = SortKey(d, candidates, p, cost)
    PROVE  c = d
<1>1. p.policy \in Policies
  BY DEF Policy
<1>2. SUFFICES c.start = d.start
  BY DEF Rankable
<1>3. CASE p.policy # "CARBON_CONSTRAINED"
  BY <1>1, <1>3 DEF SortKey, Policies
<1>4. CASE p.policy = "CARBON_CONSTRAINED"
  BY <1>4 DEF SortKey
<1> QED
  BY <1>3, <1>4

\* Nothing is before the window that has rank 0.
LEMMA RankZero ==
    ASSUME NEW candidates, IsFiniteSet(candidates), NEW p, NEW cost, NEW c
    PROVE  RankOf(c, candidates, p, cost) = 0
             <=> \A d \in candidates : ~LexLess(SortKey(d, candidates, p, cost),
                                               SortKey(c, candidates, p, cost))
<1> DEFINE Better == {d \in candidates : LexLess(SortKey(d, candidates, p, cost),
                                                SortKey(c, candidates, p, cost))}
<1>1. IsFiniteSet(Better)
  BY FS_Subset
<1>2. Cardinality(Better) = 0 <=> Better = {}
  BY <1>1, FS_EmptySet
<1> QED
  BY <1>2 DEF RankOf

\* The first of the ranked windows is one of them, and its key is the least.
LEMMA FirstIsLeast ==
    ASSUME NEW candidates, Rankable(candidates), candidates # {}, NEW p \in Policy, NEW cost,
           Priced(candidates, cost)
    PROVE  /\ First(candidates, p, cost) \in candidates
           /\ \A d \in candidates \ {First(candidates, p, cost)} :
                 LexLess(SortKey(First(candidates, p, cost), candidates, p, cost),
                         SortKey(d, candidates, p, cost))
<1> DEFINE Key(c) == SortKey(c, candidates, p, cost)
           key == [c \in candidates |-> Key(c)]
<1>1. Width(p) \in Nat
  BY DEF Width
<1>2. \A c \in candidates : Key(c) \in [1 .. Width(p) -> Int]
  BY SortKeyType
<1>3. IsFiniteSet(candidates)
  BY DEF Rankable
<1>4. PICK m \in candidates : \A d \in candidates \ {m} : LexLess(Key(m), Key(d))
  <2>1. key \in [candidates -> [1 .. Width(p) -> Int]]
    BY <1>2
  <2>2. \A x, y \in candidates : key[x] = key[y] => x = y
    BY SortKeyInjective
  <2>3. \E x \in candidates : \A y \in candidates \ {x} : LexLess(key[x], key[y])
    <3> HIDE DEF key
    <3> QED
      BY <2>1, <2>2, <1>1, <1>3, LexLeast
  <2> QED
    BY <2>3
<1>5. \A d \in candidates : RankOf(d, candidates, p, cost) = 0 <=> d = m
  <2>1. TAKE d \in candidates
  <2>2. RankOf(d, candidates, p, cost) = 0
          <=> \A e \in candidates : ~LexLess(Key(e), Key(d))
    BY <1>3, RankZero
  <2>3. CASE d = m
    <3>1. ASSUME NEW e \in candidates, LexLess(Key(e), Key(m)) PROVE FALSE
      <4>1. CASE e = m
        BY <3>1, <4>1, <1>1, <1>2, LexIrreflexive
      <4>2. CASE e # m
        BY <3>1, <4>2, <1>1, <1>2, <1>4, LexAsymmetric
      <4> QED
        BY <4>1, <4>2
    <3> QED
      BY <2>2, <2>3, <3>1
  <2>4. CASE d # m
    BY <2>2, <2>4, <1>4
  <2> QED
    BY <2>3, <2>4
<1>6. First(candidates, p, cost) = m
  BY <1>5 DEF First
<1> QED
  BY <1>4, <1>6

\* The figure that MinCarbon returns is the least, and that of a window.
LEMMA MinCarbonIsLeast ==
    ASSUME NEW candidates, Rankable(candidates), candidates # {}
    PROVE  /\ MinCarbon(candidates) \in Nat
           /\ \E m \in candidates : MinCarbon(candidates) = OrZero(m.carbon)
           /\ \A d \in candidates : MinCarbon(candidates) =< OrZero(d.carbon)
<1> DEFINE carbon(c) == OrZero(c.carbon)
           key == [c \in candidates |-> <<carbon(c), c.start>>]
           figures == {carbon(c) : c \in candidates}
<1>1. \A c \in candidates : carbon(c) \in Nat /\ c.start \in Nat
  BY OrZeroType DEF Rankable, CandidateRow
<1>2. PICK m \in candidates : \A d \in candidates \ {m} : LexLess(key[m], key[d])
  <2>1. key \in [candidates -> [1 .. 2 -> Int]]
    <3>1. \A c \in candidates : <<carbon(c), c.start>> \in [1 .. 2 -> Int]
      <4>1. TAKE c \in candidates
      <4>2. \A a, b \in Int : <<a, b>> \in [1 .. 2 -> Int]
        OBVIOUS
      <4> HIDE DEF carbon
      <4> QED
        BY <1>1, <4>2
    <3> HIDE DEF carbon
    <3> QED
      BY <3>1
  <2>2. \A x, y \in candidates : key[x] = key[y] => x = y
    <3> HIDE DEF carbon
    <3> QED
      BY DEF Rankable
  <2>3. IsFiniteSet(candidates) /\ 2 \in Nat
    BY DEF Rankable
  <2> HIDE DEF key
  <2> QED
    BY <2>1, <2>2, <2>3, LexLeast
<1>3. \A d \in candidates : carbon(m) =< carbon(d)
  <2>1. TAKE d \in candidates
  <2>2. CASE d = m
    BY <1>1, <2>2
  <2>3. CASE d # m
    <3>1. LexLess(<<carbon(m), m.start>>, <<carbon(d), d.start>>)
      BY <1>2, <2>3
    <3> HIDE DEF carbon
    <3> QED
      BY <3>1, <1>1 DEF LexLess
  <2> QED
    BY <2>2, <2>3
<1>4. MinCarbon(candidates) = carbon(m)
  <2>1. carbon(m) \in figures /\ \A other \in figures : carbon(m) =< other
    BY <1>3
  <2>2. ASSUME NEW n \in figures, \A other \in figures : n =< other PROVE n = carbon(m)
    <3>1. n =< carbon(m)
      BY <2>1, <2>2
    <3>2. carbon(m) =< n /\ n \in Nat /\ carbon(m) \in Nat
      BY <1>1, <2>1, <2>2
    <3> QED
      BY <3>1, <3>2
  <2>3. MinCarbon(candidates) = CHOOSE least \in figures : \A other \in figures : least =< other
    BY DEF MinCarbon
  <2> HIDE DEF figures, carbon
  <2> QED
    BY <2>1, <2>2, <2>3
<1> QED
  BY <1>1, <1>3, <1>4

\* Where there is a greenest window, it is within every tolerance.
LEMMA ToleranceHoldsTheLeast ==
    ASSUME NEW candidates, Rankable(candidates), NEW p \in Policy, NEW m \in candidates,
           MinCarbon(candidates) = OrZero(m.carbon), MinCarbon(candidates) \in Nat
    PROVE  WithinTolerance(m, candidates, p)
<1>1. Tolerance(p) \in Nat
  BY PolicyAssumption DEF Tolerance, Policy, Figure, DEFAULT_CARBON_TOLERANCE_PCT
<1>2. \A least, tolerance \in Nat : 100 * least =< least * (100 + tolerance)
  OBVIOUS
<1> QED
  BY <1>1, <1>2 DEF WithinTolerance

\* What each policy promises of the window it ranks first.
LEMMA PolicyPromise ==
    ASSUME NEW candidates, Rankable(candidates), candidates # {}, NEW p \in Policy, NEW cost,
           Priced(candidates, cost), NEW f, f = First(candidates, p, cost)
    PROVE  /\ f \in candidates
           /\ p.policy = "CARBON_FIRST" => OrZero(f.carbon) = MinCarbon(candidates)
           /\ p.policy = "COST_FIRST" =>
                 \A d \in candidates : OrZero(cost[f]) =< OrZero(cost[d])
           /\ p.policy = "CARBON_CONSTRAINED" =>
                 /\ WithinTolerance(f, candidates, p)
                 /\ \A d \in candidates : WithinTolerance(d, candidates, p) =>
                                             OrZero(cost[f]) =< OrZero(cost[d])
<1> DEFINE carbon(c) == OrZero(c.carbon)
           price(c) == OrZero(cost[c])
           Key(c) == SortKey(c, candidates, p, cost)
<1>1. \A c \in candidates : carbon(c) \in Nat /\ price(c) \in Nat /\ c.start \in Nat
  BY OrZeroType DEF Rankable, Priced, CandidateRow
<1>2. f \in candidates /\ \A d \in candidates \ {f} : LexLess(Key(f), Key(d))
  BY FirstIsLeast
<1>3. PICK m \in candidates : MinCarbon(candidates) = carbon(m)
                              /\ \A d \in candidates : carbon(m) =< carbon(d)
  BY MinCarbonIsLeast
<1>4. ASSUME p.policy = "CARBON_FIRST" PROVE carbon(f) = MinCarbon(candidates)
  <2>1. \A c \in candidates : Key(c) = <<carbon(c), price(c), c.start>>
    BY <1>4 DEF SortKey
  <2>2. CASE m = f
    BY <2>2, <1>3
  <2>3. CASE m # f
    <3>1. LexLess(<<carbon(f), price(f), f.start>>, <<carbon(m), price(m), m.start>>)
      BY <2>1, <2>3, <1>2
    <3>2. carbon(f) =< carbon(m)
      <4> HIDE DEF carbon, price
      <4> QED
        BY <3>1, <1>1, <1>2 DEF LexLess
    <3> HIDE DEF carbon
    <3> QED
      BY <3>2, <1>1, <1>2, <1>3
  <2> QED
    BY <2>2, <2>3
<1>5. ASSUME p.policy = "COST_FIRST", NEW d \in candidates PROVE price(f) =< price(d)
  <2>1. \A c \in candidates : Key(c) = <<price(c), carbon(c), c.start>>
    BY <1>5 DEF SortKey
  <2>2. CASE d = f
    BY <2>2, <1>1
  <2>3. CASE d # f
    <3>1. LexLess(<<price(f), carbon(f), f.start>>, <<price(d), carbon(d), d.start>>)
      BY <2>1, <2>3, <1>2
    <3> HIDE DEF carbon, price
    <3> QED
      BY <3>1, <1>1, <1>2 DEF LexLess
  <2> QED
    BY <2>2, <2>3
<1>6. ASSUME p.policy = "CARBON_CONSTRAINED"
      PROVE  /\ WithinTolerance(f, candidates, p)
             /\ \A d \in candidates : WithinTolerance(d, candidates, p) => price(f) =< price(d)
  <2>1. \A c \in candidates :
          Key(c) = IF WithinTolerance(c, candidates, p)
                   THEN <<0, price(c), c.start, 0>> ELSE <<1, carbon(c), price(c), c.start>>
    BY <1>6 DEF SortKey
  <2>2. WithinTolerance(m, candidates, p)
    BY <1>1, <1>3, ToleranceHoldsTheLeast
  <2>3. WithinTolerance(f, candidates, p)
    <3>1. SUFFICES ASSUME ~WithinTolerance(f, candidates, p) PROVE FALSE
      OBVIOUS
    <3>2. m # f
      BY <2>2, <3>1
    <3>3. LexLess(<<1, carbon(f), price(f), f.start>>, <<0, price(m), m.start, 0>>)
      BY <2>1, <2>2, <3>1, <3>2, <1>2
    <3> HIDE DEF carbon, price
    <3> QED
      BY <3>3, <1>1, <1>2 DEF LexLess
  <2>4. ASSUME NEW d \in candidates, WithinTolerance(d, candidates, p)
        PROVE  price(f) =< price(d)
    <3>1. CASE d = f
      BY <3>1, <1>1
    <3>2. CASE d # f
      <4>1. LexLess(<<0, price(f), f.start, 0>>, <<0, price(d), d.start, 0>>)
        BY <2>1, <2>3, <2>4, <3>2, <1>2
      <4> HIDE DEF carbon, price
      <4> QED
        BY <4>1, <1>1, <1>2 DEF LexLess
    <3> QED
      BY <3>1, <3>2
  <2> QED
    BY <2>3, <2>4
<1> QED
  BY <1>2, <1>4, <1>5, <1>6

(***************************************************************************)
(* Windows                                                                 *)
(***************************************************************************)

\* The values of a function on a finite set are finitely many.
LEMMA FiniteValues ==
    ASSUME NEW S, IsFiniteSet(S), NEW T, NEW f \in [S -> T]
    PROVE  IsFiniteSet({f[x] : x \in S})
<1> DEFINE V == {f[x] : x \in S}
<1>1. f \in Surjection(S, V)
  BY DEF Surjection
<1> QED
  BY <1>1, FS_Surjection

\* The nearest of finitely many points is nearer than all others, or before them.
LEMMA NearestIs ==
    ASSUME NEW points, \A q \in points : q.at \in Nat, IsFiniteSet(points), points # {},
           NEW t \in Nat
    PROVE  /\ Nearest(points, t) \in points
           /\ \A q \in points :
                \/ Nearest(points, t).at = q.at
                \/ LexLess(<<Distance(Nearest(points, t).at, t), Nearest(points, t).at>>,
                           <<Distance(q.at, t), q.at>>)
<1> DEFINE at == [p \in points |-> p.at]
           Ats == {at[p] : p \in points}
           key == [a \in Ats |-> <<Distance(a, t), a>>]
<1>1. at \in [points -> Nat]
  OBVIOUS
<1>2. IsFiniteSet(Ats)
  <2> HIDE DEF at
  <2> QED
    BY <1>1, FiniteValues
<1>3. Ats # {} /\ Ats \subseteq Nat
  OBVIOUS
<1>4. key \in [Ats -> [1 .. 2 -> Int]]
  <2>1. ASSUME NEW a \in Ats PROVE <<Distance(a, t), a>> \in [1 .. 2 -> Int]
    <3>1. a \in Nat /\ Distance(a, t) \in Int
      BY <1>3 DEF Distance
    <3>2. \A x, y \in Int : <<x, y>> \in [1 .. 2 -> Int]
      OBVIOUS
    <3> HIDE DEF Ats
    <3> QED
      BY <3>1, <3>2
  <2> HIDE DEF Ats
  <2> QED
    BY <2>1
<1>5. \A x, y \in Ats : key[x] = key[y] => x = y
  <2> HIDE DEF Ats
  <2> QED
    OBVIOUS
<1>6. \E x \in Ats : \A y \in Ats \ {x} : LexLess(key[x], key[y])
  <2>1. 2 \in Nat
    OBVIOUS
  <2> HIDE DEF Ats, key
  <2> QED
    BY <1>2, <1>3, <1>4, <1>5, <2>1, LexLeast
<1>7. PICK p \in points : \A y \in Ats \ {p.at} : LexLess(key[p.at], key[y])
  BY <1>6
<1>8. \A q \in points :
        p.at = q.at \/ LexLess(<<Distance(p.at, t), p.at>>, <<Distance(q.at, t), q.at>>)
  BY <1>7
<1> QED
  BY <1>8 DEF Nearest

LEMMA NearestIsAPoint ==
    ASSUME NEW points, points \subseteq Point, IsFiniteSet(points), points # {}, NEW t \in Nat
    PROVE  Nearest(points, t) \in points
BY NearestIs DEF Point

LEMMA InterpolateCarbonType ==
    ASSUME NEW points, points \subseteq Point, IsFiniteSet(points), NEW t \in Nat
    PROVE  InterpolateCarbon(points, t) \in Figure
BY NearestIsAPoint DEF InterpolateCarbon, Figure, Point

LEMMA InterpolateTariffType ==
    ASSUME NEW points, points \subseteq Point, IsFiniteSet(points),
           NEW template \in [0 .. 23 -> Figure], NEW t \in Nat
    PROVE  InterpolateTariff(points, template, t) \in Figure
<1> DEFINE near == {p \in points : Distance(p.at, t) =< 2 * PerHour}
<1>1. CASE near # {}
  <2>1. IsFiniteSet(near) /\ near \subseteq Point
    BY FS_Subset
  <2>2. InterpolateTariff(points, template, t) = Nearest(near, t).value
    BY <1>1 DEF InterpolateTariff
  <2> HIDE DEF near
  <2>3. Nearest(near, t) \in Point
    BY <1>1, <2>1, NearestIsAPoint
  <2> QED
    BY <2>2, <2>3 DEF Point, Figure
<1>2. CASE near = {}
  <2>1. HourOf(t) \in Nat
    BY SlotCapacityAssumption DEF HourOf
  <2>2. HourOf(t) % 24 \in 0 .. 23
    BY <2>1
  <2> QED
    BY <1>2, <2>2 DEF InterpolateTariff
<1> QED
  BY <1>1, <1>2

LEMMA TimesType ==
    ASSUME NEW energy \in Nat, NEW value \in Figure
    PROVE  Times(energy, value) \in Figure
BY PolicyAssumption DEF Times, Figure

LEMMA ShapeType ==
    ASSUME NEW job \in Shapes
    PROVE  /\ job \in JobRow
           /\ CarbonCurve[job.region] \subseteq Point /\ IsFiniteSet(CarbonCurve[job.region])
           /\ TariffCurve[job.region] \subseteq Point /\ IsFiniteSet(TariffCurve[job.region])
           /\ TariffTemplate[job.region] \in [0 .. 23 -> Figure]
BY BatchAssumption, CurveAssumption

LEMMA CandidateType ==
    ASSUME NEW job \in Shapes, NEW t \in Nat
    PROVE  Candidate(job, t) \in CandidateRow
<1>1. InterpolateCarbon(CarbonCurve[job.region], t) \in Figure
  BY ShapeType, InterpolateCarbonType
<1>2. InterpolateTariff(TariffCurve[job.region], TariffTemplate[job.region], t) \in Figure
  BY ShapeType, InterpolateTariffType
<1>3. job.energy \in Nat /\ t + job.runtime \in Nat
  BY ShapeType DEF JobRow
<1> QED
  BY <1>1, <1>2, <1>3, TimesType DEF Candidate, CandidateRow

\* The windows of a job: finitely many, its bound among them and none before it;
\* one that ends too late is the only one.
Bound(job) == StartBound(RequestedStart(job), Now)

LEMMA StartsOfIs ==
    ASSUME NEW job \in Shapes
    PROVE  /\ Bound(job) \in StartsOf(job)
           /\ Bound(job) \in Nat /\ Bound(job) >= Now /\ Bound(job) >= RequestedStart(job)
           /\ IsFiniteSet(StartsOf(job))
           /\ \A t \in StartsOf(job) :
                 /\ t \in Nat /\ t >= Bound(job)
                 /\ t + job.runtime > job.deadline => Bound(job) + job.runtime > job.deadline
<1>1. /\ job.deadline \in Nat /\ job.runtime \in Nat
      /\ RequestedStart(job) \in Nat
  BY ShapeType DEF JobRow, Figure, RequestedStart
<1>2. Bound(job) \in Nat /\ Bound(job) >= Now /\ Bound(job) >= RequestedStart(job)
  BY <1>1, PolicyAssumption DEF Bound, StartBound, Now
<1> DEFINE latest == job.deadline - job.runtime
           starts == CandidateStarts(Bound(job), job.deadline, job.runtime, job.deferrable)
<1>3. StartsOf(job) = IF starts = {} THEN {Bound(job)} ELSE starts
  BY DEF StartsOf, Bound
<1>4. StartsOf(job) \subseteq {Bound(job)} \cup (Bound(job) .. latest)
  BY <1>3 DEF CandidateStarts
<1>5. IsFiniteSet({Bound(job)} \cup (Bound(job) .. latest))
  <2>1. IsFiniteSet(Bound(job) .. latest)
    <3>1. Bound(job) \in Int /\ latest \in Int
      BY <1>1, <1>2
    <3> HIDE DEF latest
    <3> QED
      BY <3>1, FS_Interval
  <2>2. IsFiniteSet({Bound(job)})
    BY FS_Singleton
  <2> QED
    BY <2>1, <2>2, FS_Union
<1>6. IsFiniteSet(StartsOf(job))
  BY <1>4, <1>5, FS_Subset
<1>7. Bound(job) \in StartsOf(job)
  BY <1>3 DEF CandidateStarts
<1>8. ASSUME NEW t \in StartsOf(job)
      PROVE  /\ t \in Nat /\ t >= Bound(job)
             /\ t + job.runtime > job.deadline => Bound(job) + job.runtime > job.deadline
  <2>1. t = Bound(job) \/ t \in Bound(job) .. latest
    BY <1>4
  <2> QED
    BY <2>1, <1>1, <1>2
<1> QED
  BY <1>2, <1>6, <1>7, <1>8

\* What can be chosen for a job can be ranked.
LEMMA EvaluationsRankable ==
    ASSUME NEW job \in Shapes
    PROVE  /\ Rankable(Evaluations(job))
           /\ \A c \in Evaluations(job) : c.start \in StartsOf(job) /\ c.end = c.start + job.runtime
<1>1. \A t \in StartsOf(job) : t \in Nat
  BY StartsOfIs
<1> DEFINE at == [t \in StartsOf(job) |-> Candidate(job, t)]
<1>2. at \in [StartsOf(job) -> CandidateRow]
  BY <1>1, CandidateType
<1>3. Evaluations(job) = {at[t] : t \in StartsOf(job)}
  BY DEF Evaluations
<1>4. IsFiniteSet(Evaluations(job))
  <2> HIDE DEF at
  <2>1. IsFiniteSet(StartsOf(job))
    BY StartsOfIs
  <2> QED
    BY <1>2, <1>3, <2>1, FiniteValues
<1>5. \A t \in StartsOf(job) : at[t].start = t /\ at[t].end = t + job.runtime
  BY DEF Candidate
<1> HIDE DEF at
<1>6. \A c \in Evaluations(job) :
        c \in CandidateRow /\ c.start \in StartsOf(job) /\ c = at[c.start]
  BY <1>2, <1>3, <1>5
<1> QED
  BY <1>4, <1>5, <1>6 DEF Rankable

LEMMA SubsetRankable ==
    ASSUME NEW S, Rankable(S), NEW T \in SUBSET S
    PROVE  Rankable(T)
BY FS_Subset DEF Rankable

LEMMA EligibleRankable ==
    ASSUME NEW job \in Shapes
    PROVE  /\ Eligible(job) \subseteq Evaluations(job)
           /\ Eligible(job) # {}
           /\ Rankable(Eligible(job))
           /\ Priced(Eligible(job), BaseCost(Eligible(job)))
<1>1. Eligible(job) \subseteq Evaluations(job)
  BY DEF Eligible
<1>2. Eligible(job) # {}
  <2> DEFINE first == Candidate(job, Bound(job))
  <2>1. first \in Evaluations(job) /\ first.start = Bound(job)
    BY StartsOfIs DEF Evaluations, Candidate
  <2>2. \A d \in Evaluations(job) : first.start =< d.start
    BY <2>1, StartsOfIs, EvaluationsRankable
  <2> HIDE DEF first
  <2> QED
    BY <2>1, <2>2 DEF Eligible
<1>3. Rankable(Eligible(job))
  BY <1>1, EvaluationsRankable, SubsetRankable
<1>4. Priced(Eligible(job), BaseCost(Eligible(job)))
  BY <1>3 DEF Rankable, Priced, BaseCost, CandidateRow
<1> QED
  BY <1>1, <1>2, <1>3, <1>4

\* The cost that roomy windows are ranked on is a figure, too.
LEMMA EffectiveCostType ==
    ASSUME NEW job \in Shapes, NEW T \in SUBSET Evaluations(job)
    PROVE  /\ Priced(T, [c \in T |-> EffectiveCost(c)])
           /\ ~batch.mlActive => \A c \in T : OrZero(EffectiveCost(c)) = 100 * OrZero(c.cost)
<1>1. SUFFICES ASSUME NEW c \in T
               PROVE  /\ EffectiveCost(c) \in Figure
                      /\ ~batch.mlActive => OrZero(EffectiveCost(c)) = 100 * OrZero(c.cost)
  BY DEF Priced
<1>2. c.cost \in Figure /\ c.start \in StartsOf(job)
  BY EvaluationsRankable DEF Rankable, CandidateRow
<1>3. Pressure[c.start] \in {0, 1}
  BY <1>2, PressureAssumption
<1>4. CASE c.cost = Unset
  BY <1>4, PolicyAssumption DEF EffectiveCost, OrZero, Figure
<1>5. CASE c.cost # Unset
  <2>1. c.cost \in Nat
    BY <1>2, <1>5 DEF Figure
  <2>2. c.cost * (100 + CONTENTION_WEIGHT * Pressure[c.start]) \in Nat /\ c.cost * 100 \in Nat
    BY <2>1, <1>3 DEF CONTENTION_WEIGHT
  <2>3. EffectiveCost(c) \in Nat /\ (~batch.mlActive => EffectiveCost(c) = c.cost * 100)
    BY <1>5, <2>2 DEF EffectiveCost
  <2> QED
    BY <2>1, <2>3, <1>5, PolicyAssumption DEF OrZero, Figure
<1> QED
  BY <1>4, <1>5

(***************************************************************************)
(* The decision on a job                                                   *)
(***************************************************************************)

\* No two windows have the same rank.
LEMMA RanksDiffer ==
    ASSUME NEW candidates, Rankable(candidates), NEW p \in Policy, NEW cost,
           Priced(candidates, cost), NEW c \in candidates, NEW d \in candidates, c # d
    PROVE  /\ RankOf(c, candidates, p, cost) \in Nat
           /\ RankOf(c, candidates, p, cost) # RankOf(d, candidates, p, cost)
<1> DEFINE Key(x) == SortKey(x, candidates, p, cost)
           Better(x) == {y \in candidates : LexLess(Key(y), Key(x))}
           rank(x) == RankOf(x, candidates, p, cost)
<1>1. Width(p) \in Nat /\ \A x \in candidates : Key(x) \in [1 .. Width(p) -> Int]
  BY SortKeyType DEF Width
<1>2. \A x \in candidates : IsFiniteSet(Better(x)) /\ rank(x) = Cardinality(Better(x))
                            /\ rank(x) \in Nat
  BY FS_Subset, FS_CardinalityType DEF Rankable, RankOf
<1>3. ASSUME NEW x \in candidates, NEW y \in candidates, LexLess(Key(x), Key(y))
      PROVE  rank(x) < rank(y)
  <2>1. Better(x) \subseteq Better(y)
    <3>1. SUFFICES ASSUME NEW z \in candidates, LexLess(Key(z), Key(x))
                   PROVE  LexLess(Key(z), Key(y))
      OBVIOUS
    <3> QED
      BY <3>1, <1>1, <1>3, LexTransitive
  <2>2. x \in Better(y) /\ x \notin Better(x)
    BY <1>1, <1>3, LexIrreflexive
  <2>3. /\ Cardinality(Better(x)) =< Cardinality(Better(y))
        /\ Cardinality(Better(y)) # Cardinality(Better(x))
    <3>1. Better(x) \in SUBSET Better(y) /\ Better(y) # Better(x) /\ IsFiniteSet(Better(y))
      BY <1>2, <2>1, <2>2
    <3> HIDE DEF Better
    <3> QED
      BY <3>1, FS_Subset
  <2>4. rank(x) \in Nat /\ rank(y) \in Nat /\ rank(x) =< rank(y) /\ rank(y) # rank(x)
    BY <1>2, <2>3
  <2> HIDE DEF rank
  <2> QED
    BY <2>4
<1>4. Key(c) # Key(d)
  BY SortKeyInjective
<1>5. LexLess(Key(c), Key(d)) \/ LexLess(Key(d), Key(c))
  BY <1>1, <1>4, LexTotal
<1>6. rank(c) \in Nat /\ rank(d) \in Nat
  BY <1>2
<1>7. rank(c) < rank(d) \/ rank(d) < rank(c)
  BY <1>3, <1>5
<1> HIDE DEF rank
<1>8. rank(c) # rank(d)
  BY <1>6, <1>7
<1> QED
  BY <1>6, <1>8 DEF rank

\* The registry of a batch holds amounts.
SlotsTyped == \A key \in DOMAIN slots : slots[key] \in Amounts

LEMMA CapacityType ==
    ASSUME batch \in BatchRow
    PROVE  Capacity \in Amounts
BY BatchAssumption DEF BatchRow, Capacity

LEMMA LoadType ==
    ASSUME batch \in BatchRow, SlotsTyped, NEW job, NEW c
    PROVE  Load(job, c) \in Int
<1> DEFINE key == <<job.region, HourOf(c.start)>>
<1>1. Capacity["cpu"] \in Nat
  BY CapacityType, SlotCapacityAssumption DEF Amounts
<1>2. ASSUME key \in DOMAIN slots PROVE slots[key]["cpu"] \in Nat
  <2>1. slots[key] \in Amounts
    BY <1>2 DEF SlotsTyped
  <2> QED
    BY <2>1, SlotCapacityAssumption DEF Amounts
<1> HIDE DEF key
<1>3. Utilization(slots, Capacity, job.region, c.start) =
        IF key \notin DOMAIN slots THEN 0
        ELSE IF Capacity["cpu"] = 0 THEN 1
        ELSE IF slots[key]["cpu"] > Capacity["cpu"] THEN Capacity["cpu"]
        ELSE slots[key]["cpu"]
  BY DEF Utilization, key
<1> QED
  BY <1>1, <1>2, <1>3 DEF Load

LEMMA LeastLoadedIsOne ==
    ASSUME batch \in BatchRow, SlotsTyped, NEW job, NEW candidates, Rankable(candidates),
           candidates # {}, NEW p \in Policy, Priced(candidates, BaseCost(candidates))
    PROVE  LeastLoaded(job, candidates, p) \in candidates
<1> DEFINE rank(c) == RankOf(c, candidates, p, BaseCost(candidates))
           key == [c \in candidates |-> <<Load(job, c), rank(c)>>]
<1>1. \A c \in candidates : rank(c) \in Int
  BY FS_Subset, FS_CardinalityType DEF RankOf, Rankable
<1>2. key \in [candidates -> [1 .. 2 -> Int]]
  <2>1. ASSUME NEW c \in candidates PROVE <<Load(job, c), rank(c)>> \in [1 .. 2 -> Int]
    <3>1. \A x, y \in Int : <<x, y>> \in [1 .. 2 -> Int]
      OBVIOUS
    <3>2. rank(c) \in Int /\ Load(job, c) \in Int
      BY <1>1, LoadType
    <3> HIDE DEF rank
    <3> QED
      BY <3>1, <3>2
  <2> HIDE DEF rank
  <2> QED
    BY <2>1
<1>3. \A x, y \in candidates : key[x] = key[y] => x = y
  <2>1. SUFFICES ASSUME NEW x \in candidates, NEW y \in candidates, x # y
                 PROVE  key[x] # key[y]
    OBVIOUS
  <2>2. rank(x) # rank(y)
    BY <2>1, RanksDiffer
  <2> HIDE DEF rank
  <2> QED
    BY <2>2
<1>4. \E x \in candidates : \A y \in candidates \ {x} : LexLess(key[x], key[y])
  <2>1. 2 \in Nat /\ IsFiniteSet(candidates)
    BY DEF Rankable
  <2> HIDE DEF key
  <2> QED
    BY <1>2, <1>3, <2>1, LexLeast
<1>5. \E c \in candidates : \A d \in candidates \ {c} :
        LexLess(<<Load(job, c), rank(c)>>, <<Load(job, d), rank(d)>>)
  BY <1>4
<1> QED
  BY <1>5 DEF LeastLoaded

\* A job that runs at once starts at its bound.
LEMMA BaselineType ==
    ASSUME NEW job \in Shapes, NEW chosen \in CandidateRow
    PROVE  /\ BatchBaseline(job, chosen) \in CandidateRow
           /\ BatchBaseline(job, chosen).start = Bound(job)
<1> DEFINE first == CHOOSE t \in StartsOf(job) : \A u \in StartsOf(job) : t =< u
           known(figure, standIn) == IF OrZero(figure) = 0 THEN OrZero(standIn) ELSE figure
           at == Candidate(job, first)
           baseline == [at EXCEPT !.carbon = known(@, chosen.carbon),
                                  !.cost = known(@, chosen.cost)]
<1>1. first = Bound(job)
  <2>1. \A t \in StartsOf(job) : (\A u \in StartsOf(job) : t =< u) <=> t = Bound(job)
    BY StartsOfIs
  <2>2. Bound(job) \in StartsOf(job)
    BY StartsOfIs
  <2> QED
    BY <2>1, <2>2
<1>2. BatchBaseline(job, chosen) = baseline
  BY DEF BatchBaseline
<1> HIDE DEF first
<1>3. at \in CandidateRow /\ at.start = Bound(job)
  BY <1>1, StartsOfIs, CandidateType DEF Candidate
<1>4. \A figure, standIn \in Figure : known(figure, standIn) \in Figure
  BY OrZeroType DEF Figure
<1>5. known(at.carbon, chosen.carbon) \in Figure /\ known(at.cost, chosen.cost) \in Figure
  BY <1>3, <1>4 DEF CandidateRow
<1> HIDE DEF at, known
<1>6. baseline \in CandidateRow /\ baseline.start = at.start
  BY <1>3, <1>5 DEF CandidateRow
<1> QED
  BY <1>2, <1>3, <1>6

LEMMA DecisionType ==
    ASSUME NEW job \in Shapes, NEW p \in Policy, NEW fits \in BOOLEAN,
           NEW preferred \in CandidateRow, NEW chosen \in CandidateRow
    PROVE  Decision(job, p, fits, preferred, chosen) \in DecisionRow
<1> DEFINE baseline == BatchBaseline(job, chosen)
<1>1. Remaining(job, chosen) \in Int \cup {Unset}
  <2>1. job.budget \in Figure /\ chosen.carbon \in Figure
    BY ShapeType DEF JobRow, CandidateRow
  <2> QED
    BY <2>1 DEF Remaining, Figure
<1>2. Impact(job, baseline, chosen) \in ImpactRow
  <2>1. baseline \in CandidateRow
    BY BaselineType
  <2> HIDE DEF baseline
  <2>2. /\ OrZero(baseline.carbon) \in Nat /\ OrZero(chosen.carbon) \in Nat
        /\ OrZero(baseline.cost) \in Nat /\ OrZero(chosen.cost) \in Nat
        /\ baseline.start \in Nat /\ chosen.start \in Nat
    BY <2>1, OrZeroType DEF CandidateRow
  <2> QED
    BY <2>2 DEF Impact, ImpactRow
<1>3. HasCapacity(job, preferred) \in BOOLEAN
  BY DEF HasCapacity, CanFit
<1> QED
  BY <1>1, <1>2, <1>3 DEF Decision, DecisionRow

\* What a turn of the loop decides, in terms of the windows that have room.
Roomy(job) == {c \in Eligible(job) : HasCapacity(job, c)}

LEMMA ChoiceIs ==
    ASSUME batch \in BatchRow, SlotsTyped, NEW job \in Shapes, NEW p \in Policy
    PROVE  LET choice == Choice(job, p)
               preferred == First(Eligible(job), p, BaseCost(Eligible(job)))
           IN  /\ choice \in DecisionRow
               /\ choice.policy = p
               /\ choice.chosen \in Eligible(job)
               /\ choice.fits <=> Roomy(job) # {}
               /\ choice.fits => choice.chosen = First(Roomy(job), p,
                                                       [c \in Roomy(job) |-> EffectiveCost(c)])
               /\ choice.fits => choice.chosen \in Roomy(job)
               /\ choice.spilled <=> ~choice.fits \/ choice.chosen.start # preferred.start
               /\ choice.preferredFull <=> preferred \notin Roomy(job)
               /\ choice.remaining = Remaining(job, choice.chosen)
               /\ choice.impact = Impact(job, BatchBaseline(job, choice.chosen), choice.chosen)
<1> DEFINE eligible == Eligible(job)
           roomy == Roomy(job)
           preferred == First(eligible, p, BaseCost(eligible))
           best == First(roomy, p, [c \in roomy |-> EffectiveCost(c)])
           chosen == IF roomy # {} THEN best ELSE LeastLoaded(job, eligible, p)
<1>1. Choice(job, p) = Decision(job, p, roomy # {}, preferred, chosen)
  BY DEF Choice, Roomy
<1>2. /\ Rankable(eligible) /\ eligible # {} /\ Priced(eligible, BaseCost(eligible))
      /\ eligible \subseteq CandidateRow /\ eligible \subseteq Evaluations(job)
  BY EligibleRankable DEF Rankable
<1>3. preferred \in eligible
  BY <1>2, FirstIsLeast
<1>4. ASSUME roomy # {} PROVE best \in roomy
  <2>1. roomy \subseteq eligible
    BY DEF Roomy
  <2>2. Rankable(roomy)
    BY <1>2, <2>1, SubsetRankable
  <2>3. Priced(roomy, [c \in roomy |-> EffectiveCost(c)])
    BY <1>2, <2>1, EffectiveCostType
  <2> QED
    BY <1>4, <2>2, <2>3, FirstIsLeast
<1>5. LeastLoaded(job, eligible, p) \in eligible
  BY <1>2, LeastLoadedIsOne
<1>6. chosen \in eligible /\ (roomy # {} => chosen = best /\ chosen \in roomy)
  <2>1. roomy \subseteq eligible
    BY DEF Roomy
  <2> HIDE DEF best, roomy, eligible
  <2> QED
    BY <1>4, <1>5, <2>1
<1>7. HasCapacity(job, preferred) <=> preferred \in roomy
  BY <1>3 DEF Roomy
<1> HIDE DEF chosen, preferred, best
<1>8. Choice(job, p) \in DecisionRow
  <2>1. (roomy # {}) \in BOOLEAN /\ preferred \in CandidateRow /\ chosen \in CandidateRow
    BY <1>2, <1>3, <1>6
  <2> QED
    BY <1>1, <2>1, DecisionType
<1>9. /\ Choice(job, p).policy = p
      /\ Choice(job, p).chosen = chosen
      /\ Choice(job, p).fits = (roomy # {})
      /\ Choice(job, p).spilled = (~(roomy # {}) \/ chosen.start # preferred.start)
      /\ Choice(job, p).preferredFull = ~HasCapacity(job, preferred)
      /\ Choice(job, p).remaining = Remaining(job, chosen)
      /\ Choice(job, p).impact = Impact(job, BatchBaseline(job, chosen), chosen)
  BY <1>1 DEF Decision
<1> QED
  BY <1>6, <1>7, <1>8, <1>9 DEF preferred, best

(***************************************************************************)
(* The policies of the companies                                           *)
(***************************************************************************)

LEMMA SettingsInitially == SettingsInit => SettingsOK
BY DEF SettingsInit, SettingsOK

LEMMA BeginUpdateKeepsSettings ==
    ASSUME SettingsOK, NEW a \in Admins, NEW t \in Tenants, BeginUpdate(a, t)
    PROVE  SettingsOK'
<1>1. PICK p \in [policy : Policies, tolerance : Tolerances \cup {Unset}] :
        /\ ValidUpdate(p)
        /\ update' = [update EXCEPT ![a] = [tenant |-> t, loaded |-> policyRow[t], new |-> p]]
  BY DEF BeginUpdate
<1>2. p \in Policy
  BY <1>1, SettingsAssumption DEF ValidUpdate, ValidTolerance, ValidPolicy, Policy, Figure
<1> DEFINE u == [tenant |-> t, loaded |-> policyRow[t], new |-> p]
<1>3. u \in Update
  BY <1>2 DEF Update, SettingsOK
<1>4. u.tenant = t /\ u.loaded = policyRow[t]
  OBVIOUS
<1>5. update' = [update EXCEPT ![a] = u] /\ policyRow' = policyRow
  BY <1>1 DEF BeginUpdate
<1> HIDE DEF u
<1> QED
  BY <1>3, <1>4, <1>5 DEF SettingsOK

LEMMA WrittenOverType ==
    ASSUME NEW row \in Policy, NEW u \in Update
    PROVE  WrittenOver(row, u) \in Policy
<1>1. u.new \in Policy /\ (u.loaded # Unset => u.loaded \in Policy)
  BY DEF Update
<1> QED
  BY <1>1 DEF WrittenOver, Policy

LEMMA CommitUpdateKeepsSettings ==
    ASSUME SettingsOK, NEW a \in Admins, CommitUpdate(a)
    PROVE  SettingsOK'
<1> DEFINE u == update[a]
           row == policyRow[u.tenant]
           refused == u.loaded = Unset /\ row # Unset
<1>1. u \in Update /\ u.tenant \in Tenants /\ u.new \in Policy
  BY DEF CommitUpdate, SettingsOK, Update
<1>2. u.loaded # Unset => row # Unset
  BY DEF CommitUpdate, SettingsOK
<1>3. row \in Policy \cup {Unset}
  BY <1>1 DEF SettingsOK
<1>4. policyRow' = IF refused THEN policyRow
                   ELSE [policyRow EXCEPT ![u.tenant] = WrittenOver(@, u)]
  BY DEF CommitUpdate
<1>5. update' = [update EXCEPT ![a] = Unset]
  BY DEF CommitUpdate
<1>6. ~refused => WrittenOver(row, u) \in Policy
  <2>1. CASE u.loaded = Unset
    BY <2>1, <1>1 DEF WrittenOver
  <2>2. CASE u.loaded # Unset
    BY <2>2, <1>1, <1>2, <1>3, WrittenOverType
  <2> QED
    BY <2>1, <2>2
<1>7. policyRow' \in [Tenants -> Policy \cup {Unset}]
  BY <1>1, <1>4, <1>6 DEF SettingsOK
<1>8. \A t \in Tenants : policyRow[t] # Unset => policyRow'[t] # Unset
  <2>1. CASE refused
    BY <2>1, <1>4
  <2>2. CASE ~refused
    <3>1. policyRow' = [policyRow EXCEPT ![u.tenant] = WrittenOver(row, u)]
      BY <2>2, <1>4
    <3>2. WrittenOver(row, u) # Unset
      BY <2>2, <1>6, PolicyAssumption
    <3> HIDE DEF u
    <3> QED
      BY <3>1, <3>2, <1>1 DEF SettingsOK
  <2> QED
    BY <2>1, <2>2
<1>9. \A b \in Admins : update'[b] # Unset => update'[b] = update[b] /\ update[b] \in Update
  BY <1>5 DEF SettingsOK
<1>10. update' \in [Admins -> Update \cup {Unset}]
  BY <1>5 DEF SettingsOK
<1>11. ASSUME NEW b \in Admins, update'[b] # Unset, update'[b].loaded # Unset
       PROVE  policyRow'[update'[b].tenant] # Unset
  <2>1. update'[b] = update[b] /\ update[b] \in Update
    BY <1>9, <1>11
  <2>2. update[b].tenant \in Tenants /\ policyRow[update[b].tenant] # Unset
    BY <2>1, <1>11, SettingsAssumption DEF SettingsOK, Update
  <2> QED
    BY <2>1, <2>2, <1>8
<1> QED
  BY <1>7, <1>10, <1>11 DEF SettingsOK

LEMMA SettingsStep ==
    ASSUME SettingsOK, SettingsNext
    PROVE  SettingsOK'
BY BeginUpdateKeepsSettings, CommitUpdateKeepsSettings DEF SettingsNext

LEMMA EffectivePolicyType ==
    ASSUME SettingsOK, NEW t \in Tenants
    PROVE  EffectivePolicy(t) \in Policy
<1>1. CASE policyRow[t] = Unset
  BY <1>1 DEF EffectivePolicy, DefaultPolicy, DEFAULT_POLICY, Policy, Policies, Figure
<1>2. CASE policyRow[t] # Unset
  <2>1. policyRow[t] \in Policy
    BY <1>2 DEF SettingsOK
  <2>2. EffectivePolicy(t) = [policyRow[t] EXCEPT !.tolerance =
          IF policyRow[t].policy = "CARBON_CONSTRAINED" THEN policyRow[t].tolerance ELSE Unset]
    BY <1>2 DEF EffectivePolicy
  <2> QED
    BY <2>1, <2>2 DEF Policy, Figure
<1> QED
  BY <1>1, <1>2

(***************************************************************************)
(* Counting what jobs take of a slot                                       *)
(***************************************************************************)

Heap(X, need) == UNION {{i} \X (1 .. need[i]) : i \in X}

LEMMA HeapOfNone == \A need : Cardinality(Heap({}, need)) = 0
BY FS_EmptySet DEF Heap

LEMMA HeapFinite ==
    ASSUME NEW X, IsFiniteSet(X), NEW need, \A i \in X : need[i] \in Nat
    PROVE  IsFiniteSet(Heap(X, need)) /\ Cardinality(Heap(X, need)) \in Nat
<1> DEFINE part == [i \in X |-> {i} \X (1 .. need[i])]
           Parts == {part[i] : i \in X}
<1>1. IsFiniteSet(Parts)
  <2>1. \E V : part \in [X -> V]
    <3>1. part \in [X -> Parts]
      OBVIOUS
    <3> QED
      BY <3>1
  <2> HIDE DEF part
  <2>2. PICK V : part \in [X -> V]
    BY <2>1
  <2> QED
    BY <2>2, FiniteValues
<1>2. ASSUME NEW P \in Parts PROVE IsFiniteSet(P)
  <2>1. PICK i \in X : P = {i} \X (1 .. need[i])
    OBVIOUS
  <2>2. 1 \in Int /\ need[i] \in Int
    OBVIOUS
  <2>3. IsFiniteSet({i})
    BY FS_Singleton
  <2>4. IsFiniteSet(1 .. need[i])
    BY <2>2, FS_Interval
  <2> QED
    BY <2>1, <2>3, <2>4, FS_Product
<1>3. Heap(X, need) = UNION Parts
  BY DEF Heap
<1> HIDE DEF Parts
<1>4. IsFiniteSet(Heap(X, need))
  BY <1>1, <1>2, <1>3, FS_UNION
<1> QED
  BY <1>4, FS_CardinalityType

\* One more job adds what it needs.
LEMMA HeapGrows ==
    ASSUME NEW X, IsFiniteSet(X), NEW need, NEW j, j \notin X,
           \A i \in X \cup {j} : need[i] \in Nat
    PROVE  Cardinality(Heap(X \cup {j}, need)) = Cardinality(Heap(X, need)) + need[j]
<1> DEFINE new == {j} \X (1 .. need[j])
<1>1. Heap(X \cup {j}, need) = Heap(X, need) \cup new
  BY DEF Heap
<1>2. Heap(X, need) \cap new = {}
  BY DEF Heap
<1>3. IsFiniteSet(Heap(X, need)) /\ Cardinality(Heap(X, need)) \in Nat
  BY HeapFinite
<1>4. IsFiniteSet(new) /\ Cardinality(new) = need[j]
  <2>1. IsFiniteSet({j}) /\ Cardinality({j}) = 1
    BY FS_Singleton
  <2>2. PICK n \in Nat : n = need[j]
    OBVIOUS
  <2>3. IsFiniteSet(1 .. n) /\ Cardinality(1 .. n) = n
    <3>1. 1 \in Int /\ n \in Int /\ (IF 1 > n THEN 0 ELSE n - 1 + 1) = n
      OBVIOUS
    <3> QED
      BY <3>1, FS_Interval
  <2> DEFINE units == 1 .. n
  <2>4. IsFiniteSet({j} \X units) /\ Cardinality({j} \X units) = Cardinality({j}) * Cardinality(units)
    <3> HIDE DEF units
    <3> QED
      BY <2>1, <2>3, FS_Product DEF units
  <2>5. new = {j} \X units
    BY <2>2
  <2>6. Cardinality({j}) * Cardinality(units) = n
    BY <2>1, <2>3
  <2> QED
    BY <2>2, <2>4, <2>5, <2>6
<1> HIDE DEF new
<1>5. need[j] \in Nat
  OBVIOUS
<1>6. Cardinality(Heap(X, need) \cup new)
        = Cardinality(Heap(X, need)) + Cardinality(new) - Cardinality({})
  BY <1>2, <1>3, <1>4, FS_Union
<1>7. Cardinality({}) = 0
  BY FS_EmptySet
<1>8. PICK n \in Nat, h \in Nat : n = need[j] /\ h = Cardinality(Heap(X, need))
  BY <1>3, <1>5
<1>9. Cardinality(Heap(X, need) \cup new) = h + n
  BY <1>4, <1>6, <1>7, <1>8
<1> QED
  BY <1>1, <1>8, <1>9

(***************************************************************************)
(* One turn of the loop                                                    *)
(***************************************************************************)

LEMMA UrgencyKeyType ==
    ASSUME work \in [Jobs -> Shapes], NEW j \in Jobs
    PROVE  UrgencyKey(j) \in [1 .. 4 -> Int] /\ UrgencyKey(j)[4] = j
<1> DEFINE job == work[j]
           earliest == IF job.earliest = Unset THEN Now ELSE job.earliest
           slack == job.deadline - earliest - job.runtime
           stays == IF job.deferrable THEN 1 ELSE 0
<1>1. job \in JobRow /\ j \in Int
  BY ShapeType, BatchAssumption
<1>2. job.priority \in Int /\ slack \in Int /\ stays \in Int
  BY <1>1 DEF JobRow, Figure, Now
<1>3. UrgencyKey(j) = <<job.priority, stays, slack, j>>
  BY DEF UrgencyKey
<1> HIDE DEF job, slack, stays
<1> QED
  BY <1>1, <1>2, <1>3

\* The most urgent job of a batch is one of its jobs and before all the others.
LEMMA MostUrgentIs ==
    ASSUME work \in [Jobs -> Shapes], NEW jobs \in SUBSET Jobs, jobs # {}
    PROVE  /\ MostUrgent(jobs) \in jobs
           /\ \A i \in jobs \ {MostUrgent(jobs)} :
                 LexLess(UrgencyKey(MostUrgent(jobs)), UrgencyKey(i))
<1> DEFINE key == [j \in jobs |-> UrgencyKey(j)]
<1>1. key \in [jobs -> [1 .. 4 -> Int]]
  BY UrgencyKeyType
<1>2. \A x, y \in jobs : key[x] = key[y] => x = y
  BY UrgencyKeyType
<1>3. IsFiniteSet(jobs) /\ 4 \in Nat
  BY BatchAssumption, FS_Subset
<1>4. \E x \in jobs : \A y \in jobs \ {x} : LexLess(key[x], key[y])
  <2> HIDE DEF key
  <2> QED
    BY <1>1, <1>2, <1>3, LexLeast
<1>5. \E x \in jobs : \A y \in jobs \ {x} : LexLess(UrgencyKey(x), UrgencyKey(y))
  BY <1>4
<1> QED
  BY <1>5 DEF MostUrgent

\* A turn that places job j, by policy p, as d.
Turn(j, p, d) ==
    /\ batch # Unset
    /\ j \in batch.todo
    /\ \A i \in batch.todo \ {j} : LexLess(UrgencyKey(j), UrgencyKey(i))
    /\ p = PolicyFor(work[j].tenant)
    /\ d = Choice(work[j], p)
    /\ placed' = [placed EXCEPT ![j] = d]
    /\ slots' = Allocate(slots, Capacity, work[j].region, d.chosen.start,
                         work[j].runtime, work[j].demand)
    /\ batch' = [batch EXCEPT !.todo = @ \ {j}, !.policyCache[work[j].tenant] = p]
    /\ work' = work

LEMMA PlaceNextIsATurn ==
    ASSUME PlanInv, PlaceNext
    PROVE  \E j, p, d : Turn(j, p, d)
<1>1. batch # Unset /\ batch \in BatchRow /\ batch.todo # {} /\ work \in [Jobs -> Shapes]
  BY DEF PlanInv, PlaceNext
<1>2. batch.todo \subseteq Jobs
  BY <1>1 DEF BatchRow
<1> DEFINE j == MostUrgent(batch.todo)
           p == PolicyFor(work[j].tenant)
           d == Choice(work[j], p)
<1>3. j \in batch.todo /\ \A i \in batch.todo \ {j} : LexLess(UrgencyKey(j), UrgencyKey(i))
  BY <1>1, <1>2, MostUrgentIs
<1>4. Turn(j, p, d)
  BY <1>1, <1>3 DEF PlaceNext, Turn
<1> QED
  BY <1>4

\* What a turn does to the batch and to the places of the jobs.
LEMMA TurnIs ==
    ASSUME PlanInv, NEW j, NEW p, NEW d, Turn(j, p, d)
    PROVE  /\ j \in Jobs /\ work[j] \in Shapes /\ j \notin Placed
           /\ p \in Policy /\ d \in DecisionRow
           /\ batch \in BatchRow /\ batch' \in BatchRow /\ batch' # Unset
           /\ batch'.todo = batch.todo \ {j} /\ batch'.mlActive = batch.mlActive
           /\ Capacity' = Capacity
           /\ batch'.policyCache = [batch.policyCache EXCEPT ![work[j].tenant] = p]
           /\ batch.policyCache[work[j].tenant] \in {Unset, p}
           /\ placed' \in [Jobs -> DecisionRow \cup {Unset}]
           /\ Placed' = Placed \cup {j}
           /\ placed'[j] = d /\ \A i \in Placed : placed'[i] = placed[i]
           /\ WithRoom' = IF d.fits THEN WithRoom \cup {j} ELSE WithRoom
<1>1. /\ batch \in BatchRow /\ work \in [Jobs -> Shapes] /\ SettingsOK
      /\ placed \in [Jobs -> DecisionRow \cup {Unset}] /\ SlotsTyped
      /\ \A i \in Placed, k \in batch.todo : LexLess(UrgencyKey(i), UrgencyKey(k))
  BY DEF PlanInv, Turn, SlotsOK, SlotsTyped
<1>2. j \in Jobs /\ work[j] \in Shapes
  BY <1>1 DEF Turn, BatchRow
<1>3. j \notin Placed
  <2>1. ~LexLess(UrgencyKey(j), UrgencyKey(j))
    BY <1>1, <1>2, UrgencyKeyType, LexIrreflexive
  <2> QED
    BY <2>1, <1>1 DEF Turn
<1>4. work[j].tenant \in Tenants
  BY <1>2, BatchAssumption
<1>5. p \in Policy /\ batch.policyCache[work[j].tenant] \in {Unset, p}
  <2>1. batch.policyCache[work[j].tenant] \in Policy \cup {Unset}
    BY <1>1, <1>4 DEF BatchRow
  <2>2. EffectivePolicy(work[j].tenant) \in Policy
    BY <1>1, <1>4, EffectivePolicyType
  <2> QED
    BY <2>1, <2>2 DEF Turn, PolicyFor
<1>6. d \in DecisionRow
  BY <1>1, <1>2, <1>5, ChoiceIs DEF Turn
<1>7. /\ batch' \in BatchRow /\ batch'.todo = batch.todo \ {j} /\ batch'.mlActive = batch.mlActive
      /\ batch'.snapshot = batch.snapshot
      /\ batch'.policyCache = [batch.policyCache EXCEPT ![work[j].tenant] = p]
  <2> DEFINE cache == [batch.policyCache EXCEPT ![work[j].tenant] = p]
             todo == batch.todo \ {j}
  <2>1. cache \in [Tenants -> Policy \cup {Unset}] /\ todo \in SUBSET Jobs
    BY <1>1, <1>4, <1>5 DEF BatchRow
  <2>2. batch' = [batch EXCEPT !.todo = todo, !.policyCache = cache]
    BY <1>1 DEF Turn, BatchRow
  <2> HIDE DEF cache, todo
  <2>3. /\ batch' \in BatchRow /\ batch'.todo = todo /\ batch'.mlActive = batch.mlActive
        /\ batch'.snapshot = batch.snapshot /\ batch'.policyCache = cache
    BY <2>1, <2>2, <1>1 DEF BatchRow
  <2> QED
    BY <2>3 DEF cache, todo
<1>8. batch' # Unset /\ Capacity' = Capacity
  BY <1>7, RowAssumption DEF Capacity
<1>9. placed' = [placed EXCEPT ![j] = d] /\ d # Unset
  BY <1>6, RowAssumption DEF Turn
<1>10. placed' \in [Jobs -> DecisionRow \cup {Unset}]
  BY <1>1, <1>6, <1>9
<1>11. placed'[j] = d /\ \A i \in Jobs \ {j} : placed'[i] = placed[i]
  BY <1>1, <1>2, <1>9
<1>12. Placed' = Placed \cup {j}
  BY <1>2, <1>9, <1>11 DEF Placed
<1>13. WithRoom' = IF d.fits THEN WithRoom \cup {j} ELSE WithRoom
  BY <1>3, <1>11, <1>12 DEF WithRoom, Placed
<1> QED
  BY <1>1, <1>2, <1>3, <1>5, <1>6, <1>7, <1>8, <1>10, <1>11, <1>12, <1>13 DEF Placed

LEMMA UrgencyIsFixed ==
    ASSUME NEW j, NEW p, NEW d, Turn(j, p, d)
    PROVE  \A i : UrgencyKey(i)' = UrgencyKey(i)
BY DEF Turn, UrgencyKey

\* The jobs that are placed stay more urgent than those that are not.
LEMMA TurnKeepsTheOrder ==
    ASSUME PlanInv, NEW j, NEW p, NEW d, Turn(j, p, d)
    PROVE  \A i \in Placed', k \in batch'.todo : LexLess(UrgencyKey(i), UrgencyKey(k))'
<1>1. SUFFICES ASSUME NEW i \in Placed \cup {j}, NEW k \in batch.todo \ {j}
               PROVE  LexLess(UrgencyKey(i), UrgencyKey(k))
  <2>1. Placed' = Placed \cup {j} /\ batch'.todo = batch.todo \ {j} /\ work' = work
    BY TurnIs DEF Turn
  <2>2. \A i, k : LexLess(UrgencyKey(i), UrgencyKey(k)) <=> LexLess(UrgencyKey(i), UrgencyKey(k))'
    BY <2>1 DEF UrgencyKey, LexLess
  <2> QED
    BY <1>1, <2>1, <2>2
<1>2. CASE i = j
  BY <1>2 DEF Turn
<1>3. CASE i \in Placed
  BY <1>3 DEF Turn, PlanInv
<1> QED
  BY <1>2, <1>3

\* The more urgent jobs with room are those that came before.
LEMMA MoreUrgentAfterTurn ==
    ASSUME PlanInv, NEW j, NEW p, NEW d, Turn(j, p, d)
    PROVE  /\ MoreUrgent(j)' = WithRoom
           /\ \A i \in Placed : MoreUrgent(i)' = MoreUrgent(i)
<1>1. /\ j \in batch.todo /\ j \in Jobs /\ Placed \subseteq Jobs /\ WithRoom \subseteq Placed
      /\ WithRoom \subseteq WithRoom' /\ WithRoom' \subseteq WithRoom \cup {j}
      /\ work \in [Jobs -> Shapes] /\ 4 \in Nat
      /\ \A i \in Placed : LexLess(UrgencyKey(i), UrgencyKey(j))
  BY TurnIs DEF Turn, PlanInv, Placed, WithRoom
<1>2. \A i, k : LexLess(UrgencyKey(i), UrgencyKey(k))' <=> LexLess(UrgencyKey(i), UrgencyKey(k))
  BY DEF Turn, UrgencyKey, LexLess
<1>3. \A k : MoreUrgent(k)' = {i \in WithRoom' : LexLess(UrgencyKey(i), UrgencyKey(k))}
  BY <1>2 DEF MoreUrgent
<1>4. \A i \in Placed \cup {j} : ~LexLess(UrgencyKey(j), UrgencyKey(i))
  BY <1>1, UrgencyKeyType, LexIrreflexive, LexAsymmetric
<1>5. MoreUrgent(j)' = WithRoom
  BY <1>1, <1>3, <1>4
<1>6. \A i \in Placed : MoreUrgent(i)' = MoreUrgent(i)
  BY <1>1, <1>3, <1>4 DEF MoreUrgent
<1> QED
  BY <1>5, <1>6

(***************************************************************************)
(* What the slots hold                                                     *)
(***************************************************************************)

\* The jobs of a set that take hours of a slot, and what each needs there.
TakersOf(jobs, key) == {i \in jobs : key \in Hours(i)}
Needs(r) == [i \in Jobs |-> work[i].demand[r]]

LEMMA TakenByIsAHeap ==
    ASSUME NEW jobs \in SUBSET Jobs, NEW key, NEW r \in Resources
    PROVE  TakenBy(jobs, key)[r] = Cardinality(Heap(TakersOf(jobs, key), Needs(r)))
<1>1. Units(jobs, key, r) = Heap(TakersOf(jobs, key), Needs(r))
  BY DEF Units, Heap, TakersOf, Needs
<1> QED
  BY <1>1 DEF TakenBy

LEMMA NeedsType ==
    ASSUME work \in [Jobs -> Shapes], NEW r \in Resources, NEW i \in Jobs
    PROVE  Needs(r)[i] \in Nat
BY ShapeType DEF Needs, JobRow, Amounts

LEMMA TakenByType ==
    ASSUME work \in [Jobs -> Shapes], NEW jobs \in SUBSET Jobs, NEW key, NEW r \in Resources
    PROVE  TakenBy(jobs, key)[r] \in Nat
<1>1. IsFiniteSet(TakersOf(jobs, key)) /\ TakersOf(jobs, key) \subseteq Jobs
  BY BatchAssumption, FS_Subset DEF TakersOf
<1>2. \A i \in TakersOf(jobs, key) : Needs(r)[i] \in Nat
  BY <1>1, NeedsType
<1> QED
  BY <1>1, <1>2, HeapFinite, TakenByIsAHeap

\* In every slot, created or not, is what the placed jobs with room take of it.
LEMMA AllocatedIsTaken ==
    ASSUME PlanInv, batch # Unset, NEW key, NEW r \in Resources
    PROVE  AllocatedIn(slots, key)[r] = TakenBy(WithRoom, key)[r]
<1>1. CASE key \in DOMAIN slots
  BY <1>1 DEF PlanInv, SlotsOK, SlotsAreAccounted, AllocatedIn
<1>2. CASE key \notin DOMAIN slots
  <2>1. TakersOf(WithRoom, key) = {}
    BY <1>2 DEF PlanInv, SlotsOK, TakersOf
  <2>2. WithRoom \in SUBSET Jobs
    BY DEF WithRoom, Placed
  <2>3. TakenBy(WithRoom, key)[r] = 0
    BY <2>1, <2>2, TakenByIsAHeap, HeapOfNone
  <2> QED
    BY <1>2, <2>3 DEF AllocatedIn, Nothing
<1> QED
  BY <1>1, <1>2

\* The hours and the needs of placed jobs stay what they are.
LEMMA TakersAfterTurn ==
    ASSUME PlanInv, NEW j, NEW p, NEW d, Turn(j, p, d)
    PROVE  /\ \A r : Needs(r)' = Needs(r)
           /\ \A i \in Placed : Hours(i)' = Hours(i)
           /\ Hours(j)' = SlotsOf(work[j].region, d.chosen.start, work[j].runtime)
<1>1. placed'[j] = d /\ (\A i \in Placed : placed'[i] = placed[i]) /\ work' = work
  BY TurnIs DEF Turn
<1> QED
  BY <1>1 DEF Needs, Hours

LEMMA TakenAfterTurn ==
    ASSUME PlanInv, NEW j, NEW p, NEW d, Turn(j, p, d), NEW jobs \in SUBSET Placed, NEW key,
           NEW r \in Resources
    PROVE  TakenBy(jobs, key)'[r] = TakenBy(jobs, key)[r]
<1>1. \A i \in jobs : Hours(i)' = Hours(i)
  BY TakersAfterTurn
<1>2. work' = work
  BY DEF Turn
<1>3. Units(jobs, key, r)' = Units(jobs, key, r)
  <2>1. {i \in jobs : key \in Hours(i)'} = {i \in jobs : key \in Hours(i)}
    BY <1>1
  <2> QED
    BY <2>1, <1>2 DEF Units
<1> QED
  BY <1>3 DEF TakenBy

\* What has room for the job of this turn is what would have room with all the
\* less urgent jobs left out, then and after.
LEMMA RoomyAfterTurn ==
    ASSUME PlanInv, NEW j, NEW p, NEW d, Turn(j, p, d)
    PROVE  /\ RoomyFor(j)' = Roomy(work[j])
           /\ \A i \in Placed : RoomyFor(i)' = RoomyFor(i)
<1>1. /\ work' = work /\ Capacity' = Capacity /\ WithRoom \in SUBSET Placed /\ batch # Unset
      /\ MoreUrgent(j)' = WithRoom
      /\ \A i \in Placed : MoreUrgent(i)' = MoreUrgent(i) /\ MoreUrgent(i) \in SUBSET Placed
  BY TurnIs, MoreUrgentAfterTurn DEF Turn, WithRoom, MoreUrgent
<1>2. ASSUME NEW i, NEW jobs \in SUBSET Placed, MoreUrgent(i)' = jobs
      PROVE  RoomyFor(i)' =
               {c \in Eligible(work[i]) :
                  \A key \in SlotsOf(work[i].region, c.start, work[i].runtime), r \in Resources :
                     TakenBy(jobs, key)[r] + work[i].demand[r] =< Capacity[r]}
  <2>1. \A key : \A r \in Resources : TakenBy(MoreUrgent(i), key)'[r] = TakenBy(jobs, key)[r]
    <3>1. TAKE key
    <3>2. TakenBy(MoreUrgent(i), key)' = TakenBy(jobs, key)'
      BY <1>2 DEF TakenBy, Units
    <3> QED
      BY <3>2, TakenAfterTurn
  <2> QED
    BY <1>1, <2>1 DEF RoomyFor
<1>3. RoomyFor(j)' = Roomy(work[j])
  <2>1. RoomyFor(j)' =
          {c \in Eligible(work[j]) :
             \A key \in SlotsOf(work[j].region, c.start, work[j].runtime), r \in Resources :
                TakenBy(WithRoom, key)[r] + work[j].demand[r] =< Capacity[r]}
    BY <1>1, <1>2
  <2>2. \A key : \A r \in Resources : AllocatedIn(slots, key)[r] = TakenBy(WithRoom, key)[r]
    BY <1>1, AllocatedIsTaken
  <2> QED
    BY <2>1, <2>2 DEF Roomy, HasCapacity, CanFit
<1>4. \A i \in Placed : RoomyFor(i)' = RoomyFor(i)
  <2>1. TAKE i \in Placed
  <2>2. MoreUrgent(i)' = MoreUrgent(i) /\ MoreUrgent(i) \in SUBSET Placed
    BY <1>1
  <2> QED
    BY <2>2, <1>2 DEF RoomyFor
<1> QED
  BY <1>3, <1>4

(***************************************************************************)
(* The invariant of a batch                                                *)
(***************************************************************************)

\* The order that roomy windows are ranked in, and the first of them.
Best(j, windows) ==
    First(windows, placed[j].policy, [c \in windows |-> EffectiveCost(c)])

LEMMA BestAfterTurn ==
    ASSUME PlanInv, NEW j, NEW p, NEW d, Turn(j, p, d)
    PROVE  /\ \A c : EffectiveCost(c)' = EffectiveCost(c)
           /\ Preferred(j)' = First(Eligible(work[j]), p, BaseCost(Eligible(work[j])))
           /\ \A i \in Placed : Preferred(i)' = Preferred(i)
<1>1. batch'.mlActive = batch.mlActive /\ placed'[j] = d /\ work' = work
      /\ \A i \in Placed : placed'[i] = placed[i]
  BY TurnIs DEF Turn
<1>2. d.policy = p
  BY TurnIs, ChoiceIs DEF Turn, PlanInv, SlotsOK, SlotsTyped
<1> QED
  BY <1>1, <1>2 DEF EffectiveCost, Preferred

LEMMA TurnPlacesWell ==
    ASSUME PlanInv, NEW j, NEW p, NEW d, Turn(j, p, d)
    PROVE  PlacedOK(j)'
<1>1. /\ placed'[j] = d /\ work' = work /\ RoomyFor(j)' = Roomy(work[j])
      /\ batch'.policyCache = [batch.policyCache EXCEPT ![work[j].tenant] = p]
      /\ batch \in BatchRow /\ work[j].tenant \in Tenants
      /\ Preferred(j)' = First(Eligible(work[j]), p, BaseCost(Eligible(work[j])))
      /\ \A c : EffectiveCost(c)' = EffectiveCost(c)
  BY TurnIs, RoomyAfterTurn, BestAfterTurn, BatchAssumption DEF Turn
<1>2. batch'.policyCache[work[j].tenant] = p
  BY <1>1 DEF BatchRow
<1>3. SlotsTyped /\ work[j] \in Shapes /\ p \in Policy /\ d = Choice(work[j], p)
  BY TurnIs DEF Turn, PlanInv, SlotsOK, SlotsTyped
<1> DEFINE best == First(Roomy(work[j]), p, [c \in Roomy(work[j]) |-> EffectiveCost(c)])
           preferred == First(Eligible(work[j]), p, BaseCost(Eligible(work[j])))
<1>4. /\ d.policy = p
      /\ d.chosen \in Eligible(work[j])
      /\ d.fits <=> Roomy(work[j]) # {}
      /\ d.fits => d.chosen = best
      /\ d.spilled <=> ~d.fits \/ d.chosen.start # preferred.start
      /\ d.preferredFull <=> preferred \notin Roomy(work[j])
      /\ d.remaining = Remaining(work[j], d.chosen)
      /\ d.impact = Impact(work[j], BatchBaseline(work[j], d.chosen), d.chosen)
  BY <1>1, <1>3, ChoiceIs
<1>5. First(RoomyFor(j), placed[j].policy, [c \in RoomyFor(j) |-> EffectiveCost(c)])' = best
  BY <1>1, <1>4
<1>6. Eligible(work[j])' = Eligible(work[j])
  BY <1>1
<1> HIDE DEF best, preferred
<1> QED
  BY <1>1, <1>2, <1>4, <1>5, <1>6 DEF PlacedOK, preferred

LEMMA TurnKeepsPlaces ==
    ASSUME PlanInv, NEW j, NEW p, NEW d, Turn(j, p, d), NEW i \in Placed
    PROVE  PlacedOK(i)'
<1>1. PlacedOK(i) /\ placed[i] \in DecisionRow /\ i \in Jobs /\ work[i].tenant \in Tenants
  BY BatchAssumption DEF Turn, PlanInv, Placed
<1>2. /\ placed'[i] = placed[i] /\ work' = work /\ RoomyFor(i)' = RoomyFor(i)
      /\ Preferred(i)' = Preferred(i)
      /\ \A c : EffectiveCost(c)' = EffectiveCost(c)
  BY TurnIs, RoomyAfterTurn, BestAfterTurn DEF Turn
<1>3. batch'.policyCache[work[i].tenant] = batch.policyCache[work[i].tenant]
  <2>1. batch.policyCache[work[i].tenant] \in Policy
    BY <1>1 DEF PlacedOK, DecisionRow
  <2>2. batch.policyCache[work[i].tenant] # Unset
    BY <2>1, PolicyAssumption
  <2>3. batch'.policyCache = [batch.policyCache EXCEPT ![work[j].tenant] = p]
        /\ batch.policyCache[work[j].tenant] \in {Unset, p} /\ batch \in BatchRow
    BY TurnIs
  <2> QED
    BY <2>2, <2>3, <1>1 DEF BatchRow
<1>4. First(RoomyFor(i), placed[i].policy, [c \in RoomyFor(i) |-> EffectiveCost(c)])'
        = First(RoomyFor(i), placed[i].policy, [c \in RoomyFor(i) |-> EffectiveCost(c)])
  BY <1>2
<1>5. Eligible(work[i])' = Eligible(work[i])
  BY <1>2
<1> QED
  BY <1>1, <1>2, <1>3, <1>4, <1>5 DEF PlacedOK

\* Allocating what fits adds the needs of the job to each of its slots.
LEMMA TurnAccounts ==
    ASSUME PlanInv, NEW j, NEW p, NEW d, Turn(j, p, d)
    PROVE  SlotsOK'
<1>1. /\ j \in Jobs /\ work[j] \in Shapes /\ j \notin Placed /\ work \in [Jobs -> Shapes]
      /\ batch # Unset /\ batch' # Unset /\ Capacity' = Capacity
      /\ Placed' = Placed \cup {j} /\ WithRoom \subseteq Placed /\ Placed \subseteq Jobs
      /\ WithRoom' = IF d.fits THEN WithRoom \cup {j} ELSE WithRoom
      /\ placed'[j] = d /\ work' = work
      /\ \A i \in Placed : Hours(i)' = Hours(i)
  BY TurnIs, TakersAfterTurn DEF Turn, PlanInv, WithRoom, Placed
<1>2. SlotsOK /\ SlotsTyped /\ work[j].demand \in Amounts
  BY <1>1, ShapeType DEF Turn, PlanInv, SlotsOK, SlotsTyped, JobRow
<1> DEFINE keys == SlotsOf(work[j].region, d.chosen.start, work[j].runtime)
<1>3. Hours(j)' = keys
  BY TakersAfterTurn
<1>4. d.fits <=> CanFit(slots, Capacity, work[j].region, d.chosen.start,
                        work[j].runtime, work[j].demand)
  <2>1. /\ d.fits <=> Roomy(work[j]) # {}
        /\ d.fits => d.chosen \in Roomy(work[j])
        /\ d.chosen \in Eligible(work[j])
    BY <1>2, TurnIs, ChoiceIs DEF Turn
  <2> QED
    BY <2>1 DEF Roomy, HasCapacity
<1>5. CASE ~d.fits
  <2>1. slots' = slots
    BY <1>4, <1>5 DEF Turn, Allocate
  <2>2. WithRoom' = WithRoom
    BY <1>1, <1>5
  <2>3. \A key : \A r \in Resources : TakenBy(WithRoom, key)'[r] = TakenBy(WithRoom, key)[r]
    <3>1. TAKE key
    <3>2. PICK jobs \in SUBSET Placed : jobs = WithRoom /\ jobs = WithRoom'
      BY <1>1, <2>2
    <3>3. TakenBy(WithRoom, key)' = TakenBy(jobs, key)'
      BY <3>2 DEF TakenBy, Units
    <3> QED
      BY <3>2, <3>3, TakenAfterTurn
  <2>4. \A i \in WithRoom' : Hours(i)' \subseteq DOMAIN slots'
    BY <1>1, <1>2, <2>1, <2>2 DEF SlotsOK
  <2>5. ASSUME NEW key \in DOMAIN slots', NEW r \in Resources
        PROVE  /\ slots'[key][r] = TakenBy(WithRoom, key)'[r]
               /\ slots'[key][r] =< Capacity'[r]
    <3>1. /\ slots[key][r] = TakenBy(WithRoom, key)[r]
          /\ slots[key][r] =< Capacity[r]
      BY <1>1, <1>2, <2>1 DEF SlotsOK, SlotsAreAccounted
    <3> QED
      BY <1>1, <2>1, <2>3, <3>1
  <2>6. SlotsAreAccounted'
    BY <2>5 DEF SlotsAreAccounted
  <2> QED
    BY <1>2, <2>1, <2>4, <2>6 DEF SlotsOK, SlotsTyped
<1>6. CASE d.fits
  <2>1. /\ DOMAIN slots' = DOMAIN slots \cup keys
        /\ \A key \in DOMAIN slots' :
              slots'[key] = IF key \in keys
                            THEN [r \in Resources |-> AllocatedIn(slots, key)[r] + work[j].demand[r]]
                            ELSE slots[key]
    BY <1>4, <1>6 DEF Turn, Allocate
  <2>2. WithRoom' = WithRoom \cup {j}
    BY <1>1, <1>6
  <2>3. \A key : \A r \in Resources :
          /\ AllocatedIn(slots, key)[r] = TakenBy(WithRoom, key)[r]
          /\ TakenBy(WithRoom, key)[r] \in Nat
    <3>1. WithRoom \in SUBSET Jobs
      BY <1>1
    <3> QED
      BY <1>1, <3>1, AllocatedIsTaken, TakenByType
  <2>4. ASSUME NEW key, NEW r \in Resources
        PROVE  TakenBy(WithRoom, key)'[r] =
                 IF key \in keys THEN TakenBy(WithRoom, key)[r] + work[j].demand[r]
                 ELSE TakenBy(WithRoom, key)[r]
    <3>1. TakenBy(WithRoom, key)'[r] =
            Cardinality(UNION {{i} \X (1 .. work[i].demand[r]) :
                               i \in {k \in WithRoom' : key \in Hours(k)'}})
      BY <1>1 DEF TakenBy, Units
    <3>2. PICK takers : takers = TakersOf(WithRoom, key)
      OBVIOUS
    <3>3. {k \in WithRoom' : key \in Hours(k)'}
            = IF key \in keys THEN takers \cup {j} ELSE takers
      BY <1>1, <1>3, <2>2, <3>2 DEF TakersOf
    <3>4. takers \subseteq Jobs /\ j \notin takers /\ IsFiniteSet(takers)
      BY <1>1, <3>2, BatchAssumption, FS_Subset DEF TakersOf
    <3>5. \A X \in SUBSET Jobs :
            Heap(X, Needs(r)) = UNION {{i} \X (1 .. work[i].demand[r]) : i \in X}
      BY DEF Heap, Needs
    <3>6. TakenBy(WithRoom, key)[r] = Cardinality(Heap(takers, Needs(r)))
      <4>1. WithRoom \in SUBSET Jobs
        BY <1>1
      <4> QED
        BY <3>2, <4>1, TakenByIsAHeap
    <3>7. Cardinality(Heap(takers \cup {j}, Needs(r)))
            = Cardinality(Heap(takers, Needs(r))) + Needs(r)[j]
      <4>1. \A i \in takers \cup {j} : Needs(r)[i] \in Nat
        BY <1>1, <3>4, NeedsType
      <4> QED
        BY <3>4, <4>1, HeapGrows
    <3>8. Needs(r)[j] = work[j].demand[r]
      BY <1>1 DEF Needs
    <3>9. CASE key \in keys
      <4>1. takers \cup {j} \in SUBSET Jobs
        BY <1>1, <3>4
      <4>2. TakenBy(WithRoom, key)'[r] = Cardinality(Heap(takers \cup {j}, Needs(r)))
        BY <3>1, <3>3, <3>5, <3>9, <4>1
      <4> QED
        BY <3>6, <3>7, <3>8, <3>9, <4>2
    <3>10. CASE key \notin keys
      <4>1. TakenBy(WithRoom, key)'[r] = Cardinality(Heap(takers, Needs(r)))
        BY <3>1, <3>3, <3>4, <3>5, <3>10
      <4> QED
        BY <3>6, <3>10, <4>1
    <3> HIDE DEF keys
    <3> QED
      BY <3>9, <3>10
  <2>5. \A key \in DOMAIN slots' : slots'[key] \in Amounts
    <3>1. TAKE key \in DOMAIN slots'
    <3>2. CASE key \in keys
      <4>1. \A r \in Resources : AllocatedIn(slots, key)[r] + work[j].demand[r] \in Nat
        BY <1>2, <2>3 DEF Amounts
      <4> QED
        BY <2>1, <3>2, <4>1 DEF Amounts
    <3>3. CASE key \notin keys
      BY <1>2, <2>1, <3>3 DEF SlotsTyped
    <3> QED
      BY <3>2, <3>3
  <2>6. \A i \in WithRoom' : Hours(i)' \subseteq DOMAIN slots'
    BY <1>1, <1>2, <1>3, <2>1, <2>2 DEF SlotsOK
  <2>7. ASSUME NEW key \in DOMAIN slots', NEW r \in Resources
        PROVE  /\ slots'[key][r] = TakenBy(WithRoom, key)'[r]
               /\ slots'[key][r] =< Capacity[r]
    <3>1. CASE key \in keys
      <4>1. slots'[key][r] = AllocatedIn(slots, key)[r] + work[j].demand[r]
        BY <2>1, <3>1
      <4>2. AllocatedIn(slots, key)[r] + work[j].demand[r] =< Capacity[r]
        BY <1>4, <1>6, <3>1 DEF CanFit
      <4> QED
        BY <2>3, <2>4, <3>1, <4>1, <4>2
    <3>2. CASE key \notin keys
      <4>1. key \in DOMAIN slots /\ slots'[key] = slots[key]
        BY <2>1, <3>2
      <4> QED
        BY <1>1, <1>2, <2>4, <3>2, <4>1 DEF SlotsOK, SlotsAreAccounted
    <3> QED
      BY <3>1, <3>2
  <2>8. SlotsAreAccounted'
    BY <1>1, <2>7 DEF SlotsAreAccounted
  <2> QED
    BY <2>5, <2>6, <2>8 DEF SlotsOK
<1> QED
  BY <1>5, <1>6

LEMMA PlanInitially == PlanningInit => PlanInv
<1>1. SUFFICES ASSUME PlanningInit PROVE PlanInv
  OBVIOUS
<1>2. SettingsOK /\ work \in [Jobs -> Shapes]
  BY <1>1, SettingsInitially DEF PlanningInit, BatchInit
<1>3. placed \in [Jobs -> DecisionRow \cup {Unset}] /\ Placed = {}
  BY <1>1 DEF PlanningInit, BatchInit, Placed
<1>4. batch = Unset /\ slots = EmptyRegistry
  BY <1>1 DEF PlanningInit, BatchInit
<1> QED
  BY <1>2, <1>3, <1>4 DEF PlanInv

LEMMA StartBatchKeeps ==
    ASSUME PlanInv, StartBatch, UNCHANGED settingsVars
    PROVE  PlanInv'
<1>1. /\ SettingsOK' /\ work' = work /\ work \in [Jobs -> Shapes]
      /\ placed' = placed /\ placed \in [Jobs -> DecisionRow \cup {Unset}]
      /\ slots' = EmptyRegistry /\ Placed = {}
  BY DEF PlanInv, StartBatch, SettingsOK, settingsVars
<1>2. Placed' = {} /\ WithRoom' = {}
  BY <1>1 DEF Placed, WithRoom
<1>3. batch' \in BatchRow /\ batch' # Unset
  <2>1. PICK c \in Clusters, ml \in BOOLEAN, todo \in SUBSET Jobs \ {{}} :
          batch' = [todo |-> todo, snapshot |-> CollectClusterState(c), mlActive |-> ml,
                    policyCache |-> [t \in Tenants |-> Unset]]
    BY DEF StartBatch
  <2>2. batch' \in BatchRow
    BY <2>1 DEF BatchRow
  <2> QED
    BY <2>2, RowAssumption
<1>4. DOMAIN slots' = {}
  BY <1>1 DEF EmptyRegistry
<1>5. SlotsOK'
  BY <1>2, <1>4 DEF SlotsOK, SlotsAreAccounted
<1>6. \A i \in Placed', k \in batch'.todo : LexLess(UrgencyKey(i), UrgencyKey(k))'
  BY <1>2
<1>7. \A i \in Placed' : PlacedOK(i)'
  BY <1>2
<1> QED
  BY <1>1, <1>3, <1>5, <1>6, <1>7 DEF PlanInv

LEMMA PlaceNextKeeps ==
    ASSUME PlanInv, PlaceNext, UNCHANGED settingsVars
    PROVE  PlanInv'
<1>1. PICK j, p, d : Turn(j, p, d)
  BY PlaceNextIsATurn
<1>2. /\ batch' \in BatchRow /\ batch' # Unset /\ Placed' = Placed \cup {j}
      /\ placed' \in [Jobs -> DecisionRow \cup {Unset}]
  BY <1>1, TurnIs
<1>3. SettingsOK'
  BY DEF PlanInv, SettingsOK, settingsVars
<1>4. work' \in [Jobs -> Shapes]
  BY <1>1 DEF PlanInv, Turn
<1>5. \A i \in Placed', k \in batch'.todo : LexLess(UrgencyKey(i), UrgencyKey(k))'
  BY <1>1, TurnKeepsTheOrder
<1>6. \A i \in Placed' : PlacedOK(i)'
  BY <1>1, <1>2, TurnPlacesWell, TurnKeepsPlaces
<1>7. SlotsOK'
  BY <1>1, TurnAccounts
<1> QED
  BY <1>2, <1>3, <1>4, <1>5, <1>6, <1>7 DEF PlanInv

LEMMA ReturnBatchKeeps ==
    ASSUME PlanInv, ReturnBatch, UNCHANGED settingsVars
    PROVE  PlanInv'
<1>1. /\ SettingsOK' /\ work' \in [Jobs -> Shapes] /\ batch' = Unset /\ slots' = EmptyRegistry
      /\ placed' = [j \in Jobs |-> Unset]
  BY DEF PlanInv, ReturnBatch, SettingsOK, settingsVars
<1>2. placed' \in [Jobs -> DecisionRow \cup {Unset}] /\ Placed' = {}
  BY <1>1 DEF Placed
<1> QED
  BY <1>1, <1>2 DEF PlanInv

\* No step of an admin, and no stutter, touches the batch.
LEMMA BatchUntouchedKeeps ==
    ASSUME PlanInv, SettingsOK', UNCHANGED batchVars
    PROVE  PlanInv'
<1>1. work' = work /\ batch' = batch /\ slots' = slots /\ placed' = placed
  BY DEF batchVars
<1>2. Placed' = Placed /\ WithRoom' = WithRoom /\ Capacity' = Capacity
  BY <1>1 DEF Placed, WithRoom, Capacity
<1>3. \A i : UrgencyKey(i)' = UrgencyKey(i) /\ Hours(i)' = Hours(i)
  BY <1>1 DEF UrgencyKey, Hours
<1>4. \A jobs, key : TakenBy(jobs, key)' = TakenBy(jobs, key)
  BY <1>1 DEF TakenBy, Units, Hours
<1>5. \A i : MoreUrgent(i)' = MoreUrgent(i)
  BY <1>2, <1>3 DEF MoreUrgent
<1>6. \A i : RoomyFor(i)' = RoomyFor(i)
  BY <1>1 DEF RoomyFor, MoreUrgent, TakenBy, Units, Hours, UrgencyKey, Capacity, WithRoom, Placed
<1>7. \A c : EffectiveCost(c)' = EffectiveCost(c)
  BY <1>1 DEF EffectiveCost
<1>8. \A i : PlacedOK(i) => PlacedOK(i)'
  BY <1>1, <1>6, <1>7 DEF PlacedOK, Preferred
<1>9. SlotsOK => SlotsOK'
  BY <1>1 DEF SlotsOK, SlotsAreAccounted, Capacity, TakenBy, Units, Hours, WithRoom, Placed
<1>10. \A i, k : LexLess(UrgencyKey(i), UrgencyKey(k))' <=> LexLess(UrgencyKey(i), UrgencyKey(k))
  BY <1>3 DEF LexLess
<1> QED
  BY <1>1, <1>2, <1>8, <1>9, <1>10 DEF PlanInv

LEMMA PlanStep ==
    ASSUME PlanInv, [PlanningNext]_<<batchVars, settingsVars>>
    PROVE  PlanInv'
<1>1. CASE StartBatch /\ UNCHANGED settingsVars
  BY <1>1, StartBatchKeeps
<1>2. CASE PlaceNext /\ UNCHANGED settingsVars
  BY <1>2, PlaceNextKeeps
<1>3. CASE ReturnBatch /\ UNCHANGED settingsVars
  BY <1>3, ReturnBatchKeeps
<1>4. CASE SettingsNext /\ UNCHANGED batchVars
  BY <1>4, SettingsStep, BatchUntouchedKeeps DEF PlanInv
<1>5. CASE UNCHANGED <<batchVars, settingsVars>>
  <2>1. SettingsOK'
    BY <1>5 DEF PlanInv, SettingsOK, settingsVars
  <2> QED
    BY <2>1, <1>5, BatchUntouchedKeeps
<1> QED
  BY <1>1, <1>2, <1>3, <1>4, <1>5 DEF PlanningNext, BatchNext

\* Every state of a batch, whatever admins do meanwhile, is in the invariant.
THEOREM PlanInvariant == PlanningSpec => []PlanInv
<1>1. PlanningInit => PlanInv
  BY PlanInitially
<1>2. PlanInv /\ [PlanningNext]_<<batchVars, settingsVars>> => PlanInv'
  BY PlanStep
<1> QED
  BY <1>1, <1>2, PTL DEF PlanningSpec

(***************************************************************************)
(* What follows for a batch                                                *)
(***************************************************************************)

\* The slots hold what the jobs placed with room ask for, and no more than the
\* cluster has free (slot_capacity.py).
THEOREM SlotsStayAccounted == PlanningSpec => []SlotsAreAccounted
<1>1. PlanInv => SlotsAreAccounted
  BY DEF PlanInv, SlotsOK, SlotsAreAccounted
<1> QED
  BY <1>1, PlanInvariant, PTL

LEMMA RoomyForRankable ==
    ASSUME PlanInv, NEW j \in Placed
    PROVE  /\ work[j] \in Shapes /\ placed[j] \in DecisionRow /\ placed[j].policy \in Policy
           /\ RoomyFor(j) \subseteq Eligible(work[j])
           /\ Rankable(RoomyFor(j))
           /\ Priced(RoomyFor(j), [c \in RoomyFor(j) |-> EffectiveCost(c)])
           /\ ~batch.mlActive =>
                 \A c \in RoomyFor(j) : OrZero(EffectiveCost(c)) = 100 * OrZero(c.cost)
<1>1. work[j] \in Shapes /\ placed[j] \in DecisionRow
  BY DEF PlanInv, Placed
<1>2. RoomyFor(j) \subseteq Eligible(work[j])
  BY DEF RoomyFor
<1>3. RoomyFor(j) \in SUBSET Evaluations(work[j]) /\ Rankable(Evaluations(work[j]))
  BY <1>1, <1>2, EligibleRankable, EvaluationsRankable
<1>4. Rankable(RoomyFor(j))
  BY <1>3, SubsetRankable
<1> QED
  BY <1>1, <1>2, <1>3, <1>4, EffectiveCostType DEF DecisionRow

\* A cost counted in smaller units ranks the same; what else is offered matters
\* only to the policy with a tolerance.
LEMMA UnitsDoNotRank ==
    ASSUME NEW S, Rankable(S), NEW T \in SUBSET S, NEW p \in Policy,
           NEW base, Priced(S, base), NEW fine, Priced(T, fine),
           \A c \in T : OrZero(fine[c]) = 100 * OrZero(base[c]),
           S = T \/ p.policy # "CARBON_CONSTRAINED",
           First(S, p, base) \in T
    PROVE  First(T, p, fine) = First(S, p, base)
<1> DEFINE f == First(S, p, base)
           g == First(T, p, fine)
           carbon(c) == OrZero(c.carbon)
           price(c) == OrZero(base[c])
           small(c) == OrZero(fine[c])
<1>1. Rankable(T) /\ T # {}
  BY SubsetRankable
<1>2. g \in T /\ \A d \in T \ {g} : LexLess(SortKey(g, T, p, fine), SortKey(d, T, p, fine))
  BY <1>1, FirstIsLeast
<1>3. f \in S /\ \A d \in S \ {f} : LexLess(SortKey(f, S, p, base), SortKey(d, S, p, base))
  BY FirstIsLeast
<1>4. /\ carbon(f) \in Nat /\ price(f) \in Nat /\ f.start \in Nat /\ small(f) = 100 * price(f)
      /\ carbon(g) \in Nat /\ price(g) \in Nat /\ g.start \in Nat /\ small(g) = 100 * price(g)
  BY <1>2, <1>3, OrZeroType DEF Rankable, Priced, CandidateRow
<1>5. SUFFICES ASSUME f # g PROVE FALSE
  OBVIOUS
<1>6. LexLess(SortKey(g, T, p, fine), SortKey(f, T, p, fine))
      /\ LexLess(SortKey(f, S, p, base), SortKey(g, S, p, base))
  BY <1>2, <1>3, <1>5
<1> HIDE DEF f, g
<1>7. CASE p.policy = "CARBON_FIRST"
  <2>1. /\ LexLess(<<carbon(g), small(g), g.start>>, <<carbon(f), small(f), f.start>>)
        /\ LexLess(<<carbon(f), price(f), f.start>>, <<carbon(g), price(g), g.start>>)
    BY <1>6, <1>7 DEF SortKey
  <2> HIDE DEF carbon, price, small
  <2> QED
    BY <2>1, <1>4 DEF LexLess
<1>8. CASE p.policy = "COST_FIRST"
  <2>1. /\ LexLess(<<small(g), carbon(g), g.start>>, <<small(f), carbon(f), f.start>>)
        /\ LexLess(<<price(f), carbon(f), f.start>>, <<price(g), carbon(g), g.start>>)
    BY <1>6, <1>8 DEF SortKey
  <2> HIDE DEF carbon, price, small
  <2> QED
    BY <2>1, <1>4 DEF LexLess
<1>9. CASE p.policy = "CARBON_CONSTRAINED"
  <2>1. S = T
    BY <1>9
  <2> DEFINE fineKey(c) == IF WithinTolerance(c, S, p) THEN <<0, small(c), c.start, 0>>
                           ELSE <<1, carbon(c), small(c), c.start>>
             baseKey(c) == IF WithinTolerance(c, S, p) THEN <<0, price(c), c.start, 0>>
                           ELSE <<1, carbon(c), price(c), c.start>>
  <2>2. LexLess(fineKey(g), fineKey(f)) /\ LexLess(baseKey(f), baseKey(g))
    BY <2>1, <1>6, <1>9 DEF SortKey
  <2> HIDE DEF carbon, price, small
  <2>3. CASE WithinTolerance(f, S, p) /\ WithinTolerance(g, S, p)
    <3>1. /\ LexLess(<<0, small(g), g.start, 0>>, <<0, small(f), f.start, 0>>)
          /\ LexLess(<<0, price(f), f.start, 0>>, <<0, price(g), g.start, 0>>)
      BY <2>2, <2>3
    <3> QED
      BY <3>1, <1>4 DEF LexLess
  <2>4. CASE ~WithinTolerance(f, S, p) /\ ~WithinTolerance(g, S, p)
    <3>1. /\ LexLess(<<1, carbon(g), small(g), g.start>>, <<1, carbon(f), small(f), f.start>>)
          /\ LexLess(<<1, carbon(f), price(f), f.start>>, <<1, carbon(g), price(g), g.start>>)
      BY <2>2, <2>4
    <3> QED
      BY <3>1, <1>4 DEF LexLess
  <2>5. CASE WithinTolerance(f, S, p) /\ ~WithinTolerance(g, S, p)
    <3>1. LexLess(<<1, carbon(g), small(g), g.start>>, <<0, small(f), f.start, 0>>)
      BY <2>2, <2>5
    <3> QED
      BY <3>1, <1>4 DEF LexLess
  <2>6. CASE ~WithinTolerance(f, S, p) /\ WithinTolerance(g, S, p)
    <3>1. LexLess(<<1, carbon(f), price(f), f.start>>, <<0, price(g), g.start, 0>>)
      BY <2>2, <2>6
    <3> QED
      BY <3>1, <1>4 DEF LexLess
  <2> QED
    BY <2>3, <2>4, <2>5, <2>6
<1> QED
  BY <1>7, <1>8, <1>9 DEF Policy, Policies

\* Less urgent jobs never displace a job, and a job leaves the window it prefers
\* only when that is full, unless a tolerance or the forecaster moved it.
LEMMA UrgencyRules == PlanInv => OnlyTheUrgentDisplace
<1>1. SUFFICES ASSUME PlanInv, batch # Unset, NEW j \in Placed
               PROVE  /\ placed[j].fits <=> RoomyFor(j) # {}
                      /\ placed[j].policy.policy # "CARBON_CONSTRAINED" /\ ~batch.mlActive =>
                            (placed[j].spilled => placed[j].preferredFull)
  BY DEF OnlyTheUrgentDisplace
<1>2. PlacedOK(j)
  BY <1>1 DEF PlanInv
<1>3. placed[j].fits <=> RoomyFor(j) # {}
  BY <1>2 DEF PlacedOK
<1>4. ASSUME placed[j].policy.policy # "CARBON_CONSTRAINED", ~batch.mlActive, placed[j].spilled,
             ~placed[j].preferredFull
      PROVE  FALSE
  <2> DEFINE eligible == Eligible(work[j])
             p == placed[j].policy
             base == BaseCost(eligible)
             roomy == RoomyFor(j)
             fine == [c \in roomy |-> EffectiveCost(c)]
  <2>1. First(eligible, p, base) = Preferred(j) /\ Preferred(j) \in roomy
    BY <1>2, <1>4 DEF PlacedOK, Preferred
  <2>2. placed[j].chosen = First(roomy, p, fine)
    BY <1>2, <1>3, <2>1 DEF PlacedOK
  <2>3. Rankable(eligible) /\ roomy \in SUBSET eligible /\ p \in Policy /\ Priced(eligible, base)
        /\ Priced(roomy, fine)
    BY <1>1, RoomyForRankable, EligibleRankable
  <2>4. \A c \in roomy : OrZero(fine[c]) = 100 * OrZero(base[c])
    BY <1>1, <1>4, <2>3, RoomyForRankable DEF BaseCost
  <2>5. First(roomy, p, fine) = First(eligible, p, base)
    <3>1. p.policy # "CARBON_CONSTRAINED" /\ First(eligible, p, base) \in roomy
      BY <1>4, <2>1
    <3> HIDE DEF eligible, p, base, roomy, fine
    <3> QED
      BY <2>3, <2>4, <3>1, UnitsDoNotRank
  <2>6. placed[j].chosen.start = Preferred(j).start /\ placed[j].fits
    BY <1>3, <2>1, <2>2, <2>5
  <2> QED
    BY <1>2, <1>4, <2>6 DEF PlacedOK
<1> QED
  BY <1>3, <1>4

\* What step 1 of schedule_batch promises by its order, for every batch.
THEOREM OnlyTheUrgentEverDisplace == PlanningSpec => []OnlyTheUrgentDisplace
BY UrgencyRules, PlanInvariant, PTL

\* Every job gets what its company's policy promises, and a company has one policy
\* for the whole batch.
LEMMA PolicyRules == PlanInv => PolicyIsKept
<1>1. SUFFICES ASSUME PlanInv, batch # Unset
               PROVE  OnePolicyPerBatch /\ \A j \in WithRoom :
                  LET p == placed[j].policy
                      c == placed[j].chosen
                      least == MinCarbon(RoomyFor(j))
                      limit == {d \in RoomyFor(j) :
                                  100 * OrZero(d.carbon) =< least * (100 + Tolerance(p))}
                  IN  /\ p.policy = "CARBON_FIRST" => OrZero(c.carbon) = least
                      /\ p.policy = "COST_FIRST" /\ ~batch.mlActive =>
                            \A d \in RoomyFor(j) : OrZero(c.cost) =< OrZero(d.cost)
                      /\ p.policy = "CARBON_CONSTRAINED" =>
                            /\ c \in limit
                            /\ ~batch.mlActive =>
                                  \A d \in limit : OrZero(c.cost) =< OrZero(d.cost)
  BY DEF PolicyIsKept
<1>2. OnePolicyPerBatch
  BY <1>1 DEF OnePolicyPerBatch, PlanInv, PlacedOK
<1>3. ASSUME NEW j \in WithRoom
      PROVE  LET p == placed[j].policy
                 c == placed[j].chosen
                 least == MinCarbon(RoomyFor(j))
                 limit == {d \in RoomyFor(j) :
                             100 * OrZero(d.carbon) =< least * (100 + Tolerance(p))}
             IN  /\ p.policy = "CARBON_FIRST" => OrZero(c.carbon) = least
                 /\ p.policy = "COST_FIRST" /\ ~batch.mlActive =>
                       \A d \in RoomyFor(j) : OrZero(c.cost) =< OrZero(d.cost)
                 /\ p.policy = "CARBON_CONSTRAINED" =>
                       /\ c \in limit
                       /\ ~batch.mlActive =>
                             \A d \in limit : OrZero(c.cost) =< OrZero(d.cost)
  <2> DEFINE p == placed[j].policy
             c == placed[j].chosen
             roomy == RoomyFor(j)
             fine == [d \in roomy |-> EffectiveCost(d)]
             limit == {d \in roomy :
                         100 * OrZero(d.carbon) =< MinCarbon(roomy) * (100 + Tolerance(p))}
  <2>1. j \in Placed /\ placed[j].fits /\ PlacedOK(j)
    BY <1>1 DEF WithRoom, PlanInv
  <2>2. roomy # {} /\ c = First(roomy, p, fine)
    BY <2>1 DEF PlacedOK
  <2>3. Rankable(roomy) /\ p \in Policy /\ Priced(roomy, fine)
    BY <1>1, <2>1, RoomyForRankable
  <2>4. \A d \in roomy : OrZero(d.cost) \in Nat
    BY <2>3, OrZeroType DEF Rankable, CandidateRow
  <2>5. /\ c \in roomy
        /\ p.policy = "CARBON_FIRST" => OrZero(c.carbon) = MinCarbon(roomy)
        /\ p.policy = "COST_FIRST" => \A d \in roomy : OrZero(fine[c]) =< OrZero(fine[d])
        /\ p.policy = "CARBON_CONSTRAINED" =>
              /\ WithinTolerance(c, roomy, p)
              /\ \A d \in roomy : WithinTolerance(d, roomy, p) =>
                                     OrZero(fine[c]) =< OrZero(fine[d])
    <3> HIDE DEF roomy, fine, p, c
    <3> QED
      BY <2>2, <2>3, PolicyPromise
  <2>6. ASSUME ~batch.mlActive, NEW d \in roomy, OrZero(fine[c]) =< OrZero(fine[d])
        PROVE  OrZero(c.cost) =< OrZero(d.cost)
    <3>1. OrZero(fine[c]) = 100 * OrZero(c.cost) /\ OrZero(fine[d]) = 100 * OrZero(d.cost)
      BY <1>1, <2>1, <2>5, <2>6, RoomyForRankable
    <3>2. PICK m \in Nat, n \in Nat : m = OrZero(c.cost) /\ n = OrZero(d.cost)
      BY <2>4, <2>5
    <3>3. 100 * m =< 100 * n
      BY <2>6, <3>1, <3>2
    <3>4. m =< n
      BY <3>3
    <3> QED
      BY <3>2, <3>4
  <2>7. \A d \in roomy : d \in limit <=> WithinTolerance(d, roomy, p)
    BY DEF WithinTolerance
  <2> HIDE DEF roomy, fine, c, p, limit
  <2>8. /\ p.policy = "CARBON_FIRST" => OrZero(c.carbon) = MinCarbon(roomy)
        /\ p.policy = "COST_FIRST" /\ ~batch.mlActive =>
              \A d \in roomy : OrZero(c.cost) =< OrZero(d.cost)
        /\ p.policy = "CARBON_CONSTRAINED" =>
              /\ c \in limit
              /\ ~batch.mlActive => \A d \in limit : OrZero(c.cost) =< OrZero(d.cost)
    BY <2>5, <2>6, <2>7 DEF limit
  <2> QED
    BY <2>8 DEF roomy, c, p, limit
<1> QED
  BY <1>2, <1>3

\* What optimization_policy.py promises of each policy, among the windows with room.
THEOREM PolicyIsAlwaysKept == PlanningSpec => []PolicyIsKept
BY PolicyRules, PlanInvariant, PTL

LEMMA DeadlineRules == PlanInv => DeadlineIsKept
<1>1. SUFFICES ASSUME PlanInv, NEW j \in Placed
               PROVE  LET job == work[j] c == placed[j].chosen
                          bound == StartBound(RequestedStart(job), Now)
                      IN  /\ c.start >= Now /\ c.start >= RequestedStart(job)
                          /\ c.end > job.deadline => bound + job.runtime > job.deadline
  BY DEF DeadlineIsKept
<1> DEFINE job == work[j]
           c == placed[j].chosen
<1>2. PlacedOK(j) /\ job \in Shapes
  BY <1>1 DEF PlanInv, Placed
<1>3. c \in Evaluations(job)
  BY <1>2, EligibleRankable DEF PlacedOK
<1>4. c.start \in StartsOf(job) /\ c.end = c.start + job.runtime
  BY <1>2, <1>3, EvaluationsRankable
<1>5. RequestedStart(job) \in Nat
  BY <1>2, ShapeType DEF JobRow, Figure, RequestedStart
<1> HIDE DEF c, job
<1>6. /\ c.start \in Nat /\ c.start >= Bound(job)
      /\ c.start + job.runtime > job.deadline => Bound(job) + job.runtime > job.deadline
      /\ Bound(job) \in Nat /\ Bound(job) >= Now /\ Bound(job) >= RequestedStart(job)
  BY <1>2, <1>4, StartsOfIs
<1>7. /\ c.start >= Now /\ c.start >= RequestedStart(job)
      /\ c.end > job.deadline => Bound(job) + job.runtime > job.deadline
  BY <1>4, <1>5, <1>6 DEF Now
<1> QED
  BY <1>7 DEF Bound, c, job

\* Nothing starts early or in the past, and only what cannot make its deadline
\* misses it.
THEOREM DeadlineIsAlwaysKept == PlanningSpec => []DeadlineIsKept
BY DeadlineRules, PlanInvariant, PTL

(***************************************************************************)
(* A job alone                                                             *)
(***************************************************************************)

\* Every job takes at least an hour.
LEMMA SpanIsPositive ==
    ASSUME NEW runtime \in Nat
    PROVE  SpanHours(runtime) \in Nat /\ SpanHours(runtime) >= 1
<1>1. CASE runtime = 0
  BY <1>1 DEF SpanHours
<1>2. CASE runtime # 0
  <2>1. PICK n \in Nat : n = runtime + PerHour - 1
    BY <1>2, SlotCapacityAssumption
  <2>2. n >= PerHour /\ PerHour \in Nat \ {0}
    BY <1>2, <2>1, SlotCapacityAssumption
  <2>3. n \div PerHour \in Nat /\ n \div PerHour >= 1
    BY <2>2
  <2> QED
    BY <1>2, <2>1, <2>3 DEF SpanHours
<1> QED
  BY <1>1, <1>2

LEMMA SlotsOfSome ==
    ASSUME NEW region, NEW start \in Nat, NEW runtime \in Nat
    PROVE  SlotsOf(region, start, runtime) # {}
<1>1. HourOf(start) \in Nat
  BY SlotCapacityAssumption DEF HourOf
<1>2. SpanHours(runtime) \in Nat /\ SpanHours(runtime) >= 1
  BY SpanIsPositive
<1>3. HourOf(start) \in HourOf(start) .. HourOf(start) + SpanHours(runtime) - 1
  BY <1>1, <1>2
<1> QED
  BY <1>3 DEF SlotsOf

\* Where nobody else has taken anything, all windows have room, or none.
LEMMA AloneAllHaveRoom ==
    ASSUME PlanInv, batch # Unset, NEW j \in WithRoom, MoreUrgent(j) = {}
    PROVE  RoomyFor(j) = Eligible(work[j])
<1> DEFINE job == work[j]
           fit == \A r \in Resources : job.demand[r] =< Capacity[r]
<1>1. /\ work \in [Jobs -> Shapes] /\ job \in Shapes /\ PlacedOK(j) /\ placed[j].fits
      /\ Capacity \in Amounts /\ job.demand \in Amounts
  BY CapacityType, ShapeType DEF PlanInv, WithRoom, Placed, JobRow
<1>2. \A key : \A r \in Resources : TakenBy(MoreUrgent(j), key)[r] = 0
  <2>1. TAKE key
  <2>2. TAKE r \in Resources
  <2>3. TakersOf({}, key) = {}
    BY DEF TakersOf
  <2> QED
    BY <2>3, TakenByIsAHeap, HeapOfNone
<1>3. ASSUME NEW c \in Eligible(job)
      PROVE  c \in RoomyFor(j) <=> fit
  <2>1. c.start \in Nat /\ job.runtime \in Nat
    BY <1>1, <1>3, EligibleRankable, ShapeType DEF Rankable, CandidateRow, JobRow
  <2>2. SlotsOf(job.region, c.start, job.runtime) # {}
    BY <2>1, SlotsOfSome
  <2>3. c \in RoomyFor(j) <=>
          \A key \in SlotsOf(job.region, c.start, job.runtime), r \in Resources :
             TakenBy(MoreUrgent(j), key)[r] + job.demand[r] =< Capacity[r]
    BY <1>3 DEF RoomyFor
  <2>4. \A key : \A r \in Resources :
          TakenBy(MoreUrgent(j), key)[r] + job.demand[r] =< Capacity[r]
             <=> job.demand[r] =< Capacity[r]
    BY <1>1, <1>2 DEF Amounts
  <2> QED
    BY <2>2, <2>3, <2>4
<1>4. RoomyFor(j) # {} /\ RoomyFor(j) \subseteq Eligible(job)
  BY <1>1 DEF PlacedOK, RoomyFor
<1> QED
  BY <1>3, <1>4

\* The windows of the single scheduler are those of the batch scheduler.
LEMMA AloneFindsTheSame ==
    ASSUME NEW job \in Shapes, NEW p, NEW snapshot,
           job.earliest = Unset => job.submitted =< Now,
           ScheduleJob(job, Now, p, snapshot).chosen # Unset
    PROVE  /\ StartBound(job.earliest, Now) = Bound(job)
           /\ ScheduleJob(job, Now, p, snapshot)
                = Decided(job, Bound(job), First(Eligible(job), p, BaseCost(Eligible(job))))
<1> DEFINE bound == StartBound(job.earliest, Now)
           starts == CandidateStarts(bound, job.deadline, job.runtime, job.deferrable)
           candidates == {Candidate(job, t) : t \in starts}
           feasible == {c \in candidates : Reasons(job, c, snapshot) = {}}
           alone == ScheduleJob(job, Now, p, snapshot)
<1>1. bound = Bound(job)
  <2>1. job.earliest \in Figure /\ job.submitted \in Nat
    BY ShapeType DEF JobRow
  <2> QED
    BY <2>1, PolicyAssumption DEF Bound, StartBound, RequestedStart, Now, Figure
<1>2. alone = IF candidates = {} THEN [chosen |-> Unset, cause |-> "deadline too soon"]
              ELSE IF feasible = {}
                   THEN [chosen |-> Unset, cause |-> Cause(job, candidates, snapshot)]
              ELSE Decided(job, bound, First(feasible, p, BaseCost(feasible)))
  BY DEF ScheduleJob
<1> HIDE DEF alone
<1>3. candidates # {} /\ feasible # {}
  <2> HIDE DEF candidates, feasible
  <2>1. \A cause : [chosen |-> Unset, cause |-> cause].chosen = Unset
    OBVIOUS
  <2>2. alone.chosen # Unset
    BY DEF alone
  <2>3. CASE candidates = {}
    <3>1. alone = [chosen |-> Unset, cause |-> "deadline too soon"]
      BY <1>2, <2>3
    <3> QED
      BY <2>1, <2>2, <3>1
  <2>4. CASE candidates # {} /\ feasible = {}
    <3>1. alone = [chosen |-> Unset, cause |-> Cause(job, candidates, snapshot)]
      BY <1>2, <2>4
    <3> QED
      BY <2>1, <2>2, <3>1
  <2> QED
    BY <2>3, <2>4
<1>4. StartsOf(job) = starts
  BY <1>1, <1>3 DEF StartsOf, Bound
<1>5. Evaluations(job) = candidates
  BY <1>4 DEF Evaluations
<1>6. feasible = {c \in candidates : WindowReasons(job, c) = {}}
  <2>1. ResourceFeasible(snapshot, job.demand)
    <3>1. PICK c \in feasible : TRUE
      BY <1>3
    <3>2. Reasons(job, c, snapshot) = {}
      BY <3>1
    <3> QED
      BY <3>2 DEF Reasons
  <2>2. \A c : Reasons(job, c, snapshot) = WindowReasons(job, c)
    BY <2>1 DEF Reasons
  <2> QED
    BY <2>2
<1>7. Eligible(job) = feasible
  <2> HIDE DEF candidates, feasible
  <2> QED
    BY <1>3, <1>5, <1>6 DEF Eligible
<1> HIDE DEF bound, candidates, feasible
<1> QED
  BY <1>1, <1>2, <1>3, <1>7 DEF alone, bound

\* The two baselines differ only where running at once would be free, or clean.
LEMMA SameImpact ==
    ASSUME NEW job \in Shapes, NEW chosen \in CandidateRow,
           Candidate(job, Bound(job)).cost # 0
    PROVE  Impact(job, BatchBaseline(job, chosen), chosen)
             = Impact(job, Baseline(job, Bound(job), chosen), chosen)
<1> DEFINE known(figure, standIn) == IF OrZero(figure) = 0 THEN OrZero(standIn) ELSE figure
           first == CHOOSE t \in StartsOf(job) : \A u \in StartsOf(job) : t =< u
           at == Candidate(job, Bound(job))
           ours == [at EXCEPT !.carbon = known(@, chosen.carbon), !.cost = known(@, chosen.cost)]
           theirs == [at EXCEPT !.carbon = Known(@, chosen.carbon), !.cost = Known(@, chosen.cost)]
<1>1. first = Bound(job)
  <2>1. \A t \in StartsOf(job) : (\A u \in StartsOf(job) : t =< u) <=> t = Bound(job)
    BY StartsOfIs
  <2>2. Bound(job) \in StartsOf(job)
    BY StartsOfIs
  <2> QED
    BY <2>1, <2>2
<1>2. BatchBaseline(job, chosen) = ours
  <2>1. BatchBaseline(job, chosen)
          = [Candidate(job, first) EXCEPT !.carbon = known(@, chosen.carbon),
                                          !.cost = known(@, chosen.cost)]
    BY DEF BatchBaseline
  <2> QED
    BY <1>1, <2>1
<1>3. Baseline(job, Bound(job), chosen) = theirs
  BY DEF Baseline
<1>4. at \in CandidateRow
  BY StartsOfIs, CandidateType
<1>5. at.carbon \in Figure /\ at.cost \in Figure /\ at.cost # 0
      /\ chosen.carbon \in Figure /\ chosen.cost \in Figure
  BY <1>4 DEF CandidateRow
<1> HIDE DEF at
<1>6. /\ ours.start = at.start /\ theirs.start = at.start
      /\ ours.carbon = known(at.carbon, chosen.carbon)
      /\ theirs.carbon = Known(at.carbon, chosen.carbon)
      /\ ours.cost = known(at.cost, chosen.cost)
      /\ theirs.cost = Known(at.cost, chosen.cost)
  BY <1>4 DEF CandidateRow
<1>7. OrZero(ours.cost) = OrZero(theirs.cost)
  BY <1>5, <1>6, PolicyAssumption DEF OrZero, Known, Figure
<1>8. \/ OrZero(ours.carbon) = OrZero(theirs.carbon)
      \/ OrZero(ours.carbon) = OrZero(chosen.carbon) /\ OrZero(theirs.carbon) = 0
  BY <1>5, <1>6, PolicyAssumption DEF OrZero, Known, Figure
<1>9. OrZero(chosen.carbon) \in Nat
  BY <1>5, OrZeroType
<1> HIDE DEF ours, theirs
<1>10. (IF OrZero(ours.carbon) > OrZero(chosen.carbon)
        THEN OrZero(ours.carbon) - OrZero(chosen.carbon) ELSE 0)
         = (IF OrZero(theirs.carbon) > OrZero(chosen.carbon)
            THEN OrZero(theirs.carbon) - OrZero(chosen.carbon) ELSE 0)
  <2>1. CASE OrZero(ours.carbon) = OrZero(theirs.carbon)
    BY <2>1
  <2>2. CASE OrZero(ours.carbon) = OrZero(chosen.carbon) /\ OrZero(theirs.carbon) = 0
    BY <1>9, <2>2
  <2> QED
    BY <1>8, <2>1, <2>2
<1>11. Impact(job, ours, chosen) = Impact(job, theirs, chosen)
  BY <1>6, <1>7, <1>10 DEF Impact, ours, theirs
<1> QED
  BY <1>2, <1>3, <1>11

LEMMA AloneRules == PlanInv => AgreesWithSingle
<1>1. SUFFICES ASSUME PlanInv, batch # Unset, NEW j \in WithRoom, CompetesWithNobody(j),
                      ScheduleJob(work[j], Now, placed[j].policy, batch.snapshot).chosen # Unset
               PROVE  LET bound == StartBound(work[j].earliest, Now)
                          alone == ScheduleJob(work[j], Now, placed[j].policy, batch.snapshot)
                      IN  /\ placed[j].chosen = alone.chosen
                          /\ placed[j].remaining = alone.remaining
                          /\ Candidate(work[j], bound).cost # 0 => placed[j].impact = alone.impact
  BY DEF AgreesWithSingle
<1> DEFINE job == work[j]
           p == placed[j].policy
           eligible == Eligible(job)
           base == BaseCost(eligible)
           roomy == RoomyFor(j)
           fine == [c \in roomy |-> EffectiveCost(c)]
           best == First(eligible, p, base)
           alone == ScheduleJob(job, Now, p, batch.snapshot)
<1>2. j \in Placed /\ placed[j].fits /\ PlacedOK(j) /\ job \in Shapes /\ p \in Policy
  BY <1>1, RoomyForRankable DEF WithRoom, PlanInv
<1>3. roomy = eligible /\ placed[j].chosen = First(roomy, p, fine)
  <2>1. MoreUrgent(j) = {}
    BY <1>1 DEF CompetesWithNobody
  <2> QED
    BY <1>1, <1>2, <2>1, AloneAllHaveRoom DEF PlacedOK
<1>4. placed[j].chosen = best
  <2>1. /\ Rankable(eligible) /\ roomy \in SUBSET eligible /\ Priced(eligible, base)
        /\ Priced(roomy, fine) /\ best \in roomy
    BY <1>1, <1>2, <1>3, RoomyForRankable, EligibleRankable, FirstIsLeast
  <2>2. \A c \in roomy : OrZero(fine[c]) = 100 * OrZero(base[c])
    BY <1>1, <1>2, <1>3, RoomyForRankable DEF BaseCost, CompetesWithNobody
  <2>3. First(roomy, p, fine) = First(eligible, p, base)
    <3> HIDE DEF eligible, p, base, roomy, fine
    <3> QED
      BY <1>2, <1>3, <2>1, <2>2, UnitsDoNotRank DEF best
  <2> QED
    BY <1>3, <2>3
<1>5. StartBound(job.earliest, Now) = Bound(job) /\ alone = Decided(job, Bound(job), best)
  <2>1. (job.earliest = Unset => job.submitted =< Now) /\ alone.chosen # Unset
    BY <1>1 DEF CompetesWithNobody
  <2> QED
    BY <1>2, <2>1, AloneFindsTheSame
<1>6. best \in CandidateRow
  BY <1>2, EligibleRankable, FirstIsLeast DEF Rankable
<1>7. /\ placed[j].remaining = Remaining(job, best)
      /\ placed[j].impact = Impact(job, BatchBaseline(job, best), best)
  BY <1>2, <1>4 DEF PlacedOK
<1> HIDE DEF best
<1>8. /\ alone.chosen = best /\ alone.remaining = Remaining(job, best)
      /\ alone.impact = Impact(job, Baseline(job, Bound(job), best), best)
  BY <1>5 DEF Decided
<1> QED
  BY <1>2, <1>4, <1>5, <1>6, <1>7, <1>8, SameImpact

\* What POST /schedule decides of a job alone, the batch scheduler decides, too.
THEOREM AlwaysAgreesWithSingle == PlanningSpec => []AgreesWithSingle
BY AloneRules, PlanInvariant, PTL

(***************************************************************************)
(* Prices                                                                  *)
(***************************************************************************)

\* A pricer that is left alone stays current, whatever file is put in place.
LEMMA UntouchedIsCurrent ==
    ASSUME TariffInv, NEW p \in Pricers, curve'[p] = curve[p], memo'[p] = memo[p],
           tariffFile' \in Nat, tariffFile' >= tariffFile
    PROVE  IsCurrent(p)'
<1>1. IsCurrent(p)
  BY DEF TariffInv
<1>2. curve'[p].seen =< tariffFile'
  BY <1>1 DEF IsCurrent, TariffInv
<1> QED
  BY <1>1, <1>2 DEF IsCurrent

LEMMA TariffInitially == TariffInit => TariffInv
<1>1. SUFFICES ASSUME TariffInit PROVE TariffInv
  OBVIOUS
<1>2. ASSUME NEW p \in Pricers PROVE IsCurrent(p)
  <2>1. curve[p] = Blank /\ memo[p] = [time |-> 0, content |-> 0] /\ tariffFile = 1
    BY <1>1 DEF TariffInit
  <2>2. /\ Blank.asked = 0 /\ Blank.seen = 0 /\ Blank.held = Unset /\ Blank.pc = "idle"
        /\ Blank.points = {}
    BY DEF Blank
  <2> QED
    BY <2>1, <2>2 DEF IsCurrent, Figure
<1> QED
  BY <1>1, <1>2 DEF TariffInit, TariffInv

LEMMA ReplaceFileKeeps ==
    ASSUME TariffInv, ReplaceFile
    PROVE  TariffInv'
<1>1. tariffFile' \in Nat /\ tariffFile' >= tariffFile /\ memo' = memo /\ curve' = curve
  BY DEF TariffInv, ReplaceFile
<1> QED
  BY <1>1, UntouchedIsCurrent DEF TariffInv

LEMMA BeginCurveKeeps ==
    ASSUME TariffInv, NEW p \in Pricers, BeginCurve(p)
    PROVE  TariffInv'
<1>1. PICK region \in DOMAIN Offset, w \in Windows :
        curve' = [curve EXCEPT ![p] =
          [Blank EXCEPT !.pc = "look", !.region = region, !.window = w,
                        !.next = HourOf(w[1]) * PerHour]]
  BY DEF BeginCurve
<1>2. tariffFile' = tariffFile /\ memo' = memo /\ tariffFile \in Nat
  BY DEF BeginCurve, TariffInv
<1> DEFINE d == [Blank EXCEPT !.pc = "look", !.region = region, !.window = w,
                              !.next = HourOf(w[1]) * PerHour]
<1>3. /\ d.asked = 0 /\ d.seen = 0 /\ d.held = Unset /\ d.pc = "look" /\ d.points = {}
      /\ DOMAIN d = DOMAIN Blank
  BY DEF Blank
<1> HIDE DEF d
<1>4. /\ curve'[p] = d /\ DOMAIN curve' = Pricers
      /\ \A q \in Pricers \ {p} : curve'[q] = curve[q]
  BY <1>1 DEF TariffInv, d
<1>5. memo[p].content >= memo[p].time
  BY DEF TariffInv, IsCurrent
<1>6. IsCurrent(p)'
  BY <1>2, <1>3, <1>4, <1>5 DEF IsCurrent, Figure
<1>7. \A q \in Pricers \ {p} : IsCurrent(q)'
  BY <1>2, <1>4, UntouchedIsCurrent
<1> QED
  BY <1>2, <1>4, <1>6, <1>7 DEF TariffInv

LEMMA LookAtFileKeeps ==
    ASSUME TariffInv, NEW p \in Pricers, LookAtFile(p)
    PROVE  TariffInv'
<1>1. PICK c, m : c = curve[p] /\ m = memo[p]
  OBVIOUS
<1>2. /\ DOMAIN c = DOMAIN Blank /\ c.asked \in Nat /\ c.seen \in Nat /\ c.held \in Figure
      /\ m.content >= m.time /\ c.pc = "look" /\ tariffFile \in Nat
      /\ c.held # Unset => c.held >= c.asked
      /\ \A q \in c.points : q.held >= q.asked
  BY <1>1 DEF LookAtFile, TariffInv, IsCurrent
<1>3. tariffFile' = tariffFile /\ memo' = memo
  BY DEF LookAtFile
<1> DEFINE to == IF m.time = tariffFile THEN "take" ELSE "parse"
           asked == IF c.held = Unset THEN tariffFile ELSE c.asked
           d == [c EXCEPT !.pc = to, !.seen = tariffFile, !.asked = asked]
<1>4. curve' = [curve EXCEPT ![p] = d]
  BY <1>1 DEF LookAtFile, TariffInv
<1>5. /\ DOMAIN d = DOMAIN c /\ d.pc = to /\ d.seen = tariffFile /\ d.asked = asked
      /\ d.held = c.held /\ d.points = c.points
  BY <1>2 DEF Blank
<1> HIDE DEF d
<1>6. /\ curve'[p] = d /\ DOMAIN curve' = Pricers
      /\ \A q \in Pricers \ {p} : curve'[q] = curve[q]
  BY <1>4 DEF TariffInv
<1>7. IsCurrent(p)'
  BY <1>1, <1>2, <1>3, <1>5, <1>6 DEF IsCurrent
<1>8. \A q \in Pricers \ {p} : IsCurrent(q)'
  BY <1>2, <1>3, <1>6, UntouchedIsCurrent
<1> QED
  BY <1>2, <1>3, <1>6, <1>7, <1>8 DEF TariffInv

\* What is read is at least as new as the time that was looked at before.
LEMMA ParseFileKeeps ==
    ASSUME TariffInv, NEW p \in Pricers, ParseFile(p)
    PROVE  TariffInv'
<1>1. PICK c, m : c = curve[p] /\ m = memo[p]
  OBVIOUS
<1>2. /\ DOMAIN c = DOMAIN Blank /\ c.asked \in Nat /\ c.seen \in Nat /\ c.held \in Figure
      /\ c.pc = "parse" /\ tariffFile \in Nat /\ c.seen =< tariffFile
      /\ c.held = Unset => c.asked = c.seen
      /\ c.held # Unset => c.held >= c.asked
      /\ \A q \in c.points : q.held >= q.asked
  BY <1>1 DEF ParseFile, TariffInv, IsCurrent
<1>3. tariffFile' = tariffFile
  BY DEF ParseFile
<1> DEFINE d == [c EXCEPT !.pc = "take"]
           n == [time |-> c.seen, content |-> tariffFile]
<1>4. curve' = [curve EXCEPT ![p] = d] /\ memo' = [memo EXCEPT ![p] = n]
  BY <1>1 DEF ParseFile, Goes, TariffInv
<1>5. /\ DOMAIN d = DOMAIN c /\ d.pc = "take" /\ d.seen = c.seen /\ d.asked = c.asked
      /\ d.held = c.held /\ d.points = c.points
      /\ n.time = c.seen /\ n.content = tariffFile /\ n \in [time : Nat, content : Nat]
  BY <1>2 DEF Blank
<1> HIDE DEF d, n
<1>6. /\ curve'[p] = d /\ DOMAIN curve' = Pricers
      /\ \A q \in Pricers \ {p} : curve'[q] = curve[q] /\ memo'[q] = memo[q]
      /\ memo'[p] = n /\ memo' \in [Pricers -> [time : Nat, content : Nat]]
  BY <1>4, <1>5 DEF TariffInv
<1>7. IsCurrent(p)'
  BY <1>2, <1>3, <1>5, <1>6 DEF IsCurrent
<1>8. \A q \in Pricers \ {p} : IsCurrent(q)'
  BY <1>2, <1>3, <1>6, UntouchedIsCurrent
<1> QED
  BY <1>2, <1>3, <1>6, <1>7, <1>8 DEF TariffInv

LEMMA TakeRowsKeeps ==
    ASSUME TariffInv, NEW p \in Pricers, TakeRows(p)
    PROVE  TariffInv'
<1>1. PICK c, m : c = curve[p] /\ m = memo[p]
  OBVIOUS
<1>2. /\ DOMAIN c = DOMAIN Blank /\ c.asked \in Nat /\ c.seen \in Nat
      /\ c.pc = "take" /\ tariffFile \in Nat /\ c.seen =< tariffFile
      /\ c.asked = c.seen /\ m.time = c.seen /\ m.content >= m.time
      /\ m.time \in Nat /\ m.content \in Nat
      /\ \A q \in c.points : q.held >= q.asked
  BY <1>1 DEF TakeRows, TariffInv, IsCurrent
<1>3. tariffFile' = tariffFile /\ memo' = memo
  BY DEF TakeRows
<1> DEFINE d == [c EXCEPT !.pc = "look", !.held = m.content]
<1>4. curve' = [curve EXCEPT ![p] = d]
  BY <1>1 DEF TakeRows, TariffInv
<1>5. /\ DOMAIN d = DOMAIN c /\ d.pc = "look" /\ d.seen = c.seen /\ d.asked = c.asked
      /\ d.held = m.content /\ d.points = c.points
  BY <1>2 DEF Blank
<1> HIDE DEF d
<1>6. /\ curve'[p] = d /\ DOMAIN curve' = Pricers
      /\ \A q \in Pricers \ {p} : curve'[q] = curve[q]
  BY <1>4 DEF TariffInv
<1>7. IsCurrent(p)'
  BY <1>1, <1>2, <1>3, <1>5, <1>6 DEF IsCurrent, Figure
<1>8. \A q \in Pricers \ {p} : IsCurrent(q)'
  BY <1>2, <1>3, <1>6, UntouchedIsCurrent
<1> QED
  BY <1>2, <1>3, <1>6, <1>7, <1>8 DEF TariffInv

LEMMA PriceHourKeeps ==
    ASSUME TariffInv, NEW p \in Pricers, PriceHour(p)
    PROVE  TariffInv'
<1>1. PICK c, m : c = curve[p] /\ m = memo[p]
  OBVIOUS
<1>2. /\ DOMAIN c = DOMAIN Blank /\ c.asked \in Nat /\ c.seen \in Nat /\ tariffFile \in Nat
      /\ c.seen =< tariffFile /\ c.held >= c.asked /\ m.content >= m.time
      /\ \A q \in c.points : q.held >= q.asked
  BY <1>1 DEF PriceHour, TariffInv, IsCurrent
<1>3. tariffFile' = tariffFile /\ memo' = memo
  BY DEF PriceHour
<1> DEFINE point == [at |-> c.next, fallback |-> FALSE, asked |-> c.asked,
                     held |-> c.held, again |-> m.content,
                     value |-> PriceAt(Files[c.held], Files[m.content], c.region, c.next)]
           to == IF IsLast(c.next, c.window) THEN "check" ELSE "look"
           d == [c EXCEPT !.points = @ \cup {point}, !.held = Unset, !.next = @ + PerHour,
                          !.pc = to]
<1>4. curve' = [curve EXCEPT ![p] = d]
  BY <1>1 DEF PriceHour, TariffInv
<1>5. point.held = c.held /\ point.asked = c.asked
  OBVIOUS
<1>6. to \in {"check", "look"}
  OBVIOUS
<1> HIDE DEF point, to
<1>7. /\ DOMAIN d = DOMAIN c /\ d.pc = to /\ d.seen = c.seen /\ d.asked = c.asked
      /\ d.held = Unset /\ d.points = c.points \cup {point}
  BY <1>2 DEF Blank
<1> HIDE DEF d
<1>8. /\ curve'[p] = d /\ DOMAIN curve' = Pricers
      /\ \A q \in Pricers \ {p} : curve'[q] = curve[q]
  BY <1>4 DEF TariffInv
<1>9. IsCurrent(p)'
  BY <1>1, <1>2, <1>3, <1>5, <1>6, <1>7, <1>8 DEF IsCurrent, Figure
<1>10. \A q \in Pricers \ {p} : IsCurrent(q)'
  BY <1>2, <1>3, <1>8, UntouchedIsCurrent
<1> QED
  BY <1>2, <1>3, <1>8, <1>9, <1>10 DEF TariffInv

\* The steps that store the points change nothing that a price depends on.
LEMMA StoringKeeps ==
    ASSUME TariffInv, NEW p \in Pricers, CheckRows(p) \/ StoreRows(p)
    PROVE  TariffInv'
<1>1. PICK c, m : c = curve[p] /\ m = memo[p]
  OBVIOUS
<1>2. /\ DOMAIN c = DOMAIN Blank /\ c.asked \in Nat /\ c.seen \in Nat /\ c.held \in Figure
      /\ tariffFile \in Nat /\ c.seen =< tariffFile /\ m.content >= m.time
      /\ c.held # Unset => c.held >= c.asked
      /\ \A q \in c.points : q.held >= q.asked
  BY <1>1 DEF TariffInv, IsCurrent
<1>3. tariffFile' = tariffFile /\ memo' = memo
  BY DEF CheckRows, StoreRows
<1>4. PICK d : /\ curve' = [curve EXCEPT ![p] = d]
               /\ DOMAIN d = DOMAIN c /\ d.pc \in {"store", "done"} /\ d.seen = c.seen
               /\ d.asked = c.asked /\ d.held = c.held /\ d.points = c.points
  <2>1. CASE CheckRows(p)
    <3> DEFINE fresh == {q \in c.points : ~IsStored(c.region, q.at)}
               d == [c EXCEPT !.pc = "store", !.fresh = fresh]
    <3>1. curve' = [curve EXCEPT ![p] = d]
      BY <1>1, <2>1 DEF CheckRows, TariffInv
    <3> HIDE DEF fresh
    <3>2. /\ DOMAIN d = DOMAIN c /\ d.pc = "store" /\ d.seen = c.seen /\ d.asked = c.asked
          /\ d.held = c.held /\ d.points = c.points
      BY <1>2 DEF Blank
    <3> QED
      BY <3>1, <3>2
  <2>2. CASE StoreRows(p)
    <3> DEFINE d == [c EXCEPT !.pc = "done"]
    <3>1. curve' = [curve EXCEPT ![p] = d]
      BY <1>1, <2>2 DEF StoreRows, Goes, TariffInv
    <3>2. /\ DOMAIN d = DOMAIN c /\ d.pc = "done" /\ d.seen = c.seen /\ d.asked = c.asked
          /\ d.held = c.held /\ d.points = c.points
      BY <1>2 DEF Blank
    <3> QED
      BY <3>1, <3>2
  <2> QED
    BY <2>1, <2>2
<1>5. /\ curve'[p] = d /\ DOMAIN curve' = Pricers
      /\ \A q \in Pricers \ {p} : curve'[q] = curve[q]
  BY <1>4 DEF TariffInv
<1>6. IsCurrent(p)'
  BY <1>1, <1>2, <1>3, <1>4, <1>5 DEF IsCurrent
<1>7. \A q \in Pricers \ {p} : IsCurrent(q)'
  BY <1>2, <1>3, <1>5, UntouchedIsCurrent
<1> QED
  BY <1>2, <1>3, <1>5, <1>6, <1>7 DEF TariffInv

LEMMA TariffStep ==
    ASSUME TariffInv, [TariffNext]_tariffVars
    PROVE  TariffInv'
<1>1. CASE ReplaceFile
  BY <1>1, ReplaceFileKeeps
<1>2. ASSUME NEW p \in Pricers, PricerStep(p) PROVE TariffInv'
  BY <1>2, BeginCurveKeeps, LookAtFileKeeps, ParseFileKeeps, TakeRowsKeeps, PriceHourKeeps,
     StoringKeeps DEF PricerStep
<1>3. CASE UNCHANGED tariffVars
  <2>1. tariffFile' = tariffFile /\ memo' = memo /\ curve' = curve
    BY <1>3 DEF tariffVars
  <2> QED
    BY <2>1 DEF TariffInv, IsCurrent
<1> QED
  BY <1>1, <1>2, <1>3 DEF TariffNext

THEOREM TariffInvariant == TariffSpec => []TariffInv
<1>1. TariffInv /\ [TariffNext]_tariffVars => TariffInv'
  BY TariffStep
<1> QED
  BY <1>1, TariffInitially, PTL DEF TariffSpec

\* No price is older than the file that was in place when it was asked for
\* (load_master_tariff_data).
THEOREM PricesStayCurrent == TariffSpec => []PricesAreCurrent
<1>1. TariffInv => PricesAreCurrent
  BY DEF TariffInv, IsCurrent, PricesAreCurrent
<1> QED
  BY <1>1, TariffInvariant, PTL

(***************************************************************************)
(* A start pays for an hour near it                                        *)
(***************************************************************************)

\* The points of a curve are the full hours from that of the window's start to the
\* next one to price, each with the price of its hour.
HoursOK(p) ==
    LET c == curve[p] IN
    c.pc # "idle" =>
        /\ c.region \in DOMAIN Offset /\ c.window \in Windows /\ IsFiniteSet(c.points)
        /\ \A q \in c.points :
             /\ \E k \in Nat : q.at = k * PerHour
             /\ q.value = PriceAt(Files[q.held], Files[q.again], c.region, q.at)
        /\ \E n \in Nat :
             /\ c.next = n * PerHour
             /\ \A k \in HourOf(c.window[1]) .. n - 1 :
                  \E q \in c.points : q.at = k * PerHour
             /\ c.pc \in {"check", "store", "done"} => c.window[2] < c.next

HoursInv == TariffInv /\ \A p \in Pricers : HoursOK(p)

\* The hour that a tick is in.
LEMMA HourHas ==
    ASSUME NEW t \in Nat
    PROVE  /\ HourOf(t) \in Nat
           /\ HourOf(t) * PerHour =< t /\ t < (HourOf(t) + 1) * PerHour
<1>1. PerHour \in Nat /\ PerHour > 0
  BY SlotCapacityAssumption
<1> QED
  BY <1>1 DEF HourOf

LEMMA HoursInOrder ==
    ASSUME NEW k \in Int, NEW n \in Int, k * PerHour < n * PerHour
    PROVE  k < n
<1>1. PerHour \in Nat /\ PerHour > 0
  BY SlotCapacityAssumption
<1>2. CASE n =< k
  <2>1. k - n \in Nat /\ (k - n) * PerHour >= 0
    BY <1>1, <1>2
  <2> QED
    BY <1>1, <2>1
<1> QED
  BY <1>2

LEMMA DistanceType == \A a, b \in Nat : Distance(a, b) \in Nat
BY DEF Distance

\* By distance first, then by time.
LEMMA NearestIsNear ==
    ASSUME NEW a \in Nat, NEW b \in Nat, NEW t \in Nat,
           a = b \/ LexLess(<<Distance(a, t), a>>, <<Distance(b, t), b>>)
    PROVE  Distance(a, t) < Distance(b, t) \/ (Distance(a, t) = Distance(b, t) /\ a =< b)
<1> PICK x \in Nat, y \in Nat : x = Distance(a, t) /\ y = Distance(b, t)
  BY DistanceType
<1>1. CASE a = b
  BY <1>1
<1>2. CASE LexLess(<<x, a>>, <<y, b>>)
  <2>1. PICK n \in {1, 2} : <<x, a>>[n] < <<y, b>>[n] /\ \A m \in 1 .. n - 1 : <<x, a>>[m] = <<y, b>>[m]
    BY <1>2 DEF LexLess
  <2>2. CASE n = 1
    BY <2>1, <2>2
  <2>3. CASE n = 2
    <3>1. 1 \in 1 .. n - 1
      BY <2>3
    <3>2. x = y
      BY <2>1, <3>1
    <3> QED
      BY <2>1, <2>3, <3>2
  <2> QED
    BY <2>2, <2>3
<1> QED
  BY <1>1, <1>2

\* Where the full hour before a tick has a point, its nearest point is within the
\* hour before it or the half hour after it.
LEMMA NearHour ==
    ASSUME NEW h \in Nat, NEW k \in Nat, NEW t \in Nat,
           h * PerHour =< t, t < (h + 1) * PerHour,
           \/ Distance(k * PerHour, t) < Distance(h * PerHour, t)
           \/ Distance(k * PerHour, t) = Distance(h * PerHour, t) /\ k * PerHour =< h * PerHour
    PROVE  k * PerHour \in (t - PerHour + 1) .. (t + PerHour \div 2)
<1>1. PerHour \in Nat /\ PerHour > 0
  BY SlotCapacityAssumption
<1>2. PICK a \in Nat, b \in Nat, l \in Nat : a = k * PerHour /\ b = h * PerHour /\ l = PerHour
  BY <1>1
<1>3. (h + 1) * PerHour = b + l
  BY <1>1, <1>2
<1>4. CASE a =< t
  BY <1>2, <1>3, <1>4, <1>1 DEF Distance
<1>5. CASE a > t
  <2>1. a - t < t - b
    BY <1>2, <1>5 DEF Distance
  <2>2. h < k
    BY <1>2, <1>5, HoursInOrder
  <2>3. k < h + 2
    <3>1. a < b + l + l
      BY <1>2, <1>3, <2>1
    <3>2. (h + 2) * PerHour = b + l + l
      BY <1>1, <1>2
    <3> QED
      BY <1>2, <3>1, <3>2, HoursInOrder
  <2>4. a = b + l
    BY <1>2, <1>3, <2>2, <2>3
  <2>5. a - t =< l \div 2
    BY <1>2, <2>1, <2>4
  <2> QED
    BY <1>1, <1>2, <1>5, <2>5
<1> QED
  BY <1>2, <1>4, <1>5

LEMMA StartsPay ==
    ASSUME HoursInv, NEW p \in Pricers, curve[p].pc = "done",
           NEW v, \A q \in curve[p].points : q.held = v /\ q.again = v
    PROVE  StartsPayTheirHour(curve[p], Files[v])
<1>1. PICK c : c = curve[p]
  OBVIOUS
<1>2. /\ c.window \in Windows /\ IsFiniteSet(c.points)
      /\ \A q \in c.points :
           /\ \E k \in Nat : q.at = k * PerHour
           /\ q.value = PriceAt(Files[v], Files[v], c.region, q.at)
  BY <1>1 DEF HoursInv, HoursOK
<1>3. PICK n \in Nat :
        /\ c.next = n * PerHour /\ c.window[2] < c.next
        /\ \A k \in HourOf(c.window[1]) .. n - 1 : \E q \in c.points : q.at = k * PerHour
  BY <1>1 DEF HoursInv, HoursOK
<1>4. PICK from \in Nat, to \in Nat : c.window[1] = from /\ c.window[2] = to
  BY <1>2, TariffAssumption
<1>5. PerHour \in Nat /\ PerHour > 0
  BY SlotCapacityAssumption
<1>6. ASSUME NEW t \in from .. to
      PROVE  \E u \in (t - PerHour + 1) .. (t + PerHour \div 2) :
               u >= 0 /\ InterpolateTariff(c.points, <<>>, t) = PriceAt(Files[v], Files[v], c.region, u)
  <2>1. t \in Nat /\ from =< t /\ t =< to
    OBVIOUS
  <2>2. PICK h \in Nat : h = HourOf(t) /\ h * PerHour =< t /\ t < (h + 1) * PerHour
    BY <2>1, HourHas
  <2>3. h < n
    BY <1>3, <1>4, <1>5, <2>1, <2>2, HoursInOrder
  <2>4. PICK g \in Nat : g = HourOf(from) /\ g * PerHour =< from
    BY HourHas
  <2>5. g < h + 1
    BY <1>5, <2>1, <2>2, <2>4, HoursInOrder
  <2>6. PICK q0 \in c.points : q0.at = h * PerHour
    BY <1>3, <1>4, <2>3, <2>4, <2>5
  <2> DEFINE near == {q \in c.points : Distance(q.at, t) =< 2 * PerHour}
  <2>7. \A k \in Nat : k * PerHour \in Nat
    BY <1>5
  <2>8. q0 \in near
    <3>1. Distance(h * PerHour, t) = t - h * PerHour /\ t - h * PerHour < PerHour
      BY <1>5, <2>1, <2>2, <2>7 DEF Distance
    <3>. QED
      BY <1>5, <2>1, <2>2, <2>6, <2>7, <3>1
  <2>9. IsFiniteSet(near) /\ near \subseteq c.points /\ near # {}
    BY <1>2, <2>8, FS_Subset
  <2>10. \A q \in near : \E k \in Nat : q.at = k * PerHour
    BY <1>2
  <2>11. InterpolateTariff(c.points, <<>>, t) = Nearest(near, t).value
    BY <2>9 DEF InterpolateTariff
  <2> HIDE DEF near
  <2>12. \A q \in near : q.at \in Nat
    BY <2>7, <2>10
  <2>13. PICK q \in near :
           /\ q = Nearest(near, t)
           /\ q.at = q0.at \/ LexLess(<<Distance(q.at, t), q.at>>, <<Distance(q0.at, t), q0.at>>)
    BY <2>1, <2>8, <2>9, <2>12, NearestIs
  <2>14. PICK k \in Nat : q.at = k * PerHour
    BY <2>10
  <2>15. \/ Distance(q.at, t) < Distance(q0.at, t)
         \/ Distance(q.at, t) = Distance(q0.at, t) /\ q.at =< q0.at
    BY <2>1, <2>8, <2>12, <2>13, NearestIsNear
  <2>16. q.at \in (t - PerHour + 1) .. (t + PerHour \div 2)
    BY <2>1, <2>2, <2>6, <2>14, <2>15, NearHour
  <2> QED
    BY <1>2, <2>9, <2>11, <2>12, <2>13, <2>16
<1> QED
  BY <1>1, <1>4, <1>6 DEF StartsPayTheirHour

\* At noon of UTC every region is in the day of that date.
LEMMA NoonIsOfItsDay ==
    ASSUME NEW day \in Int, NEW region \in DOMAIN Offset, NoonOf(day) \in DOMAIN Offset[region]
    PROVE  LocalDay(region, NoonOf(day)) = day + 1
<1>1. PICK l \in Nat : l = PerHour /\ l > 0
  BY SlotCapacityAssumption
<1>2. PICK o \in Int : o = Offset[region][NoonOf(day)] /\ -(12 * l) =< o /\ o =< 12 * l - 1
  BY <1>1, ZoneAssumption
<1>3. PICK d \in Nat : d = Day /\ d = 24 * l /\ d > 0
  BY <1>1 DEF Day
<1>4. LocalTime(region, NoonOf(day)) = (day + 1) * d + (12 * l + o)
  BY <1>1, <1>2, <1>3 DEF LocalTime, NoonOf
<1>5. PICK r \in 0 .. d - 1 : r = 12 * l + o
  BY <1>1, <1>2, <1>3
<1>6. \A e \in Int, m \in Nat, x \in Int : 0 =< x /\ x < m => (e * m + x) \div m = e
  OBVIOUS
<1>7. ((day + 1) * d + r) \div d = day + 1
  BY <1>3, <1>5, <1>6
<1> QED
  BY <1>3, <1>4, <1>5, <1>7 DEF LocalDay

LEMMA TablesAgree ==
    ASSUME HoursInv, NEW p \in Pricers, curve[p].pc = "done", NEW data
    PROVE  TableAgrees(curve[p], data)
<1>1. PICK c : c = curve[p]
  OBVIOUS
<1>2. c.region \in DOMAIN Offset /\ c.window \in Windows
  BY <1>1 DEF HoursInv, HoursOK
<1>3. PICK from \in Nat, to \in Nat : c.window[1] = from /\ c.window[2] = to
  BY <1>2, TariffAssumption
<1>4. ASSUME NEW t \in from .. to, LocalHour(c.region, t) \in DOMAIN HourlyTable(data, c.region, LocalDay(c.region, t) - 1)
      PROVE  HourlyTable(data, c.region, LocalDay(c.region, t) - 1)[LocalHour(c.region, t)]
               = PriceAt(data, data, c.region, t)
  <2>1. {t, NoonOf(LocalDay(c.region, t) - 1)} \subseteq DOMAIN Offset[c.region]
    BY <1>2, <1>3, ZoneAssumption
  <2>2. LocalDay(c.region, t) \in Int
    <3>1. PICK l \in Nat : l = PerHour /\ l > 0
      BY SlotCapacityAssumption
    <3>2. PICK o \in Int : o = Offset[c.region][t]
      BY <1>2, <2>1, <3>1, ZoneAssumption
    <3>3. PICK d \in Nat : d = Day /\ d > 0
      BY <3>1 DEF Day
    <3>4. PICK x \in Int : x = LocalTime(c.region, t)
      BY <3>2, <3>3 DEF LocalTime
    <3> QED
      BY <3>3, <3>4 DEF LocalDay
  <2>3. PICK e \in Int : e = LocalDay(c.region, t)
    BY <2>2
  <2>4. LocalDay(c.region, NoonOf(e - 1)) = e
    BY <1>2, <2>1, <2>3, NoonIsOfItsDay
  <2>5. HourlyTable(data, c.region, e - 1) = Rates(data, c.region, SeasonOf(data, c.region, e))
    BY <2>4 DEF HourlyTable
  <2> QED
    BY <1>4, <2>3, <2>5 DEF PriceAt
<1> QED
  BY <1>1, <1>3, <1>4 DEF TableAgrees

\* A pricer that is left alone.
LEMMA UntouchedHours ==
    ASSUME NEW p \in Pricers, HoursOK(p), curve'[p] = curve[p]
    PROVE  HoursOK(p)'
BY DEF HoursOK

\* A step that changes neither what is asked for nor the points.
LEMMA SameHours ==
    ASSUME NEW p \in Pricers, HoursOK(p), NEW c, c = curve[p], NEW d, d = curve'[p],
           c.pc # "idle", d.region = c.region, d.window = c.window, d.points = c.points,
           d.next = c.next,
           d.pc \in {"check", "store", "done"} => c.pc \in {"check", "store", "done"}
    PROVE  HoursOK(p)'
<1>1. /\ c.region \in DOMAIN Offset /\ c.window \in Windows /\ IsFiniteSet(c.points)
      /\ \A q \in c.points :
           /\ \E k \in Nat : q.at = k * PerHour
           /\ q.value = PriceAt(Files[q.held], Files[q.again], c.region, q.at)
      /\ \E n \in Nat :
           /\ c.next = n * PerHour
           /\ \A k \in HourOf(c.window[1]) .. n - 1 : \E q \in c.points : q.at = k * PerHour
           /\ c.pc \in {"check", "store", "done"} => c.window[2] < c.next
  BY DEF HoursOK
<1> QED
  BY <1>1 DEF HoursOK

LEMMA BeginCurveHours ==
    ASSUME HoursInv, NEW p \in Pricers, BeginCurve(p)
    PROVE  HoursOK(p)'
<1>1. PICK region \in DOMAIN Offset, w \in Windows :
        curve' = [curve EXCEPT ![p] =
          [Blank EXCEPT !.pc = "look", !.region = region, !.window = w,
                        !.next = HourOf(w[1]) * PerHour]]
  BY DEF BeginCurve
<1>2. PICK n \in Nat : n = HourOf(w[1])
  <2>1. w[1] \in Nat
    BY TariffAssumption
  <2> QED
    BY <2>1, HourHas
<1> DEFINE d == [Blank EXCEPT !.pc = "look", !.region = region, !.window = w,
                              !.next = HourOf(w[1]) * PerHour]
<1>3. /\ d.pc = "look" /\ d.region = region /\ d.window = w /\ d.points = {}
      /\ d.next = HourOf(w[1]) * PerHour
  BY DEF Blank
<1> HIDE DEF d
<1>4. curve'[p] = d
  BY <1>1 DEF HoursInv, TariffInv, d
<1>5. IsFiniteSet({})
  BY FS_EmptySet
<1>6. n .. n - 1 = {}
  OBVIOUS
<1> QED
  BY <1>2, <1>3, <1>4, <1>5, <1>6 DEF HoursOK

\* The steps that look at the file and those that store the points.
LEMMA OtherHours ==
    ASSUME HoursInv, NEW p \in Pricers,
           LookAtFile(p) \/ ParseFile(p) \/ TakeRows(p) \/ CheckRows(p) \/ StoreRows(p)
    PROVE  HoursOK(p)'
<1>1. PICK c, m : c = curve[p] /\ m = memo[p]
  OBVIOUS
<1>2. DOMAIN c = DOMAIN Blank /\ DOMAIN curve = Pricers
  BY <1>1 DEF HoursInv, TariffInv, IsCurrent
<1>3. PICK d : /\ curve'[p] = d
               /\ c.pc # "idle" /\ d.region = c.region /\ d.window = c.window
               /\ d.points = c.points /\ d.next = c.next
               /\ d.pc \in {"check", "store", "done"} => c.pc \in {"check", "store", "done"}
  <2>1. CASE LookAtFile(p)
    <3> DEFINE to == IF m.time = tariffFile THEN "take" ELSE "parse"
               asked == IF c.held = Unset THEN tariffFile ELSE c.asked
               d == [c EXCEPT !.pc = to, !.seen = tariffFile, !.asked = asked]
    <3>1. curve'[p] = d /\ c.pc = "look"
      BY <1>1, <1>2, <2>1 DEF LookAtFile
    <3>2. to \in {"take", "parse"}
      OBVIOUS
    <3> HIDE DEF to, asked
    <3>3. /\ d.region = c.region /\ d.window = c.window /\ d.points = c.points
          /\ d.next = c.next /\ d.pc = to
      BY <1>2 DEF Blank
    <3> HIDE DEF d
    <3> QED
      BY <3>1, <3>2, <3>3
  <2>2. CASE ParseFile(p)
    <3> DEFINE d == [c EXCEPT !.pc = "take"]
    <3>1. curve'[p] = d /\ c.pc = "parse"
      BY <1>1, <1>2, <2>2 DEF ParseFile, Goes
    <3>2. /\ d.region = c.region /\ d.window = c.window /\ d.points = c.points
          /\ d.next = c.next /\ d.pc = "take"
      BY <1>2 DEF Blank
    <3> HIDE DEF d
    <3> QED
      BY <3>1, <3>2
  <2>3. CASE TakeRows(p)
    <3> DEFINE d == [c EXCEPT !.pc = "look", !.held = m.content]
    <3>1. curve'[p] = d /\ c.pc = "take"
      BY <1>1, <1>2, <2>3 DEF TakeRows
    <3>2. /\ d.region = c.region /\ d.window = c.window /\ d.points = c.points
          /\ d.next = c.next /\ d.pc = "look"
      BY <1>2 DEF Blank
    <3> HIDE DEF d
    <3> QED
      BY <3>1, <3>2
  <2>4. CASE CheckRows(p)
    <3> DEFINE fresh == {q \in c.points : ~IsStored(c.region, q.at)}
               d == [c EXCEPT !.pc = "store", !.fresh = fresh]
    <3>1. curve'[p] = d /\ c.pc = "check"
      BY <1>1, <1>2, <2>4 DEF CheckRows
    <3> HIDE DEF fresh
    <3>2. /\ d.region = c.region /\ d.window = c.window /\ d.points = c.points
          /\ d.next = c.next /\ d.pc = "store"
      BY <1>2 DEF Blank
    <3> HIDE DEF d
    <3> QED
      BY <3>1, <3>2
  <2>5. CASE StoreRows(p)
    <3> DEFINE d == [c EXCEPT !.pc = "done"]
    <3>1. curve'[p] = d /\ c.pc = "store"
      BY <1>1, <1>2, <2>5 DEF StoreRows, Goes
    <3>2. /\ d.region = c.region /\ d.window = c.window /\ d.points = c.points
          /\ d.next = c.next /\ d.pc = "done"
      BY <1>2 DEF Blank
    <3> HIDE DEF d
    <3> QED
      BY <3>1, <3>2
  <2> QED
    BY <2>1, <2>2, <2>3, <2>4, <2>5
<1>4. HoursOK(p)
  BY DEF HoursInv
<1> QED
  BY <1>1, <1>3, <1>4, SameHours

\* One more hour has its point; after the last one the window is covered.
LEMMA PriceHourHours ==
    ASSUME HoursInv, NEW p \in Pricers, PriceHour(p)
    PROVE  HoursOK(p)'
<1>1. PICK c, again : c = curve[p] /\ again = memo[p].content
  OBVIOUS
<1>2. /\ DOMAIN c = DOMAIN Blank /\ DOMAIN curve = Pricers /\ c.pc = "take"
      /\ c.region \in DOMAIN Offset /\ c.window \in Windows /\ IsFiniteSet(c.points)
      /\ \A q \in c.points :
           /\ \E k \in Nat : q.at = k * PerHour
           /\ q.value = PriceAt(Files[q.held], Files[q.again], c.region, q.at)
  BY <1>1 DEF HoursInv, TariffInv, IsCurrent, HoursOK, PriceHour
<1>3. PICK n \in Nat :
        /\ c.next = n * PerHour
        /\ \A k \in HourOf(c.window[1]) .. n - 1 : \E q \in c.points : q.at = k * PerHour
  BY <1>1, <1>2 DEF HoursInv, HoursOK
<1>4. PICK to \in Nat, g \in Nat : c.window[2] = to /\ HourOf(c.window[1]) = g
  BY <1>2, TariffAssumption, HourHas
<1>5. PICK l \in Nat : l = PerHour /\ n * l \in Nat /\ (n + 1) * l = n * l + l
  BY SlotCapacityAssumption
<1> DEFINE point == [at |-> c.next, fallback |-> FALSE, asked |-> c.asked,
                     held |-> c.held, again |-> again,
                     value |-> PriceAt(Files[c.held], Files[again], c.region, c.next)]
           goes == IF IsLast(c.next, c.window) THEN "check" ELSE "look"
           d == [c EXCEPT !.points = @ \cup {point}, !.held = Unset, !.next = @ + PerHour,
                          !.pc = goes]
<1>6. curve'[p] = d
  BY <1>1, <1>2 DEF PriceHour
<1>7. /\ point.at = c.next
      /\ point.value = PriceAt(Files[point.held], Files[point.again], c.region, point.at)
  OBVIOUS
<1>8. /\ goes \in {"check", "look"}
      /\ goes = "check" => to < (n + 1) * PerHour
  BY <1>3, <1>4, <1>5 DEF IsLast
<1> HIDE DEF point, goes
<1>9. /\ d.pc = goes /\ d.region = c.region /\ d.window = c.window
      /\ d.points = c.points \cup {point} /\ d.next = c.next + PerHour
  BY <1>2 DEF Blank
<1> HIDE DEF d
<1>10. d.next = (n + 1) * PerHour
  BY <1>3, <1>5, <1>9
<1>11. IsFiniteSet(d.points)
  BY <1>2, <1>9, FS_AddElement
<1>12. \A q \in d.points :
         /\ \E k \in Nat : q.at = k * PerHour
         /\ q.value = PriceAt(Files[q.held], Files[q.again], d.region, q.at)
  BY <1>2, <1>3, <1>7, <1>9
<1>13. ASSUME NEW k \in g .. (n + 1) - 1 PROVE \E q \in d.points : q.at = k * PerHour
  <2>1. CASE k = n
    BY <1>3, <1>7, <1>9, <2>1
  <2>2. CASE k # n
    <3>1. k \in g .. n - 1
      BY <2>2
    <3> QED
      BY <1>3, <1>4, <1>9, <3>1
  <2> QED
    BY <2>1, <2>2
<1>14. /\ n + 1 \in Nat
       /\ d.pc \in {"check", "store", "done"} => d.window[2] < d.next
  BY <1>4, <1>8, <1>9, <1>10
<1>15. \E i \in Nat :
         /\ d.next = i * PerHour
         /\ \A k \in HourOf(d.window[1]) .. i - 1 : \E q \in d.points : q.at = k * PerHour
         /\ d.pc \in {"check", "store", "done"} => d.window[2] < d.next
  <2> WITNESS n + 1 \in Nat
  <2> QED
    BY <1>4, <1>9, <1>10, <1>13, <1>14
<1> QED
  BY <1>2, <1>6, <1>9, <1>11, <1>12, <1>15 DEF HoursOK

LEMMA HoursStep ==
    ASSUME HoursInv, [TariffNext]_tariffVars
    PROVE  HoursInv'
<1>1. TariffInv'
  BY TariffStep DEF HoursInv
<1>2. ASSUME NEW p \in Pricers PROVE HoursOK(p)'
  <2>1. CASE curve'[p] = curve[p]
    BY <2>1, UntouchedHours DEF HoursInv
  <2>2. CASE PricerStep(p)
    BY <2>2, BeginCurveHours, OtherHours, PriceHourHours DEF PricerStep
  <2>3. ASSUME NEW q \in Pricers, q # p, PricerStep(q) PROVE curve'[p] = curve[p]
    BY <2>3 DEF PricerStep, BeginCurve, LookAtFile, ParseFile, TakeRows, PriceHour,
       CheckRows, StoreRows, Goes, HoursInv, TariffInv
  <2>4. CASE ReplaceFile \/ UNCHANGED tariffVars
    BY <2>1, <2>4 DEF ReplaceFile, tariffVars
  <2> QED
    BY <2>1, <2>2, <2>3, <2>4 DEF TariffNext
<1> QED
  BY <1>1, <1>2 DEF HoursInv

\* The points of a curve that is being made, for any files, zones and windows.
THEOREM HoursInvariant == TariffSpec => []HoursInv
<1>1. TariffInit => HoursInv
  <2> SUFFICES ASSUME TariffInit PROVE HoursInv
    OBVIOUS
  <2>1. \A p \in Pricers : curve[p].pc = "idle"
    BY DEF TariffInit, Blank
  <2> QED
    BY <2>1, TariffInitially DEF HoursInv, HoursOK
<1>2. HoursInv /\ [TariffNext]_tariffVars => HoursInv'
  BY HoursStep
<1> QED
  BY <1>1, <1>2, PTL DEF TariffSpec

\* A start is charged a price in force within the hour before it or the half hour
\* after it, and the table of a date agrees with the clock of the region, wherever
\* the clock or the season changes (get_regional_tariff_curve, get_hourly_tariffs).
THEOREM PricesAlwaysFollowTheClock == TariffSpec => []PricesFollowTheClock
<1>1. HoursInv => PricesFollowTheClock
  BY StartsPay, TablesAgree DEF PricesFollowTheClock
<1> QED
  BY <1>1, HoursInvariant, PTL
=============================================================================
