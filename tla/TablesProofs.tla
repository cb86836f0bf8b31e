---------------------------- MODULE TablesProofs ----------------------------
(***************************************************************************)
(* Facts that the proofs of the components rest on: the table operators,   *)
(* least and greatest numbers, and what holds of a construction that goes  *)
(* from one number to the next, as a loop over a sequence does.            *)
(***************************************************************************)
EXTENDS Tables, WellFoundedInduction, TLAPS

\* A nonempty set of naturals has a least member.
LEMMA LeastExists ==
    ASSUME NEW I \in SUBSET Nat, I # {}
    PROVE  \E i \in I : \A j \in I : i <= j
<1>1. PICK i \in I : \A j \in I : <<j, i>> \notin OpToRel(<, Nat)
  BY NatLessThanWellFounded, WFMin, Zenon
<1>2. \A j \in I : ~ (j < i)
  BY <1>1 DEF OpToRel
<1> QED
  BY <1>2

\* A nonempty set of naturals that is bounded has a greatest member: what lets
\* the largest row id in use be spoken of.
LEMMA GreatestExists ==
    ASSUME NEW n \in Nat, NEW D \in SUBSET (0..n), D # {}
    PROVE  Greatest(D) \in D /\ \A i \in D : i <= Greatest(D)
<1> DEFINE Bounds == {b \in Nat : \A i \in D : i <= b}
<1>1. Bounds \subseteq Nat /\ n \in Bounds
  OBVIOUS
<1>2. PICK b \in Bounds : \A c \in Bounds : <<c, b>> \notin OpToRel(<, Nat)
  <2>1. Bounds # {}
    BY <1>1
  <2> QED
    BY <1>1, <2>1, NatLessThanWellFounded, WFMin, Zenon
<1>3. \A c \in Bounds : ~ (c < b)
  BY <1>1, <1>2 DEF OpToRel
<1>4. b \in D
  <2> SUFFICES ASSUME b \notin D PROVE FALSE
    OBVIOUS
  <2>1. \A i \in D : i < b
    BY <1>1
  <2>2. b - 1 \in Bounds
    <3>1. b \in Nat /\ \A i \in D : i \in Nat /\ i <= b - 1
      BY <1>1, <2>1
    <3>2. PICK i \in D : TRUE
      OBVIOUS
    <3>3. b - 1 \in Nat
      BY <3>1, <3>2
    <3> QED
      BY <3>1, <3>3
  <2> QED
    BY <1>1, <1>3, <2>2
<1>5. \E m \in D : \A i \in D : i <= m
  BY <1>4
<1> QED
  BY <1>5, Zenon DEF Greatest

\* The id that SQLite gives to a new row is positive, is not in use, and exceeds
\* a bound of the ids in use by one at most, also when 0 stands for no row.
LEMMA MaxPlusOneBeyond ==
    ASSUME NEW n \in Nat, NEW D \in SUBSET (0..n)
    PROVE  MaxPlusOne(D) \in 1..(n + 1) /\ MaxPlusOne(D) \notin D
<1>1. CASE D = {}
  BY <1>1 DEF MaxPlusOne
<1>2. CASE D # {}
  <2>1. Greatest(D) \in D /\ \A i \in D : i <= Greatest(D)
    BY <1>2, GreatestExists, Zenon
  <2>2. MaxPlusOne(D) = Greatest(D) + 1
    BY <1>2, Zenon DEF MaxPlusOne
  <2>3. Greatest(D) \in 0..n
    BY <2>1
  <2> HIDE DEF MaxPlusOne
  <2>4. Greatest(D) + 1 \notin D
    BY <2>1, <2>3
  <2> QED
    BY <2>2, <2>3, <2>4
<1> QED
  BY <1>1, <1>2

LEMMA MaxPlusOneFresh ==
    ASSUME NEW n \in Nat, NEW D \in SUBSET (1..n)
    PROVE  MaxPlusOne(D) \in 1..(n + 1) /\ MaxPlusOne(D) \notin D
<1>1. D \in SUBSET (0..n)
  OBVIOUS
<1> QED
  BY <1>1, MaxPlusOneBeyond, Zenon

-----------------------------------------------------------------------------
(* Induction over an interval and over what a recursive function computes.   *)

\* Induction, for a set instead of a predicate: what holds of 0 and is handed on by each
\* number to the next holds up to n.
LEMMA UpTo ==
    ASSUME NEW n \in Nat, NEW S, 0 \in S, \A i \in 1..n : i - 1 \in S => i \in S
    PROVE  0..n \subseteq S
<1> DEFINE D == {i \in 0..n : i \notin S}
<1> SUFFICES ASSUME D # {} PROVE FALSE
  OBVIOUS
<1>1. D \subseteq Nat
  OBVIOUS
<1>2. PICK m \in D : \A j \in D : <<j, m>> \notin OpToRel(<, Nat)
  BY <1>1, NatLessThanWellFounded, WFMin, Zenon
<1>3. \A j \in D : ~ (j < m)
  BY <1>1, <1>2 DEF OpToRel
<1>4. m # 0
  BY <1>2
<1>5. m \in 1..n /\ m - 1 \in 0..n /\ m - 1 < m
  BY <1>4
<1>6. m - 1 \notin D
  BY <1>3, <1>5
<1> QED
  BY <1>5, <1>6

\* f begins with a and goes on by the steps G.
Iterates(f, n, X, a, G) ==
    f \in [0..n -> X] /\ f[0] = a /\ \A i \in 1..n : f[i] = G[i][f[i - 1]]
StepsOn(G, n, X) == G \in [1..n -> [X -> X]]

\* There is such a function: what recursion defines.
LEMMA IterationExists ==
    ASSUME NEW n \in Nat, NEW X, NEW a \in X, NEW G, StepsOn(G, n, X)
    PROVE  \E f : Iterates(f, n, X, a, G)
<1>0. G \in [1..n -> [X -> X]]
  BY DEF StepsOn
<1> DEFINE Good(m, f) == f[0] = a /\ \A i \in 1..m : f[i] = G[i][f[i - 1]]
           S == {m \in 0..n : \E f \in [0..m -> X] : Good(m, f)}
<1>1. 0 \in S
  <2> DEFINE f == [i \in 0..0 |-> a]
  <2>1. f \in [0..0 -> X] /\ f[0] = a /\ 1..0 = {}
    OBVIOUS
  <2> HIDE DEF f
  <2>2. \E e \in [0..0 -> X] : Good(0, e)
    BY <2>1
  <2> QED
    BY <2>2
<1>2. ASSUME NEW m \in 1..n, m - 1 \in S PROVE m \in S
  <2>1. PICK f \in [0..(m - 1) -> X] : Good(m - 1, f)
    BY <1>2
  <2> DEFINE g == [i \in 0..m |-> IF i = m THEN G[m][f[m - 1]] ELSE f[i]]
  <2>2. G[m][f[m - 1]] \in X
    <3>1. m - 1 \in 0..(m - 1) /\ f[m - 1] \in X
      OBVIOUS
    <3>2. G[m] \in [X -> X]
      BY <1>0
    <3> QED
      BY <3>1, <3>2
  <2>3. g \in [0..m -> X]
    <3>1. ASSUME NEW i \in 0..m PROVE (IF i = m THEN G[m][f[m - 1]] ELSE f[i]) \in X
      <4>1. CASE i = m
        BY <2>2, <4>1
      <4>2. CASE i # m
        <5>1. i \in 0..(m - 1)
          BY <4>2
        <5> QED
          BY <4>2, <5>1
      <4> QED
        BY <4>1, <4>2
    <3> QED
      BY <3>1
  <2>4. g[0] = a
    BY <2>1
  <2>5. ASSUME NEW i \in 1..m PROVE g[i] = G[i][g[i - 1]]
    <3>1. i - 1 \in 0..m /\ i - 1 # m /\ g[i - 1] = f[i - 1]
      OBVIOUS
    <3>2. CASE i = m
      BY <3>1, <3>2
    <3>3. CASE i # m
      <4>1. i \in 1..(m - 1) /\ g[i] = f[i]
        BY <3>3
      <4>2. f[i] = G[i][f[i - 1]]
        BY <2>1, <4>1
      <4> QED
        BY <3>1, <4>1, <4>2
    <3> QED
      BY <3>2, <3>3
  <2>6. Good(m, g)
    BY <2>4, <2>5
  <2>7. \E e \in [0..m -> X] : Good(m, e)
    <3> HIDE DEF g, Good
    <3> QED
      BY <2>3, <2>6
  <2>8. m \in 0..n
    OBVIOUS
  <2> QED
    <3> HIDE DEF g, Good
    <3> QED
      BY <2>7, <2>8
<1>3. 0..n \subseteq S
  <2> HIDE DEF S
  <2> QED
    BY <1>1, <1>2, UpTo
<1>4. n \in S
  BY <1>3
<1> QED
  BY <1>4 DEF Iterates
=============================================================================
