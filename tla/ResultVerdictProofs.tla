------------------------ MODULE ResultVerdictProofs ------------------------
(***************************************************************************)
(* Proofs about ResultVerdict, for any experiments, currents and fields:   *)
(* the three records of a run agree, a completed run is whole and sound,   *)
(* and every kind of failure is founded on what the simulator did.         *)
(*                                                                         *)
(* The sums and maxima that the code computes in loops are folds here.     *)
(* What they return for a sequence of any length is proved by induction    *)
(* on a set: one with 0 and the successor of each member is Nat, for the   *)
(* least number outside of it would have a predecessor outside of it.      *)
(***************************************************************************)
EXTENDS ResultVerdict, WellFoundedInduction, TLAPS

----------------------------------------------------------------------------
(* Induction, sums and maxima *)

\* The range of a function, by its domain.
LEMMA RangeIs == \A q, d : DOMAIN q = d => \A x : x \in Range(q) <=> \E j \in d : x = q[j]
  BY Zenon DEF Range

\* A set of numbers has a least one.
LEMMA Least ==
    ASSUME NEW S \in SUBSET Nat, S # {}
    PROVE  \E n \in S : \A m \in S : n <= m
<1>1. IsWellFoundedOn(OpToRel(<, Nat), Nat)
  BY NatLessThanWellFounded
<1>2. PICK n \in S : \A m \in S : ~ (<<m, n>> \in OpToRel(<, Nat))
  BY <1>1, WFMin
<1>3. \A m \in S : m < n => <<m, n>> \in OpToRel(<, Nat)
  BY DEF OpToRel
<1>4. \A m \in S : ~ (m < n)
  BY <1>2, <1>3
<1>5. QED
  BY <1>4

\* Induction: a set of numbers with 0 and every successor has them all.
LEMMA EveryNumber ==
    ASSUME NEW S \in SUBSET Nat, 0 \in S, \A n \in S : n + 1 \in S
    PROVE  S = Nat
<1>1. SUFFICES ASSUME Nat \ S # {}  PROVE FALSE
  OBVIOUS
<1>2. PICK n \in Nat \ S : \A m \in Nat \ S : n <= m
  BY <1>1, Least
<1>3. n # 0 /\ n - 1 \in Nat /\ n - 1 \in S
  BY <1>2
<1>4. (n - 1) + 1 \in S
  BY <1>3
<1>5. QED
  BY <1>2, <1>4

\* Induction up to n.
LEMMA UpTo ==
    ASSUME NEW n \in Nat, NEW S, 0 \in S, \A i \in 1 .. n : i - 1 \in S => i \in S
    PROVE  \A i \in 0 .. n : i \in S
<1> DEFINE N == {k \in Nat : k <= n => k \in S}
<1>1. N \in SUBSET Nat /\ 0 \in N
  OBVIOUS
<1>2. ASSUME NEW k \in N  PROVE k + 1 \in N
  <2>1. SUFFICES ASSUME k + 1 <= n  PROVE k + 1 \in S
    OBVIOUS
  <2>2. k \in S /\ k + 1 \in 1 .. n /\ (k + 1) - 1 = k
    BY <2>1
  <2>3. QED
    BY <2>2
<1> HIDE DEF N
<1>3. N = Nat
  BY <1>1, <1>2, EveryNumber
<1>4. QED
  BY <1>3 DEF N

\* The largest number of a set: of one with n, of any other, and of a prefix.
LEMMA MaxIs ==
    ASSUME NEW n \in Nat, NEW t \in SUBSET (1 .. n), n \in t
    PROVE  Max(t) = n
<1>1. \A y \in t : n >= y
  OBVIOUS
<1>2. \A x \in t : (\A y \in t : x >= y) => x = n
  OBVIOUS
<1>3. QED
  BY <1>1, <1>2 DEF Max

LEMMA MaxIn ==
    ASSUME NEW n \in Nat
    PROVE  \A t \in SUBSET (1 .. n) : t # {} => Max(t) \in t
<1> DEFINE S == {k \in Nat : \A t \in SUBSET (1 .. k) : t # {} => Max(t) \in t}
<1>1. 0 \in S
  <2>1. \A t \in SUBSET (1 .. 0) : t = {}
    OBVIOUS
  <2>2. QED
    BY <2>1
<1>2. ASSUME NEW k \in S  PROVE k + 1 \in S
  <2>1. ASSUME NEW t \in SUBSET (1 .. k + 1), t # {}  PROVE Max(t) \in t
    <3>1. CASE k + 1 \in t
      BY <3>1, MaxIs
    <3>2. CASE k + 1 \notin t
      <4>1. t \in SUBSET (1 .. k)
        BY <3>2
      <4>2. QED
        BY <1>2, <2>1, <4>1
    <3>3. QED
      BY <3>1, <3>2
  <2>2. QED
    BY <2>1
<1>3. S = Nat
  <2> HIDE DEF S
  <2>1. S \in SUBSET Nat
    BY DEF S
  <2>2. QED
    BY <1>1, <1>2, <2>1, EveryNumber
<1>4. QED
  BY <1>3

LEMMA PrefixSets ==
    ASSUME NEW n \in Nat
    PROVE  /\ 1 .. 0 = {}
           /\ \A i \in 0 .. n : 1 .. i \in SUBSET (1 .. n)
           /\ \A i \in 1 .. n : /\ 1 .. i # {} /\ Max(1 .. i) = i
                                /\ (1 .. i) \ {i} = 1 .. (i - 1)
<1>1. ASSUME NEW i \in 1 .. n  PROVE Max(1 .. i) = i
  <2>1. i \in Nat /\ i \in 1 .. i /\ 1 .. i \in SUBSET (1 .. i)
    OBVIOUS
  <2>2. QED
    BY <2>1, MaxIs, Zenon
<1>2. 1 .. 0 = {}
  OBVIOUS
<1>3. \A i \in 0 .. n : 1 .. i \in SUBSET (1 .. n)
  OBVIOUS
<1>4. \A i \in 1 .. n : 1 .. i # {} /\ (1 .. i) \ {i} = 1 .. (i - 1)
  OBVIOUS
<1>5. QED
  BY <1>1, <1>2, <1>3, <1>4, Zenon

\* g folds F from b over every subset of 1 .. n, the largest member last.
IsFold(g, n, T, b, F) ==
    /\ g \in [SUBSET (1 .. n) -> T]
    /\ \A t \in SUBSET (1 .. n) :
          g[t] = IF t = {} THEN b ELSE F[Max(t), g[t \ {Max(t)}]]

\* There is such a function: what the folds of the library choose exists.
LEMMA FoldExists ==
    ASSUME NEW n \in Nat, NEW T, NEW b \in T, NEW F \in [(1 .. n) \X T -> T]
    PROVE  \E g : IsFold(g, n, T, b, F)
<1> DEFINE S == {k \in Nat : k <= n => \E g : IsFold(g, k, T, b, F)}
<1>1. 0 \in S
  <2>1. SUBSET (1 .. 0) = {{}}
    OBVIOUS
  <2>2. IsFold([t \in SUBSET (1 .. 0) |-> b], 0, T, b, F)
    BY <2>1 DEF IsFold
  <2>3. QED
    BY <2>2
<1>2. ASSUME NEW k \in S  PROVE k + 1 \in S
  <2>1. SUFFICES ASSUME k + 1 <= n  PROVE \E g : IsFold(g, k + 1, T, b, F)
    OBVIOUS
  <2>2. k \in Nat /\ k <= n
    BY <2>1
  <2>3. PICK g : IsFold(g, k, T, b, F)
    BY <2>2
  <2> DEFINE h == [t \in SUBSET (1 .. k + 1) |->
                     IF k + 1 \in t THEN F[k + 1, g[t \ {k + 1}]] ELSE g[t]]
  <2>4. ASSUME NEW t \in SUBSET (1 .. k + 1)
        PROVE  h[t] \in T /\ h[t] = IF t = {} THEN b ELSE F[Max(t), h[t \ {Max(t)}]]
    <3>1. CASE k + 1 \in t
      <4>1. t \ {k + 1} \in SUBSET (1 .. k) /\ k + 1 \notin t \ {k + 1}
        BY <2>2
      <4>2. g[t \ {k + 1}] \in T
        BY <2>3, <4>1 DEF IsFold
      <4>3. h[t] = F[k + 1, g[t \ {k + 1}]]
        BY <3>1
      <4>4. h[t \ {k + 1}] = g[t \ {k + 1}]
        BY <4>1
      <4>5. Max(t) = k + 1
        BY <2>2, <3>1, MaxIs
      <4> HIDE DEF h
      <4>6. F[k + 1, g[t \ {k + 1}]] \in T
        <5>1. k + 1 \in 1 .. n
          BY <2>1, <2>2
        <5>2. <<k + 1, g[t \ {k + 1}]>> \in (1 .. n) \X T
          BY <4>2, <5>1
        <5>3. QED
          BY <5>2
      <4>7. QED
        BY <3>1, <4>3, <4>4, <4>5, <4>6
    <3>2. CASE k + 1 \notin t
      <4>1. t \in SUBSET (1 .. k)
        BY <2>2, <3>2
      <4>2. h[t] = g[t]
        BY <3>2
      <4>3. t \ {Max(t)} \in SUBSET (1 .. k + 1) /\ k + 1 \notin t \ {Max(t)}
        BY <3>2
      <4>4. h[t \ {Max(t)}] = g[t \ {Max(t)}]
        BY <4>3
      <4>5. g[t] \in T /\ g[t] = IF t = {} THEN b ELSE F[Max(t), g[t \ {Max(t)}]]
        BY <2>3, <4>1 DEF IsFold
      <4> HIDE DEF h
      <4>6. QED
        BY <4>2, <4>4, <4>5
    <3>3. QED
      BY <3>1, <3>2
  <2>5. h \in [SUBSET (1 .. k + 1) -> T]
    BY <2>4
  <2> HIDE DEF h
  <2>6. IsFold(h, k + 1, T, b, F)
    BY <2>4, <2>5 DEF IsFold
  <2>7. QED
    BY <2>6
<1>3. S = Nat
  <2> HIDE DEF S
  <2>1. S \in SUBSET Nat
    BY DEF S
  <2>2. QED
    BY <1>1, <1>2, <2>1, EveryNumber
<1>4. QED
  BY <1>3

\* Total adds one number after the other.
LEMMA TotalIs ==
    ASSUME NEW s \in Seq(Int)
    PROVE  \E acc \in [0 .. Len(s) -> Int] :
              /\ acc[0] = 0 /\ Total(s) = acc[Len(s)]
              /\ \A i \in 1 .. Len(s) : acc[i] = acc[i - 1] + s[i]
<1> DEFINE n == Len(s)
           F == [p \in (1 .. n) \X Int |-> p[2] + s[p[1]]]
           Eq(g) == g = [t \in SUBSET (DOMAIN s) |->
                          IF t = {} THEN 0 ELSE Plus(g[t \ {Max(t)}], s[Max(t)])]
           iter == CHOOSE g : Eq(g)
<1>1. n \in Nat /\ DOMAIN s = 1 .. n /\ \A i \in 1 .. n : s[i] \in Int
  OBVIOUS
<1>2. F \in [(1 .. n) \X Int -> Int]
  BY <1>1
<1>3. \A i \in 1 .. n, v \in Int : F[i, v] = v + s[i]
  BY <1>1
<1>4. Total(s) = iter[1 .. n]
  BY <1>1 DEF Total, FoldLeft, MapThenFoldSet
<1> HIDE DEF n, F
<1>5. PICK g : IsFold(g, n, Int, 0, F)
  <2>1. 0 \in Int
    OBVIOUS
  <2>2. QED
    BY <1>1, <1>2, <2>1, FoldExists
<1>6. Eq(g)
  <2>1. ASSUME NEW t \in SUBSET (1 .. n), t # {}
        PROVE  F[Max(t), g[t \ {Max(t)}]] = Plus(g[t \ {Max(t)}], s[Max(t)])
    <3>1. Max(t) \in 1 .. n /\ t \ {Max(t)} \in SUBSET (1 .. n)
      BY <1>1, <2>1, MaxIn
    <3>2. g[t \ {Max(t)}] \in Int
      BY <1>5, <3>1 DEF IsFold
    <3>3. QED
      BY <1>1, <1>3, <3>1, <3>2, ConstantsAssumption DEF Plus
  <2>2. g = [t \in SUBSET (1 .. n) |-> g[t]]
    BY <1>5 DEF IsFold
  <2>3. \A t \in SUBSET (1 .. n) :
           g[t] = IF t = {} THEN 0 ELSE Plus(g[t \ {Max(t)}], s[Max(t)])
    BY <1>5, <2>1 DEF IsFold
  <2>4. QED
    BY <1>1, <2>2, <2>3, Zenon
<1>7. Eq(iter)
  BY <1>6
<1> HIDE DEF iter
<1>8. \A t \in SUBSET (1 .. n) :
         iter[t] = IF t = {} THEN 0 ELSE Plus(iter[t \ {Max(t)}], s[Max(t)])
  BY <1>1, <1>7
<1> DEFINE acc == [i \in 0 .. n |-> iter[1 .. i]]
<1>9. acc[0] = 0
  <2>1. 0 \in 0 .. n
    BY <1>1
  <2>2. 1 .. 0 = {} /\ 1 .. 0 \in SUBSET (1 .. n)
    BY <1>1, <2>1, PrefixSets, Zenon
  <2>3. iter[1 .. 0] = 0
    BY <1>8, <2>2, Zenon
  <2>4. QED
    BY <2>1, <2>3, Zenon
<1>10. ASSUME NEW i \in 1 .. n  PROVE acc[i] = Plus(acc[i - 1], s[i])
  <2>1. i \in 0 .. n /\ i - 1 \in 0 .. n
    BY <1>1
  <2>2. iter[1 .. i] = Plus(iter[1 .. (i - 1)], s[i])
    <3>1. /\ 1 .. i \in SUBSET (1 .. n) /\ 1 .. i # {}
          /\ Max(1 .. i) = i /\ (1 .. i) \ {i} = 1 .. (i - 1)
      BY <1>1, <2>1, PrefixSets, Zenon
    <3>2. QED
      BY <1>8, <3>1, Zenon
  <2>3. QED
    BY <2>1, <2>2
<1>11. Total(s) = acc[n]
  BY <1>1, <1>4
<1> HIDE DEF acc
<1>12. \A i \in 0 .. n : acc[i] \in Int
  <2> DEFINE S == {i \in 0 .. n : acc[i] \in Int}
  <2>1. 0 \in S /\ \A i \in 1 .. n : i - 1 \in S => i \in S
    BY <1>1, <1>9, <1>10, ConstantsAssumption DEF Plus
  <2> HIDE DEF S
  <2>2. \A i \in 0 .. n : i \in S
    BY <1>1, <2>1, UpTo
  <2>3. QED
    BY <2>2 DEF S
<1>13. acc \in [0 .. n -> Int]
  BY <1>12 DEF acc
<1>14. \A i \in 1 .. n : acc[i] = acc[i - 1] + s[i]
  BY <1>1, <1>10, <1>12, ConstantsAssumption DEF Plus
<1>15. QED
  BY <1>9, <1>11, <1>13, <1>14 DEF n

\* Largest keeps its first number until a later one is greater.
LEMMA LargestUnfolds ==
    ASSUME NEW s \in Seq(Int), s # <<>>, NEW none
    PROVE  \E acc \in [0 .. Len(s) -> Int] :
              /\ acc[0] = s[1] /\ Largest(s, none) = acc[Len(s)]
              /\ \A i \in 1 .. Len(s) :
                    acc[i] = IF s[i] > acc[i - 1] THEN s[i] ELSE acc[i - 1]
<1> DEFINE n == Len(s)
           F == [p \in (1 .. n) \X Int |-> IF s[p[1]] > p[2] THEN s[p[1]] ELSE p[2]]
           Later(best, x) == IF Greater(x, best) THEN x ELSE best
           Eq(g) == g = [t \in SUBSET (DOMAIN s) |->
                          IF t = {} THEN s[1] ELSE Later(g[t \ {Max(t)}], s[Max(t)])]
           iter == CHOOSE g : Eq(g)
<1>1. /\ n \in Nat /\ DOMAIN s = 1 .. n /\ 1 \in 1 .. n
      /\ \A i \in 1 .. n : s[i] \in Int
  OBVIOUS
<1>2. F \in [(1 .. n) \X Int -> Int]
  BY <1>1
<1>3. \A i \in 1 .. n, v \in Int : F[i, v] = IF s[i] > v THEN s[i] ELSE v
  BY <1>1
<1>4. Largest(s, none) = iter[1 .. n]
  BY <1>1 DEF Largest, FoldLeft, MapThenFoldSet
<1> HIDE DEF n, F
<1>5. PICK g : IsFold(g, n, Int, s[1], F)
  <2>1. s[1] \in Int
    BY <1>1
  <2>2. QED
    BY <1>1, <1>2, <2>1, FoldExists
<1>6. Eq(g)
  <2>1. ASSUME NEW t \in SUBSET (1 .. n), t # {}
        PROVE  F[Max(t), g[t \ {Max(t)}]] = Later(g[t \ {Max(t)}], s[Max(t)])
    <3>1. Max(t) \in 1 .. n /\ t \ {Max(t)} \in SUBSET (1 .. n)
      BY <1>1, <2>1, MaxIn
    <3>2. g[t \ {Max(t)}] \in Int
      BY <1>5, <3>1 DEF IsFold
    <3>3. QED
      BY <1>1, <1>3, <3>1, <3>2, ConstantsAssumption DEF Greater
  <2>2. g = [t \in SUBSET (1 .. n) |-> g[t]]
    BY <1>5 DEF IsFold
  <2>3. \A t \in SUBSET (1 .. n) :
           g[t] = IF t = {} THEN s[1] ELSE Later(g[t \ {Max(t)}], s[Max(t)])
    BY <1>5, <2>1 DEF IsFold
  <2>4. QED
    BY <1>1, <2>2, <2>3, Zenon
<1>7. Eq(iter)
  BY <1>6
<1> HIDE DEF iter
<1>8. \A t \in SUBSET (1 .. n) :
         iter[t] = IF t = {} THEN s[1] ELSE Later(iter[t \ {Max(t)}], s[Max(t)])
  BY <1>1, <1>7
<1> DEFINE acc == [i \in 0 .. n |-> iter[1 .. i]]
<1>9. acc[0] = s[1]
  <2>1. 0 \in 0 .. n
    BY <1>1
  <2>2. 1 .. 0 = {} /\ 1 .. 0 \in SUBSET (1 .. n)
    BY <1>1, <2>1, PrefixSets, Zenon
  <2>3. iter[1 .. 0] = s[1]
    BY <1>8, <2>2, Zenon
  <2>4. QED
    BY <2>1, <2>3, Zenon
<1>10. ASSUME NEW i \in 1 .. n  PROVE acc[i] = Later(acc[i - 1], s[i])
  <2>1. i \in 0 .. n /\ i - 1 \in 0 .. n
    BY <1>1
  <2>2. iter[1 .. i] = Later(iter[1 .. (i - 1)], s[i])
    <3>1. /\ 1 .. i \in SUBSET (1 .. n) /\ 1 .. i # {}
          /\ Max(1 .. i) = i /\ (1 .. i) \ {i} = 1 .. (i - 1)
      BY <1>1, <2>1, PrefixSets, Zenon
    <3>2. QED
      BY <1>8, <3>1, Zenon
  <2>3. QED
    BY <2>1, <2>2
<1>11. Largest(s, none) = acc[n]
  BY <1>1, <1>4
<1> HIDE DEF acc
<1>12. \A i \in 0 .. n : acc[i] \in Int
  <2> DEFINE S == {i \in 0 .. n : acc[i] \in Int}
  <2>1. 0 \in S /\ \A i \in 1 .. n : i - 1 \in S => i \in S
    BY <1>1, <1>9, <1>10, ConstantsAssumption DEF Greater
  <2> HIDE DEF S
  <2>2. \A i \in 0 .. n : i \in S
    BY <1>1, <2>1, UpTo
  <2>3. QED
    BY <2>2 DEF S
<1>13. acc \in [0 .. n -> Int]
  BY <1>12 DEF acc
<1>14. \A i \in 1 .. n : acc[i] = IF s[i] > acc[i - 1] THEN s[i] ELSE acc[i - 1]
  BY <1>1, <1>10, <1>12, ConstantsAssumption DEF Greater
<1>15. QED
  BY <1>9, <1>11, <1>13, <1>14 DEF n

\* What the imbalance of a point and its tolerance are computed from.
Measured(points) == \A p \in Range(points) : PointImbalance(p) \in Nat /\ PointLimit(p) \in Int
Worst == [imbalance : Int, limit : Int]

LEMMA ImbalanceUnfolds ==
    ASSUME NEW P, NEW s \in Seq(P), Measured(s)
    PROVE  \E acc \in [0 .. Len(s) -> Worst] :
              /\ acc[0] = [imbalance |-> 0, limit |-> CurrentAtol]
              /\ CurrentImbalance(s) = acc[Len(s)]
              /\ \A i \in 1 .. Len(s) :
                    acc[i] = IF PointImbalance(s[i]) > acc[i - 1].imbalance
                               THEN [imbalance |-> PointImbalance(s[i]), limit |-> PointLimit(s[i])]
                               ELSE acc[i - 1]
<1> DEFINE n == Len(s)
           none == [imbalance |-> 0, limit |-> CurrentAtol]
           At(p) == [imbalance |-> PointImbalance(p), limit |-> PointLimit(p)]
           F == [p \in (1 .. n) \X Worst |-> IF PointImbalance(s[p[1]]) > p[2].imbalance
                                              THEN At(s[p[1]]) ELSE p[2]]
           Later(worst, p) == IF Greater(PointImbalance(p), worst.imbalance)
                                THEN At(p) ELSE worst
           Eq(g) == g = [t \in SUBSET (DOMAIN s) |->
                          IF t = {} THEN none ELSE Later(g[t \ {Max(t)}], s[Max(t)])]
           iter == CHOOSE g : Eq(g)
<1>1. /\ n \in Nat /\ DOMAIN s = 1 .. n
      /\ \A i \in 1 .. n : At(s[i]) \in Worst /\ PointImbalance(s[i]) \in Int
  BY DEF Measured, Range, Worst
<1>2. F \in [(1 .. n) \X Worst -> Worst]
  BY <1>1
<1>3. \A i \in 1 .. n, v \in Worst : F[i, v] = IF PointImbalance(s[i]) > v.imbalance
                                            THEN At(s[i]) ELSE v
  BY <1>1
<1>4. CurrentImbalance(s) = iter[1 .. n]
  BY <1>1 DEF CurrentImbalance, FoldLeft, MapThenFoldSet
<1> HIDE DEF n, F
<1>5. PICK g : IsFold(g, n, Worst, none, F)
  <2>1. none \in Worst
    BY DEF Worst, CurrentAtol
  <2>2. QED
    BY <1>1, <1>2, <2>1, FoldExists
<1>6. Eq(g)
  <2>1. ASSUME NEW t \in SUBSET (1 .. n), t # {}
        PROVE  F[Max(t), g[t \ {Max(t)}]] = Later(g[t \ {Max(t)}], s[Max(t)])
    <3>1. Max(t) \in 1 .. n /\ t \ {Max(t)} \in SUBSET (1 .. n)
      BY <1>1, <2>1, MaxIn
    <3>2. g[t \ {Max(t)}] \in Worst
      BY <1>5, <3>1 DEF IsFold
    <3>3. QED
      BY <1>1, <1>3, <3>1, <3>2, ConstantsAssumption DEF Greater, Worst
  <2>2. g = [t \in SUBSET (1 .. n) |-> g[t]]
    BY <1>5 DEF IsFold
  <2>3. \A t \in SUBSET (1 .. n) :
           g[t] = IF t = {} THEN none ELSE Later(g[t \ {Max(t)}], s[Max(t)])
    BY <1>5, <2>1 DEF IsFold
  <2>4. QED
    BY <1>1, <2>2, <2>3, Zenon
<1>7. Eq(iter)
  BY <1>6
<1> HIDE DEF iter
<1>8. \A t \in SUBSET (1 .. n) :
         iter[t] = IF t = {} THEN none ELSE Later(iter[t \ {Max(t)}], s[Max(t)])
  BY <1>1, <1>7
<1> DEFINE acc == [i \in 0 .. n |-> iter[1 .. i]]
<1>9. acc[0] = none
  <2>1. 0 \in 0 .. n
    BY <1>1
  <2>2. 1 .. 0 = {} /\ 1 .. 0 \in SUBSET (1 .. n)
    BY <1>1, <2>1, PrefixSets, Zenon
  <2>3. iter[1 .. 0] = none
    BY <1>8, <2>2, Zenon
  <2>4. QED
    BY <2>1, <2>3, Zenon
<1>10. ASSUME NEW i \in 1 .. n  PROVE acc[i] = Later(acc[i - 1], s[i])
  <2>1. i \in 0 .. n /\ i - 1 \in 0 .. n
    BY <1>1
  <2>2. iter[1 .. i] = Later(iter[1 .. (i - 1)], s[i])
    <3>1. /\ 1 .. i \in SUBSET (1 .. n) /\ 1 .. i # {}
          /\ Max(1 .. i) = i /\ (1 .. i) \ {i} = 1 .. (i - 1)
      BY <1>1, <2>1, PrefixSets, Zenon
    <3>2. QED
      BY <1>8, <3>1, Zenon
  <2>3. QED
    BY <2>1, <2>2
<1>11. CurrentImbalance(s) = acc[n]
  BY <1>1, <1>4
<1> HIDE DEF acc
<1>12. \A i \in 0 .. n : acc[i] \in Worst
  <2> DEFINE S == {i \in 0 .. n : acc[i] \in Worst}
  <2>1. 0 \in S /\ \A i \in 1 .. n : i - 1 \in S => i \in S
    <3>1. none \in Worst /\ 0 \in 0 .. n
      BY <1>1 DEF Worst, CurrentAtol
    <3> HIDE DEF none, At
    <3>2. \A i \in 1 .. n : acc[i] \in {At(s[i]), acc[i - 1]} /\ i \in 0 .. n
      BY <1>1, <1>10
    <3>3. QED
      BY <1>1, <1>9, <3>1, <3>2
  <2> HIDE DEF S
  <2>2. \A i \in 0 .. n : i \in S
    BY <1>1, <2>1, UpTo
  <2>3. QED
    BY <2>2 DEF S
<1>13. acc \in [0 .. n -> Worst]
  BY <1>12 DEF acc
<1>14. \A i \in 1 .. n : acc[i] = IF PointImbalance(s[i]) > acc[i - 1].imbalance
                            THEN At(s[i]) ELSE acc[i - 1]
  BY <1>1, <1>10, <1>12, ConstantsAssumption DEF Greater, Worst
<1>15. QED
  BY <1>9, <1>11, <1>13, <1>14 DEF n

\* Largest is the largest member.
LEMMA LargestIs ==
    ASSUME NEW s \in Seq(Int), s # <<>>, NEW none
    PROVE  /\ Largest(s, none) \in Range(s)
           /\ \A i \in DOMAIN s : s[i] <= Largest(s, none)
<1> DEFINE n == Len(s)
<1>1. /\ n \in Nat /\ DOMAIN s = 1 .. n /\ 1 \in 1 .. n
      /\ \A i \in 1 .. n : s[i] \in Int /\ s[i] \in Range(s)
  BY DEF Range
<1>2. PICK acc \in [0 .. n -> Int] :
         /\ acc[0] = s[1] /\ Largest(s, none) = acc[n]
         /\ \A i \in 1 .. n : acc[i] = IF s[i] > acc[i - 1] THEN s[i] ELSE acc[i - 1]
  BY LargestUnfolds
<1> HIDE DEF n
<1> DEFINE S == {k \in 0 .. n : acc[k] \in Range(s) /\ \A j \in 1 .. k : s[j] <= acc[k]}
<1>3. 0 \in S
  BY <1>1, <1>2
<1>4. ASSUME NEW i \in 1 .. n, i - 1 \in S  PROVE i \in S
  <2>1. /\ i - 1 \in 0 .. n /\ i \in 0 .. n /\ acc[i - 1] \in Int /\ s[i] \in Int
        /\ acc[i] = IF s[i] > acc[i - 1] THEN s[i] ELSE acc[i - 1]
    BY <1>1, <1>2
  <2>2. acc[i] \in Range(s) /\ s[i] <= acc[i] /\ acc[i - 1] <= acc[i]
    BY <1>1, <1>4, <2>1
  <2>3. ASSUME NEW j \in 1 .. i  PROVE s[j] <= acc[i]
    <3>1. CASE j = i
      BY <2>2, <3>1
    <3>2. CASE j # i
      <4>1. j \in 1 .. (i - 1) /\ s[j] \in Int
        BY <1>1, <3>2
      <4>2. s[j] <= acc[i - 1]
        BY <1>4, <4>1
      <4>3. QED
        BY <2>1, <2>2, <4>1, <4>2
    <3>3. QED
      BY <3>1, <3>2
  <2>4. QED
    BY <2>1, <2>2, <2>3
<1> HIDE DEF S
<1>5. n \in S
  <2>1. \A k \in 0 .. n : k \in S
    BY <1>1, <1>3, <1>4, UpTo
  <2>2. QED
    BY <1>1, <2>1
<1>6. QED
  BY <1>1, <1>2, <1>5 DEF S

\* CurrentImbalance is that of a point with the largest imbalance, if there is any.
LEMMA ImbalanceIs ==
    ASSUME NEW P, NEW s \in Seq(P), Measured(s)
    PROVE  \/ /\ CurrentImbalance(s) = [imbalance |-> 0, limit |-> CurrentAtol]
              /\ \A p \in Range(s) : PointImbalance(p) = 0
           \/ \E p \in Range(s) :
                 /\ CurrentImbalance(s) = [imbalance |-> PointImbalance(p), limit |-> PointLimit(p)]
                 /\ \A o \in Range(s) : PointImbalance(o) <= PointImbalance(p)
<1> DEFINE n == Len(s)
           none == [imbalance |-> 0, limit |-> CurrentAtol]
           At(p) == [imbalance |-> PointImbalance(p), limit |-> PointLimit(p)]
           Im(j) == PointImbalance(s[j])
<1>1. /\ n \in Nat /\ DOMAIN s = 1 .. n
      /\ \A i \in 1 .. n : Im(i) \in Nat
  BY DEF Measured, Range
<1>2. PICK acc \in [0 .. n -> Worst] :
         /\ acc[0] = none /\ CurrentImbalance(s) = acc[n]
         /\ \A i \in 1 .. n : acc[i] = IF Im(i) > acc[i - 1].imbalance THEN At(s[i]) ELSE acc[i - 1]
  BY ImbalanceUnfolds
<1>3. none.imbalance = 0 /\ \A j : At(s[j]).imbalance = Im(j)
  OBVIOUS
<1> HIDE DEF n, none, At, Im
<1> DEFINE Still(k) == acc[k] = none /\ \A j \in 1 .. k : Im(j) = 0
           Worse(k) == \E j \in 1 .. k : acc[k] = At(s[j]) /\ \A m \in 1 .. k : Im(m) <= Im(j)
           S == {k \in 0 .. n : Still(k) \/ Worse(k)}
<1>4. 0 \in S
  BY <1>1, <1>2
<1>5. ASSUME NEW i \in 1 .. n, i - 1 \in S  PROVE i \in S
  <2>1. /\ i - 1 \in 0 .. n /\ i \in 0 .. n /\ i \in 1 .. i /\ Im(i) \in Nat
        /\ \A j \in 1 .. i : j \in 1 .. n /\ (j # i => j \in 1 .. (i - 1))
        /\ \A j \in 1 .. (i - 1) : j \in 1 .. i
    BY <1>1
  <2>2. acc[i] = IF Im(i) > acc[i - 1].imbalance THEN At(s[i]) ELSE acc[i - 1]
    BY <1>2
  <2>3. CASE Still(i - 1)
    <3>1. CASE Im(i) > 0
      <4>1. acc[i] = At(s[i])
        BY <1>3, <2>2, <2>3, <3>1
      <4>2. \A m \in 1 .. i : Im(m) <= Im(i)
        BY <1>1, <2>1, <2>3, <3>1
      <4>3. QED
        BY <2>1, <4>1, <4>2
    <3>2. CASE Im(i) = 0
      <4>1. acc[i] = none
        BY <1>3, <2>2, <2>3, <3>2
      <4>2. QED
        BY <2>1, <2>3, <3>2, <4>1
    <3>3. QED
      BY <2>1, <3>1, <3>2
  <2>4. CASE Worse(i - 1)
    <3>1. PICK j \in 1 .. (i - 1) :
             acc[i - 1] = At(s[j]) /\ \A m \in 1 .. (i - 1) : Im(m) <= Im(j)
      BY <2>4
    <3>2. acc[i - 1].imbalance = Im(j) /\ Im(j) \in Nat
      BY <1>1, <1>3, <2>1, <3>1
    <3>3. CASE Im(i) > Im(j)
      <4>1. acc[i] = At(s[i])
        BY <2>2, <3>2, <3>3
      <4>2. \A m \in 1 .. i : Im(m) <= Im(i)
        BY <1>1, <2>1, <3>1, <3>2, <3>3
      <4>3. QED
        BY <2>1, <4>1, <4>2
    <3>4. CASE Im(i) <= Im(j)
      <4>1. acc[i] = At(s[j])
        BY <2>1, <2>2, <3>1, <3>2, <3>4
      <4>2. \A m \in 1 .. i : Im(m) <= Im(j)
        BY <2>1, <3>1, <3>4
      <4>3. QED
        BY <2>1, <4>1, <4>2
    <3>5. QED
      BY <2>1, <3>2, <3>3, <3>4
  <2>5. QED
    BY <1>5, <2>3, <2>4
<1> HIDE DEF S
<1>6. n \in S
  <2>1. \A k \in 0 .. n : k \in S
    BY <1>1, <1>4, <1>5, UpTo
  <2>2. QED
    BY <1>1, <2>1
<1>7. Still(n) \/ Worse(n)
  BY <1>6 DEF S
<1>8. \A o : o \in Range(s) <=> \E j \in 1 .. n : o = s[j]
  BY <1>1, Zenon DEF Range
<1>9. CASE Still(n)
  <2>1. \A o \in Range(s) : PointImbalance(o) = 0
    BY <1>8, <1>9 DEF Im
  <2>2. QED
    BY <1>2, <1>9, <2>1 DEF none
<1>10. CASE Worse(n)
  <2>1. PICK j \in 1 .. n : acc[n] = At(s[j]) /\ \A m \in 1 .. n : Im(m) <= Im(j)
    BY <1>10
  <2>2. \A o \in Range(s) : PointImbalance(o) <= PointImbalance(s[j])
    BY <1>8, <2>1 DEF Im
  <2>3. s[j] \in Range(s)
    BY <1>8
  <2>4. QED
    BY <1>2, <2>1, <2>2, <2>3 DEF At
<1>11. QED
  BY <1>7, <1>9, <1>10

\* What a change of unit multiplies by.
Factors == {1, 10000}

\* A change of unit multiplies a sum.
LEMMA ScaledAdds ==
    ASSUME NEW factor \in Factors
    PROVE  /\ Scaled(0, factor) = 0
           /\ \A x, y \in Int : Scaled(x + y, factor) = Scaled(x, factor) + Scaled(y, factor)
<1>1. CASE factor = 1
  BY <1>1, ConstantsAssumption DEF Scaled
<1>2. CASE factor = 10000
  BY <1>2, ConstantsAssumption DEF Scaled
<1>3. QED
  BY <1>1, <1>2 DEF Factors

LEMMA TotalScales ==
    ASSUME NEW s \in Seq(Int), NEW t \in Seq(Int), NEW factor \in Factors
    PROVE  /\ Total(s) \in Int
           /\ Len(t) = Len(s) /\ (\A i \in DOMAIN s : t[i] = Scaled(s[i], factor)) =>
                 Total(t) = Scaled(Total(s), factor)
<1> DEFINE n == Len(s)
           m == Len(t)
           Sums(u, k) == \E acc \in [0 .. k -> Int] :
              acc[0] = 0 /\ Total(u) = acc[k] /\ \A i \in 1 .. k : acc[i] = acc[i - 1] + u[i]
<1>0. \A u \in Seq(Int) : Sums(u, Len(u))
  BY TotalIs
<1> HIDE DEF Sums
<1>1. PICK a \in [0 .. n -> Int] :
         a[0] = 0 /\ Total(s) = a[n] /\ \A i \in 1 .. n : a[i] = a[i - 1] + s[i]
  <2>1. Sums(s, n)
    BY <1>0
  <2>2. QED
    BY <2>1, Zenon DEF Sums
<1>2. PICK b \in [0 .. m -> Int] :
         b[0] = 0 /\ Total(t) = b[m] /\ \A i \in 1 .. m : b[i] = b[i - 1] + t[i]
  <2>1. Sums(t, m)
    BY <1>0
  <2>2. QED
    BY <2>1, Zenon DEF Sums
<1>3. n \in Nat /\ DOMAIN s = 1 .. n /\ n \in 0 .. n /\ \A i \in 1 .. n : s[i] \in Int
  OBVIOUS
<1> HIDE DEF n, m
<1>4. ASSUME m = n, \A i \in 1 .. n : t[i] = Scaled(s[i], factor)
      PROVE  Total(t) = Scaled(Total(s), factor)
  <2> DEFINE S == {k \in 0 .. n : b[k] = Scaled(a[k], factor)}
  <2>1. 0 \in S
    <3>1. 0 \in 0 .. n /\ a[0] = 0 /\ b[0] = 0
      BY <1>1, <1>2, <1>3
    <3>2. Scaled(0, factor) = 0
      BY ScaledAdds
    <3>3. QED
      BY <3>1, <3>2
  <2>2. ASSUME NEW i \in 1 .. n, i - 1 \in S  PROVE i \in S
    <3>1. /\ i - 1 \in 0 .. n /\ i \in 0 .. n /\ a[i - 1] \in Int /\ s[i] \in Int
          /\ a[i] = a[i - 1] + s[i]
      BY <1>1, <1>3
    <3>2. b[i] = b[i - 1] + Scaled(s[i], factor)
      BY <1>2, <1>4, <2>2
    <3>3. b[i - 1] = Scaled(a[i - 1], factor)
      BY <2>2
    <3>4. b[i] = Scaled(a[i], factor)
      BY <3>1, <3>2, <3>3, ScaledAdds
    <3>5. QED
      BY <3>1, <3>4
  <2> HIDE DEF S
  <2>3. \A k \in 0 .. n : k \in S
    BY <1>3, <2>1, <2>2, UpTo, Zenon
  <2>4. b[n] = Scaled(a[n], factor)
    BY <1>3, <2>3 DEF S
  <2>5. QED
    BY <1>1, <1>2, <1>4, <2>4
<1>5. QED
  BY <1>1, <1>3, <1>4 DEF n, m

\* The members of a concatenation.
LEMMA ConcatenationHas ==
    ASSUME NEW T, NEW s \in Seq(T), NEW t \in Seq(T)
    PROVE  /\ s \o t \in Seq(T)
           /\ \A x : x \in Range(s \o t) <=> x \in Range(s) \/ x \in Range(t)
<1> DEFINE u == s \o t
<1>1. /\ u \in Seq(T) /\ DOMAIN u = 1 .. Len(s) + Len(t)
      /\ Len(s) \in Nat /\ Len(t) \in Nat
      /\ DOMAIN s = 1 .. Len(s) /\ DOMAIN t = 1 .. Len(t)
      /\ \A i \in 1 .. Len(s) : u[i] = s[i]
      /\ \A i \in 1 .. Len(t) : u[Len(s) + i] = t[i]
  OBVIOUS
<1> HIDE DEF u
<1>2. /\ \A x : x \in Range(u) <=> \E i \in 1 .. Len(s) + Len(t) : x = u[i]
      /\ \A x : x \in Range(s) <=> \E i \in 1 .. Len(s) : x = s[i]
      /\ \A x : x \in Range(t) <=> \E i \in 1 .. Len(t) : x = t[i]
  <2>1. \A q, d : DOMAIN q = d => \A x : x \in Range(q) <=> \E i \in d : x = q[i]
    BY Zenon DEF Range
  <2>2. DOMAIN u = 1 .. Len(s) + Len(t) /\ DOMAIN s = 1 .. Len(s) /\ DOMAIN t = 1 .. Len(t)
    BY <1>1
  <2>3. QED
    BY <2>1, <2>2
<1>3. ASSUME NEW x \in Range(u)  PROVE x \in Range(s) \/ x \in Range(t)
  <2>1. PICK i \in 1 .. Len(s) + Len(t) : x = u[i]
    BY <1>2
  <2>2. CASE i <= Len(s)
    <3>1. i \in 1 .. Len(s)
      BY <1>1, <2>2
    <3>2. x = s[i]
      BY <1>1, <2>1, <3>1
    <3>3. QED
      BY <1>1, <1>2, <3>1, <3>2
  <2>3. CASE i > Len(s)
    <3>1. i - Len(s) \in 1 .. Len(t) /\ Len(s) + (i - Len(s)) = i
      BY <1>1, <2>3
    <3>2. x = t[i - Len(s)]
      BY <1>1, <2>1, <3>1
    <3>3. QED
      BY <1>1, <1>2, <3>1, <3>2
  <2>4. QED
    BY <1>1, <2>2, <2>3
<1>4. ASSUME NEW x, x \in Range(s) \/ x \in Range(t)  PROVE x \in Range(u)
  <2>1. CASE x \in Range(s)
    <3>1. PICK i \in 1 .. Len(s) : x = s[i]
      BY <1>2, <2>1
    <3>2. x = u[i] /\ i \in DOMAIN u
      BY <1>1, <3>1
    <3>3. QED
      BY <1>2, <3>2
  <2>2. CASE x \in Range(t)
    <3>1. PICK i \in 1 .. Len(t) : x = t[i]
      BY <1>2, <2>2
    <3>2. x = u[Len(s) + i] /\ Len(s) + i \in DOMAIN u
      BY <1>1, <3>1
    <3>3. QED
      BY <1>2, <3>2
  <2>3. QED
    BY <1>4, <2>1, <2>2
<1>5. QED
  BY <1>1, <1>3, <1>4 DEF u

\* A flattened sequence has the members of its parts.
LEMMA FlattenHas ==
    ASSUME NEW seqs \in Seq(Seq(Int)), seqs # <<>>
    PROVE  /\ FlattenSeq(seqs) \in Seq(Int)
           /\ \A x : x \in Range(FlattenSeq(seqs)) <=>
                     \E i \in DOMAIN seqs : x \in Range(seqs[i])
<1> DEFINE n == Len(seqs)
           Eq(g, k) == g = [i \in 1 .. k |-> IF i = 1 THEN seqs[i] ELSE g[i - 1] \o seqs[i]]
           flatten == CHOOSE g : Eq(g, n)
<1>1. /\ n \in Nat /\ n # 0 /\ DOMAIN seqs = 1 .. n
      /\ \A i \in 1 .. n : seqs[i] \in Seq(Int)
  OBVIOUS
<1>2. FlattenSeq(seqs) = flatten[n]
  BY <1>1 DEF FlattenSeq
<1> HIDE DEF n
<1>3. \E g : Eq(g, n)
  <2> DEFINE S == {k \in 0 .. n : \E g : Eq(g, k)}
  <2>1. 0 \in S
    <3>1. Eq([i \in 1 .. 0 |-> 0], 0)
      OBVIOUS
    <3>2. 0 \in 0 .. n
      BY <1>1
    <3> HIDE DEF Eq
    <3>3. QED
      BY <3>1, <3>2
  <2>2. ASSUME NEW k \in 1 .. n, k - 1 \in S  PROVE k \in S
    <3>1. PICK g : Eq(g, k - 1)
      BY <2>2
    <3>2. k \in 0 .. n /\ \A i \in 1 .. k : i - 1 \in 1 .. (k - 1) \/ i = 1
      BY <1>1
    <3> DEFINE Next1(i) == IF i = 1 THEN seqs[i] ELSE g[i - 1] \o seqs[i]
               h == [i \in 1 .. k |-> Next1(i)]
    <3>3. \A i \in 1 .. (k - 1) : g[i] = Next1(i)
      BY <3>1, Zenon
    <3>4. \A i \in 1 .. (k - 1) : h[i] = g[i]
      <4> HIDE DEF Next1
      <4>1. \A i \in 1 .. (k - 1) : i \in 1 .. k
        OBVIOUS
      <4>2. QED
        BY <3>3, <4>1
    <3>5. \A i \in 1 .. k : Next1(i) = IF i = 1 THEN seqs[i] ELSE h[i - 1] \o seqs[i]
      <4> HIDE DEF h
      <4> QED
        BY <3>2, <3>4
    <3>6. Eq(h, k)
      BY <3>5, Zenon
    <3>7. QED
      BY <3>2, <3>6
  <2> HIDE DEF S
  <2>3. \A k \in 0 .. n : k \in S
    BY <1>1, <2>1, <2>2, UpTo
  <2>4. n \in S
    BY <1>1, <2>3
  <2>5. QED
    BY <2>4 DEF S
<1>4. Eq(flatten, n)
  BY <1>3
<1> HIDE DEF flatten
<1>5. \A i \in 1 .. n : flatten[i] = IF i = 1 THEN seqs[i] ELSE flatten[i - 1] \o seqs[i]
  BY <1>4
<1> DEFINE Flat(k) == /\ flatten[k] \in Seq(Int)
                      /\ \A x : x \in Range(flatten[k]) <=> \E i \in 1 .. k : x \in Range(seqs[i])
           S == {k \in 0 .. n : k = 0 \/ Flat(k)}
<1>6. 0 \in S
  BY <1>1
<1>7. ASSUME NEW k \in 1 .. n, k - 1 \in S  PROVE k \in S
  <2>1. k \in 0 .. n /\ seqs[k] \in Seq(Int)
    BY <1>1
  <2>2. CASE k = 1
    <3>1. flatten[k] = seqs[k] /\ \A i \in 1 .. k : i = k /\ k \in 1 .. k
      BY <1>5, <2>2
    <3>2. QED
      BY <2>1, <2>2, <3>1
  <2>3. CASE k # 1
    <3>1. Flat(k - 1)
      BY <1>1, <1>7, <2>3
    <3>2. flatten[k] = flatten[k - 1] \o seqs[k]
      BY <1>5, <2>3
    <3>3. flatten[k] \in Seq(Int)
      BY <2>1, <3>1, <3>2, ConcatenationHas
    <3>4. \A x : x \in Range(flatten[k]) <=>
                 x \in Range(flatten[k - 1]) \/ x \in Range(seqs[k])
      BY <2>1, <3>1, <3>2, ConcatenationHas
    <3>5. /\ \A i \in 1 .. k : i \in 1 .. (k - 1) \/ i = k
          /\ \A i \in 1 .. (k - 1) : i \in 1 .. k
          /\ k \in 1 .. k
      BY <1>1
    <3>6. \A x : x \in Range(flatten[k]) <=> \E i \in 1 .. k : x \in Range(seqs[i])
      BY <3>1, <3>4, <3>5
    <3>7. QED
      BY <2>1, <3>3, <3>6
  <2>4. QED
    BY <2>2, <2>3
<1> HIDE DEF S
<1>8. \A k \in 0 .. n : k \in S
  BY <1>1, <1>6, <1>7, UpTo
<1>9. n \in S
  BY <1>1, <1>8
<1>10. Flat(n)
  BY <1>1, <1>9 DEF S
<1>11. QED
  BY <1>1, <1>2, <1>10

\* A sequence in which neighbours are in order is in order.
LEMMA InOrder ==
    ASSUME NEW n \in Nat, NEW b, \A i \in 1 .. n : b[i] \in Int,
           \A i \in 1 .. n - 1 : b[i] <= b[i + 1]
    PROVE  \A i, j \in 1 .. n : i < j => b[i] <= b[j]
<1> SUFFICES ASSUME NEW i \in 1 .. n  PROVE \A j \in 1 .. n : i < j => b[i] <= b[j]
  OBVIOUS
<1> DEFINE S == {k \in 0 .. n : i <= k => b[i] <= b[k]}
<1>1. 0 \in S
  OBVIOUS
<1>2. ASSUME NEW k \in 1 .. n, k - 1 \in S  PROVE k \in S
  <2>1. CASE i = k
    BY <2>1
  <2>2. CASE i > k
    BY <2>2
  <2>3. CASE i < k
    <3>1. k - 1 \in 1 .. n - 1 /\ (k - 1) + 1 = k /\ k - 1 \in 1 .. n
      BY <2>3
    <3>2. b[k - 1] <= b[k] /\ b[k - 1] \in Int /\ b[k] \in Int /\ b[i] \in Int
      BY <3>1
    <3>3. b[i] <= b[k - 1]
      BY <1>2, <2>3
    <3>4. b[i] <= b[k]
      BY <3>2, <3>3
    <3>5. QED
      BY <3>4
  <2>4. QED
    BY <2>1, <2>2, <2>3
<1> HIDE DEF S
<1>3. \A k \in 0 .. n : k \in S
  BY <1>1, <1>2, UpTo
<1>4. QED
  BY <1>3 DEF S

\* Largest(Magnitudes(...)) is the magnitude of a member, and of none a larger one.
LEMMA LargestMagnitude ==
    ASSUME NEW s \in Seq(Int), s # <<>>
    PROVE  /\ Largest(Magnitudes(s), 0) \in Nat
           /\ \E i \in DOMAIN s : Largest(Magnitudes(s), 0) = Magnitude(s[i])
           /\ \A i \in DOMAIN s : Magnitude(s[i]) <= Largest(Magnitudes(s), 0)
<1> DEFINE m == Magnitudes(s)
<1>1. \A x \in Int : Magnitude(x) \in Nat
  BY ConstantsAssumption DEF Magnitude
<1>2. /\ m \in Seq(Int) /\ m # <<>> /\ DOMAIN m = DOMAIN s
      /\ \A i \in DOMAIN s : m[i] = Magnitude(s[i]) /\ m[i] \in Nat
  <2>1. /\ Len(s) \in Nat /\ Len(s) # 0 /\ DOMAIN s = 1 .. Len(s)
        /\ \A i \in 1 .. Len(s) : Magnitude(s[i]) \in Nat
    <3>1. Len(s) \in Nat /\ Len(s) # 0 /\ DOMAIN s = 1 .. Len(s)
      OBVIOUS
    <3>2. \A i \in 1 .. Len(s) : s[i] \in Int
      OBVIOUS
    <3>3. QED
      BY <1>1, <3>1, <3>2
  <2>2. m = [i \in 1 .. Len(s) |-> Magnitude(s[i])]
    BY <2>1 DEF Magnitudes
  <2> HIDE DEF m
  <2>3. m \in Seq(Int) /\ Len(m) = Len(s) /\ DOMAIN m = DOMAIN s
    BY <2>1, <2>2
  <2>4. QED
    BY <2>1, <2>2, <2>3
<1> HIDE DEF m
<1>3. /\ Largest(m, 0) \in Range(m)
      /\ \A i \in DOMAIN m : m[i] <= Largest(m, 0)
  BY <1>2, LargestIs
<1>4. PICK i \in DOMAIN m : Largest(m, 0) = m[i]
  BY <1>3 DEF Range
<1>5. QED
  BY <1>2, <1>3, <1>4 DEF m

\* A change of unit multiplies a magnitude.
LEMMA ScaledMagnitude ==
    ASSUME NEW factor \in Factors, NEW x \in Int
    PROVE  /\ Scaled(x, factor) \in Int /\ Magnitude(x) \in Nat
           /\ Magnitude(Scaled(x, factor)) = Magnitude(x) * factor
           /\ Magnitude(x) * factor \in Nat
<1>1. CASE factor = 1
  BY <1>1, ConstantsAssumption DEF Scaled, Magnitude
<1>2. CASE factor = 10000
  BY <1>2, ConstantsAssumption DEF Scaled, Magnitude
<1>3. QED
  BY <1>1, <1>2 DEF Factors

----------------------------------------------------------------------------
(* The validator *)

\* classify_failures checks the result as validate does, but for the number of points.
LEMMA FewerChecks ==
    ASSUME NEW r, NEW s, NEW expected
    PROVE  FailedChecks(r, s, NaN) \subseteq FailedChecks(r, s, expected)
  BY DEF FailedChecks

\* What it means that no check fails.
LEMMA PassedChecks ==
    ASSUME NEW r, NEW s, NEW expected, FailedChecks(r, s, expected) = {}
    PROVE  /\ r.status = "completed" /\ AllValuesFinite(r.table) /\ r.table.version
           /\ r.table.points # <<>> /\ \A p \in Range(r.table.points) : p.converged
           /\ expected # NaN => Len(r.table.points) = expected
           /\ MissingObservables(s, r.table) = {}
           /\ "electron_density" \in DOMAIN r.table.fields =>
                 \A v \in Range(r.table.fields["electron_density"].values) : AtMost(0, v)
  BY DEF FailedChecks

\* A result that passes every check has no kind of failure.
LEMMA PassedIsUnclassified ==
    ASSUME NEW r, NEW s, NEW expected, FailedChecks(r, s, expected) = {}
    PROVE  Classify(r, s) = <<>>
<1>1. Causes(r, s) = <<>>
  BY FewerChecks DEF Causes
<1>2. Diverged(r) = <<>>
  BY PassedChecks DEF Diverged
<1>3. r.status = "completed" /\ AllValuesFinite(r.table)
  BY PassedChecks
<1>4. QED
  BY <1>1, <1>2, <1>3 DEF Classify

\* The kinds of failure a classification may find.
Kinds == {"execution", "timeout", "malformed_output", "non_convergence", "nonfinite_result",
          "conservation", "physical_sanity"}
Statuses == {"completed", "execution_failed", "timed_out", "malformed_result"}

\* A classification is a sequence of kinds, and one of a run that did not complete has one.
LEMMA ClassificationHasKinds ==
    ASSUME NEW r, NEW s, r.status \in Statuses
    PROVE  /\ Classify(r, s) \in Seq(Kinds)
           /\ r.status # "completed" => Classify(r, s) # <<>>
<1>1. Causes(r, s) \in Seq(Kinds)
  <2> DEFINE Kind(kind, id) == IF id \in FailedChecks(r, s, NaN) THEN <<kind>> ELSE <<>>
  <2>1. \A kind \in Kinds : \A id : Kind(kind, id) \in Seq(Kinds)
    OBVIOUS
  <2>2. Causes(r, s) = Kind("conservation", "terminal-current-conservation")
                       \o Kind("physical_sanity", "nonnegative-carrier-density")
                       \o Kind("physical_sanity", "equilibrium-terminal-current")
                       \o Kind("physical_sanity", "built-in-potential-reference")
                       \o Kind("malformed_output", "requested-observables-present")
    BY DEF Causes
  <2>3. /\ "conservation" \in Kinds /\ "physical_sanity" \in Kinds
        /\ "malformed_output" \in Kinds
    BY DEF Kinds
  <2> HIDE DEF Kind
  <2>4. QED
    BY <2>1, <2>2, <2>3
<1>2. Diverged(r) \in Seq(Kinds)
  <2>1. <<"non_convergence">> \in Seq(Kinds) /\ <<>> \in Seq(Kinds)
    BY DEF Kinds
  <2>2. QED
    BY <2>1 DEF Diverged
<1>3. CASE r.status # "completed"
  BY <1>3 DEF Classify, Unfinished, Statuses, Kinds
<1>4. CASE r.status = "completed"
  <2>1. <<"nonfinite_result">> \in Seq(Kinds)
    BY DEF Kinds
  <2>2. QED
    BY <1>1, <1>2, <1>4, <2>1 DEF Classify
<1>5. QED
  BY <1>3, <1>4

\* What it means that a check fails, of those that a kind of failure or arithmetic is about.
LEMMA ChecksFail ==
    ASSUME NEW r, NEW s, NEW expected
    PROVE  LET points == r.table.points
               worst == CurrentImbalance(points)
               all == AllCurrents(r.table)
               Fails(id) == id \in FailedChecks(r, s, expected)
           IN  /\ Fails("monotonic-bias") <=>
                     \E i \in 1 .. Len(points) - 1 : ~AtMost(points[i].bias, points[i + 1].bias)
               /\ Fails("terminal-current-conservation") <=>
                     points = <<>> \/ ~AtMost(worst.imbalance, worst.limit)
               /\ Fails("nonnegative-carrier-density") <=>
                     /\ "electron_density" \in DOMAIN r.table.fields
                     /\ \E v \in Range(r.table.fields["electron_density"].values) :
                           ~AtMost(0, v)
               /\ Fails("requested-observables-present") <=>
                     MissingObservables(s, r.table) # {}
               /\ Fails("equilibrium-terminal-current") <=>
                     /\ s.study = "equilibrium"
                     /\ all = <<>> \/ ~AtMost(Largest(Magnitudes(all), 0), CurrentAtol)
               /\ Fails("built-in-potential-reference") <=>
                     s.study = "equilibrium" /\ BuiltInPotentialFails(s, r.table)
  BY DEF FailedChecks

\* What a kind of failure says of a result: the status of its run or a check that fails.
Says(kind, r, s) ==
    \/ kind = "execution" /\ r.status = "execution_failed"
    \/ kind = "timeout" /\ r.status = "timed_out"
    \/ kind = "malformed_output" /\ r.status = "malformed_result"
    \/ /\ kind = "non_convergence" /\ r.status = "completed"
       /\ \E p \in Range(r.table.points) : ~p.converged
    \/ kind = "nonfinite_result" /\ r.status = "completed" /\ ~AllValuesFinite(r.table)
    \/ /\ r.status = "completed" /\ AllValuesFinite(r.table)
       /\ \E id \in FailedChecks(r, s, NaN) :
             \/ kind = "conservation" /\ id = "terminal-current-conservation"
             \/ /\ kind = "physical_sanity"
                /\ id \in {"nonnegative-carrier-density", "equilibrium-terminal-current",
                          "built-in-potential-reference"}
             \/ kind = "malformed_output" /\ id = "requested-observables-present"

\* A sequence of kinds, each of which is said of the result.
Speaks(q, r, s) == q \in Seq(Kinds) /\ \A x \in Range(q) : Says(x, r, s)

LEMMA SpeaksTogether ==
    ASSUME NEW r, NEW s
    PROVE  /\ Speaks(<<>>, r, s)
           /\ \A x \in Kinds : Says(x, r, s) => Speaks(<<x>>, r, s)
           /\ \A a, b : Speaks(a, r, s) /\ Speaks(b, r, s) => Speaks(a \o b, r, s)
<1>1. Speaks(<<>>, r, s)
  BY DEF Speaks, Range
<1>2. ASSUME NEW x \in Kinds, Says(x, r, s)  PROVE Speaks(<<x>>, r, s)
  <2> DEFINE q == <<x>>
  <2>1. q \in Seq(Kinds)
    OBVIOUS
  <2>2. DOMAIN q = {1} /\ q[1] = x
    OBVIOUS
  <2> HIDE DEF q
  <2>3. \A y : y \in Range(q) <=> \E j \in {1} : y = q[j]
    BY <2>2, RangeIs
  <2>4. QED
    BY <1>2, <2>1, <2>2, <2>3 DEF q, Speaks
<1>3. ASSUME NEW a, NEW b, Speaks(a, r, s), Speaks(b, r, s)  PROVE Speaks(a \o b, r, s)
  BY <1>3, ConcatenationHas DEF Speaks
<1>4. QED
  BY <1>1, <1>2, <1>3

\* A classification says nothing else.
LEMMA ClassificationSays ==
    ASSUME NEW r, NEW s, r.status \in Statuses
    PROVE  \A kind \in Range(Classify(r, s)) : Says(kind, r, s)
<1>1. CASE r.status # "completed"
  <2> DEFINE kind == Unfinished[r.status]
  <2>1. \/ r.status = "execution_failed" /\ kind = "execution"
        \/ r.status = "timed_out" /\ kind = "timeout"
        \/ r.status = "malformed_result" /\ kind = "malformed_output"
    BY <1>1 DEF Unfinished, Statuses
  <2>2. Classify(r, s) = <<kind>>
    BY <1>1 DEF Classify
  <2> HIDE DEF kind
  <2>3. kind \in Kinds
    BY <2>1 DEF Kinds
  <2>4. Says(kind, r, s)
    BY <2>1 DEF Says
  <2>5. QED
    BY <2>2, <2>3, <2>4, SpeaksTogether DEF Speaks
<1>2. CASE r.status = "completed"
  <2> DEFINE Kind(kind, id) == IF id \in FailedChecks(r, s, NaN) THEN <<kind>> ELSE <<>>
             k1 == Kind("conservation", "terminal-current-conservation")
             k2 == Kind("physical_sanity", "nonnegative-carrier-density")
             k3 == Kind("physical_sanity", "equilibrium-terminal-current")
             k4 == Kind("physical_sanity", "built-in-potential-reference")
             k5 == Kind("malformed_output", "requested-observables-present")
  <2>1. ASSUME AllValuesFinite(r.table)  PROVE Speaks(Causes(r, s), r, s)
    <3>1. ASSUME NEW kind \in Kinds, NEW id,
                 id \in FailedChecks(r, s, NaN) => Says(kind, r, s)
          PROVE  Speaks(Kind(kind, id), r, s)
      BY <3>1, SpeaksTogether
    <3>2. Causes(r, s) = k1 \o k2 \o k3 \o k4 \o k5
      BY DEF Causes
    <3> DEFINE Found(id) == id \in FailedChecks(r, s, NaN)
    <3> HIDE DEF Kind
    <3>3. /\ Found("terminal-current-conservation") => Says("conservation", r, s)
          /\ Found("nonnegative-carrier-density") => Says("physical_sanity", r, s)
          /\ Found("equilibrium-terminal-current") => Says("physical_sanity", r, s)
          /\ Found("built-in-potential-reference") => Says("physical_sanity", r, s)
          /\ Found("requested-observables-present") => Says("malformed_output", r, s)
      BY <1>2, <2>1 DEF Says
    <3>4. Speaks(k1, r, s)
      BY <3>1, <3>3 DEF Kinds
    <3>5. Speaks(k2, r, s)
      BY <3>1, <3>3 DEF Kinds
    <3>6. Speaks(k3, r, s)
      BY <3>1, <3>3 DEF Kinds
    <3>7. Speaks(k4, r, s)
      BY <3>1, <3>3 DEF Kinds
    <3>8. Speaks(k5, r, s)
      BY <3>1, <3>3 DEF Kinds
    <3> HIDE DEF k1, k2, k3, k4, k5
    <3>9. QED
      BY <3>2, <3>4, <3>5, <3>6, <3>7, <3>8, SpeaksTogether
  <2> DEFINE rest == IF AllValuesFinite(r.table) THEN Causes(r, s) ELSE <<"nonfinite_result">>
  <2>2. Speaks(rest, r, s)
    <3>1. ~AllValuesFinite(r.table) =>
             "nonfinite_result" \in Kinds /\ Says("nonfinite_result", r, s)
      BY <1>2 DEF Says, Kinds
    <3>2. QED
      BY <2>1, <3>1, SpeaksTogether
  <2>3. Speaks(Diverged(r), r, s)
    <3>1. (\E p \in Range(r.table.points) : ~p.converged) =>
             "non_convergence" \in Kinds /\ Says("non_convergence", r, s)
      BY <1>2 DEF Says, Kinds
    <3>2. QED
      BY <3>1, SpeaksTogether DEF Diverged
  <2>4. Classify(r, s) = Diverged(r) \o rest
    BY <1>2 DEF Classify
  <2> HIDE DEF rest
  <2>5. Speaks(Classify(r, s), r, s)
    BY <2>2, <2>3, <2>4, SpeaksTogether
  <2>6. QED
    BY <2>5 DEF Speaks
<1>3. QED
  BY <1>1, <1>2

----------------------------------------------------------------------------
(* The adapters *)

Points == [bias : Biases \cup Int, converged : BOOLEAN, currents : Currents]

Tables == [version : BOOLEAN, terminals : {0, 2}, points : Seq(Points),
           fields : UNION {Fields(names) : names \in SUBSET FieldNames}]

\* The unit of the currents.
UnitFactor(unit) == IF unit = "A/cm^2" THEN 10000 ELSE 1

LEMMA UnitIsFactor ==
    ASSUME NEW unit
    PROVE  UnitFactor(unit) \in Factors
  BY DEF UnitFactor, Factors

\* Normalization multiplies the currents and changes nothing else.
LEMMA CanonicalKeeps ==
    ASSUME NEW t \in Tables, NEW unit
    PROVE  LET c == Canonical(t, unit) IN
           /\ c.version = t.version /\ c.terminals = t.terminals /\ c.fields = t.fields
           /\ DOMAIN c.points = DOMAIN t.points /\ Len(c.points) = Len(t.points)
           /\ t.points = <<>> => c.points = <<>>
           /\ \A i \in DOMAIN t.points :
                 /\ c.points[i].bias = t.points[i].bias
                 /\ c.points[i].converged = t.points[i].converged
                 /\ Len(c.points[i].currents) = Len(t.points[i].currents)
                 /\ DOMAIN c.points[i].currents = DOMAIN t.points[i].currents
                 /\ c.points[i].currents = [j \in DOMAIN t.points[i].currents |->
                                              Scaled(t.points[i].currents[j], UnitFactor(unit))]
<1> DEFINE factor == UnitFactor(unit)
           Point(p) == [p EXCEPT !.currents = [i \in DOMAIN @ |-> Scaled(@[i], factor)]]
           c == Canonical(t, unit)
<1>1. /\ t.points \in Seq(Points)
      /\ c.version = t.version /\ c.terminals = t.terminals /\ c.fields = t.fields
      /\ c.points = [i \in DOMAIN t.points |-> Point(t.points[i])]
  BY DEF Tables, Canonical, UnitFactor
<1> HIDE DEF factor
<1>2. ASSUME NEW p \in Points
      PROVE  /\ Point(p).bias = p.bias /\ Point(p).converged = p.converged
             /\ DOMAIN Point(p).currents = DOMAIN p.currents
             /\ Len(Point(p).currents) = Len(p.currents)
             /\ Point(p).currents = [j \in DOMAIN p.currents |-> Scaled(p.currents[j], factor)]
  <2>1. p.currents \in Seq(Int \cup {NaN})
    BY NumbersAssumption DEF Points
  <2>2. Point(p).currents = [i \in DOMAIN p.currents |-> Scaled(p.currents[i], factor)]
    BY DEF Points
  <2>3. Point(p).bias = p.bias /\ Point(p).converged = p.converged
    BY DEF Points
  <2>4. Len(p.currents) \in Nat /\ DOMAIN p.currents = 1 .. Len(p.currents)
    BY <2>1
  <2> HIDE DEF Point
  <2>5. QED
    BY <2>2, <2>3, <2>4
<1> HIDE DEF c, Point
<1>3. \A i \in DOMAIN t.points : t.points[i] \in Points /\ c.points[i] = Point(t.points[i])
  BY <1>1
<1>4. /\ DOMAIN c.points = DOMAIN t.points /\ Len(c.points) = Len(t.points)
      /\ t.points = <<>> => c.points = <<>>
  BY <1>1
<1>5. QED
  BY <1>1, <1>2, <1>3, <1>4 DEF c, factor

\* The numbers of a table, one by one.
LEMMA NumbersAre ==
    ASSUME NEW t, NEW x
    PROVE  x \in Numbers(t) <=>
              \/ \E i \in DOMAIN t.points :
                    x = t.points[i].bias \/ x \in Range(t.points[i].currents)
              \/ \E name \in DOMAIN t.fields : x \in Range(t.fields[name].values)
<1>1. x \in Numbers(t) <=>
         \/ \E p \in Range(t.points) : x = p.bias \/ x \in Range(p.currents)
         \/ \E name \in DOMAIN t.fields : x \in Range(t.fields[name].values)
  BY DEF Numbers
<1>2. \A p : p \in Range(t.points) <=> \E i \in DOMAIN t.points : p = t.points[i]
  BY Zenon DEF Range
<1>3. QED
  BY <1>1, <1>2

\* So a number that is not one shows in the normalized table, and none is made there.
LEMMA CanonicalHidesNothing ==
    ASSUME NEW t \in Tables, NEW unit
    PROVE  AllValuesFinite(Canonical(t, unit)) <=> NaN \notin Numbers(t)
<1> DEFINE c == Canonical(t, unit)
           factor == UnitFactor(unit)
<1>1. /\ c.fields = t.fields /\ DOMAIN c.points = DOMAIN t.points
      /\ \A i \in DOMAIN t.points :
            /\ c.points[i].bias = t.points[i].bias
            /\ c.points[i].currents = [j \in DOMAIN t.points[i].currents |->
                                          Scaled(t.points[i].currents[j], factor)]
  BY CanonicalKeeps
<1>2. \A i \in DOMAIN t.points : t.points[i].currents \in Seq(Int \cup {NaN})
  <2>1. t.points \in Seq(Points)
    BY DEF Tables
  <2>2. \A i \in DOMAIN t.points : t.points[i] \in Points
    BY <2>1
  <2>3. \A p \in Points : p.currents \in Seq(Int \cup {NaN})
    BY NumbersAssumption DEF Points
  <2>4. QED
    BY <2>2, <2>3
<1>3. \A x \in Int \cup {NaN} : Scaled(x, factor) = NaN <=> x = NaN
  <2>1. factor \in Factors
    BY UnitIsFactor
  <2> HIDE DEF factor
  <2>2. \A x \in Int : Scaled(x, factor) \in Int
    BY <2>1, ScaledMagnitude
  <2>3. Scaled(NaN, factor) = NaN
    BY DEF Scaled
  <2>4. QED
    BY <2>2, <2>3, ConstantsAssumption
<1> HIDE DEF c, factor
<1>4. ASSUME NEW i \in DOMAIN t.points
      PROVE  NaN \in Range(c.points[i].currents) <=> NaN \in Range(t.points[i].currents)
  <2> DEFINE s == t.points[i].currents
             u == c.points[i].currents
  <2>1. DOMAIN u = DOMAIN s /\ \A j \in DOMAIN s : u[j] = Scaled(s[j], factor)
    BY <1>1
  <2>2. s \in Seq(Int \cup {NaN})
    BY <1>2
  <2> HIDE DEF s, u
  <2>3. \A j \in DOMAIN s : u[j] = NaN <=> s[j] = NaN
    <3>1. \A j \in DOMAIN s : s[j] \in Int \cup {NaN}
      BY <2>2
    <3>2. QED
      BY <1>3, <2>1, <3>1
  <2>4. /\ NaN \in Range(s) <=> \E j \in DOMAIN s : NaN = s[j]
        /\ NaN \in Range(u) <=> \E j \in DOMAIN s : NaN = u[j]
    BY <2>1, RangeIs
  <2>5. QED
    BY <2>3, <2>4 DEF s, u
<1>5. NaN \in Numbers(c) <=> NaN \in Numbers(t)
  <2>1. \A i \in DOMAIN t.points :
           /\ c.points[i].bias = t.points[i].bias
           /\ NaN \in Range(c.points[i].currents) <=> NaN \in Range(t.points[i].currents)
    BY <1>1, <1>4
  <2>2. c.fields = t.fields /\ DOMAIN c.points = DOMAIN t.points
    BY <1>1
  <2>3. NaN \in Numbers(c) <=>
           \/ \E i \in DOMAIN c.points :
                 NaN = c.points[i].bias \/ NaN \in Range(c.points[i].currents)
           \/ \E name \in DOMAIN c.fields : NaN \in Range(c.fields[name].values)
    BY NumbersAre
  <2>4. NaN \in Numbers(t) <=>
           \/ \E i \in DOMAIN t.points :
                 NaN = t.points[i].bias \/ NaN \in Range(t.points[i].currents)
           \/ \E name \in DOMAIN t.fields : NaN \in Range(t.fields[name].values)
    BY NumbersAre
  <2>5. QED
    BY <2>1, <2>2, <2>3, <2>4
<1>6. QED
  BY <1>5 DEF AllValuesFinite, c

\* Nor does normalization change which observables are missing or which points converged.
LEMMA CanonicalMisses ==
    ASSUME NEW t \in Tables, NEW unit, NEW s
    PROVE  LET c == Canonical(t, unit) IN
           /\ MissingObservables(s, c) = MissingObservables(s, t)
           /\ (\E p \in Range(c.points) : ~p.converged) <=>
                 \E p \in Range(t.points) : ~p.converged
<1> DEFINE c == Canonical(t, unit)
           d == DOMAIN t.points
<1>1. /\ c.terminals = t.terminals /\ c.fields = t.fields
      /\ DOMAIN c.points = d /\ Len(c.points) = Len(t.points)
      /\ t.points = <<>> => c.points = <<>>
      /\ \A i \in d :
            /\ c.points[i].converged = t.points[i].converged
            /\ Len(c.points[i].currents) = Len(t.points[i].currents)
  BY CanonicalKeeps
<1>2. c.points = <<>> => t.points = <<>>
  <2>1. t.points \in Seq(Points)
    BY DEF Tables
  <2>2. Len(<<>>) = 0
    OBVIOUS
  <2>3. QED
    BY <1>1, <2>1, <2>2
<1> HIDE DEF c, d
<1>3. /\ \A p : p \in Range(c.points) <=> \E i \in d : p = c.points[i]
      /\ \A p : p \in Range(t.points) <=> \E i \in d : p = t.points[i]
  <2>1. DOMAIN c.points = d /\ DOMAIN t.points = d
    BY <1>1 DEF d
  <2>2. QED
    BY <2>1, RangeIs
<1>4. (\E p \in Range(c.points) : ~p.converged) <=> \E p \in Range(t.points) : ~p.converged
  <2>1. ASSUME NEW p \in Range(c.points), ~p.converged
        PROVE  \E o \in Range(t.points) : ~o.converged
    <3>1. PICK i \in d : p = c.points[i]
      BY <1>3
    <3>2. t.points[i] \in Range(t.points) /\ ~t.points[i].converged
      BY <1>1, <1>3, <2>1, <3>1
    <3>3. QED
      BY <3>2
  <2>2. ASSUME NEW p \in Range(t.points), ~p.converged
        PROVE  \E o \in Range(c.points) : ~o.converged
    <3>1. PICK i \in d : p = t.points[i]
      BY <1>3
    <3>2. c.points[i] \in Range(c.points) /\ ~c.points[i].converged
      BY <1>1, <1>3, <2>2, <3>1
    <3>3. QED
      BY <3>2
  <2>3. QED
    BY <2>1, <2>2
<1>5. (\E p \in Range(c.points) : Len(p.currents) < c.terminals) <=>
         \E p \in Range(t.points) : Len(p.currents) < t.terminals
  BY <1>1, <1>3
<1>6. MissingObservables(s, c) = MissingObservables(s, t)
  BY <1>1, <1>2, <1>5 DEF MissingObservables
<1>7. QED
  BY <1>4, <1>6 DEF c

----------------------------------------------------------------------------
(* Tables of numbers *)

\* A table without NaN has integers for biases, currents and fields.
LEMMA FiniteTable ==
    ASSUME NEW t \in Tables, NaN \notin Numbers(t)
    PROVE  /\ t.points \in Seq(Points)
           /\ \A i \in DOMAIN t.points :
                 t.points[i].bias \in Int /\ t.points[i].currents \in Seq(Int)
           /\ \A name \in DOMAIN t.fields : t.fields[name].values \in Seq(Int)
<1>1. /\ t.points \in Seq(Points)
      /\ t.fields \in UNION {Fields(names) : names \in SUBSET FieldNames}
  BY DEF Tables
<1>2. ASSUME NEW s \in Seq(Int \cup {NaN}), NaN \notin Range(s)  PROVE s \in Seq(Int)
  <2>1. \A i \in DOMAIN s : s[i] \in Int
    BY <1>2 DEF Range
  <2>2. QED
    BY <2>1
<1>3. ASSUME NEW i \in DOMAIN t.points
      PROVE  t.points[i].bias \in Int /\ t.points[i].currents \in Seq(Int)
  <2>1. t.points[i] \in Points
    BY <1>1
  <2>2. NaN # t.points[i].bias /\ NaN \notin Range(t.points[i].currents)
    BY NumbersAre
  <2>3. /\ t.points[i].bias \in Int \cup {NaN}
        /\ t.points[i].currents \in Seq(Int \cup {NaN})
    BY <2>1, NumbersAssumption DEF Points
  <2>4. QED
    BY <1>2, <2>2, <2>3
<1>4. ASSUME NEW name \in DOMAIN t.fields  PROVE t.fields[name].values \in Seq(Int)
  <2>1. t.fields[name] \in Potentials \cup Densities
    BY <1>1 DEF Fields
  <2>2. NaN \notin Range(t.fields[name].values)
    BY NumbersAre
  <2>3. t.fields[name].values \in Seq(Int \cup {NaN})
    BY <2>1, NumbersAssumption
  <2>4. QED
    BY <1>2, <2>2, <2>3
<1>5. QED
  BY <1>1, <1>3, <1>4

LEMMA CurrentsAreNumbers ==
    ASSUME NEW t \in Tables, NaN \notin Numbers(t)
    PROVE  \A p \in Range(t.points) : \A x \in Range(p.currents) \cup {0} : x \in Int
<1> SUFFICES ASSUME NEW p \in Range(t.points)
             PROVE  \A x \in Range(p.currents) \cup {0} : x \in Int
  OBVIOUS
<1>1. PICK i \in DOMAIN t.points : p = t.points[i]
  BY DEF Range
<1>2. p.currents \in Seq(Int)
  BY <1>1, FiniteTable
<1>3. \A j \in DOMAIN p.currents : p.currents[j] \in Int
  BY <1>2
<1>4. QED
  BY <1>3 DEF Range

\* What is left of the currents of a point in uA/m^2, the tolerance that a current of its
\* own allows, and a point that differs from another in the unit of its currents.
ResidueIn(p, factor) == Magnitude(Total(p.currents)) * factor
Tolerates(p, factor, limit) ==
    /\ limit \in Nat /\ limit >= 1
    /\ \E c \in Range(p.currents) \cup {0} : 10000 * (limit - 1) <= Magnitude(c) * factor
Normalizes(q, p, factor) ==
    /\ p.currents \in Seq(Int) /\ q.currents \in Seq(Int)
    /\ Len(q.currents) = Len(p.currents)
    /\ \A j \in DOMAIN p.currents : q.currents[j] = Scaled(p.currents[j], factor)

\* What a normalized point measures, in the numbers the simulator wrote.
LEMMA PointMeasures ==
    ASSUME NEW p, NEW q, NEW factor \in Factors, Normalizes(q, p, factor)
    PROVE  /\ PointImbalance(q) \in Nat /\ PointImbalance(q) = ResidueIn(p, factor)
           /\ Tolerates(p, factor, PointLimit(q))
<1> DEFINE s == p.currents
           t == q.currents
           limit == PointLimit(q)
           scale == Largest(Magnitudes(t), 0)
<1>1. /\ s \in Seq(Int) /\ t \in Seq(Int) /\ Len(t) = Len(s) /\ DOMAIN s = DOMAIN t
      /\ \A j \in DOMAIN s : t[j] = Scaled(s[j], factor)
  BY DEF Normalizes
<1>2. PointImbalance(q) = Magnitude(Total(s)) * factor /\ PointImbalance(q) \in Nat
  <2>1. Total(s) \in Int /\ Total(t) = Scaled(Total(s), factor)
    BY <1>1, TotalScales
  <2>2. QED
    BY <2>1, ScaledMagnitude DEF PointImbalance
<1>3. ASSUME scale \in Nat
      PROVE  limit \in Nat /\ limit >= 1 /\ 10000 * (limit - 1) <= scale
  <2>1. limit = 1 + scale \div 10000
    <3>1. scale # NaN
      BY <1>3, ConstantsAssumption
    <3>2. QED
      BY <3>1 DEF PointLimit, CurrentAtol
  <2> HIDE DEF scale, limit
  <2>2. QED
    BY <1>3, <2>1
<1>4. scale \in Nat /\ \E c \in Range(s) \cup {0} : scale = Magnitude(c) * factor
  <2>1. CASE t = <<>>
    <3>1. scale = 0
      BY <2>1 DEF Magnitudes, Largest
    <3>2. Magnitude(0) * factor = 0
      BY ScaledMagnitude, ConstantsAssumption DEF Magnitude, Factors
    <3>3. QED
      BY <3>1, <3>2
  <2>2. CASE t # <<>>
    <3>1. scale \in Nat /\ \E j \in DOMAIN t : scale = Magnitude(t[j])
      BY <1>1, <2>2, LargestMagnitude
    <3>2. PICK j \in DOMAIN s : scale = Magnitude(t[j])
      BY <1>1, <3>1
    <3>3. s[j] \in Int /\ s[j] \in Range(s) /\ t[j] = Scaled(s[j], factor)
      BY <1>1 DEF Range
    <3>4. scale = Magnitude(s[j]) * factor
      BY <3>2, <3>3, ScaledMagnitude
    <3>5. QED
      BY <3>1, <3>3, <3>4
  <2>3. QED
    BY <2>1, <2>2
<1>5. PICK c \in Range(s) \cup {0} : scale = Magnitude(c) * factor
  BY <1>4
<1> HIDE DEF s, t, limit, scale
<1>6. QED
  BY <1>2, <1>3, <1>4, <1>5 DEF s, limit, ResidueIn, Tolerates

\* Normalized points and native ones, one by one.
LEMMA PointsNormalize ==
    ASSUME NEW t \in Tables, NaN \notin Numbers(t), NEW unit
    PROVE  \A i \in DOMAIN t.points :
              Normalizes(Canonical(t, unit).points[i], t.points[i], UnitFactor(unit))
<1> DEFINE c == Canonical(t, unit)
           factor == UnitFactor(unit)
<1>1. factor \in Factors
  BY UnitIsFactor
<1>2. ASSUME NEW i \in DOMAIN t.points
      PROVE  Normalizes(c.points[i], t.points[i], factor)
  <2> DEFINE s == t.points[i].currents
             u == c.points[i].currents
  <2>1. s \in Seq(Int) /\ u = [j \in DOMAIN s |-> Scaled(s[j], factor)]
    BY FiniteTable, CanonicalKeeps
  <2> HIDE DEF s, u, c, factor
  <2>2. Len(s) \in Nat /\ DOMAIN s = 1 .. Len(s) /\ \A j \in 1 .. Len(s) : s[j] \in Int
    BY <2>1
  <2>3. \A j \in 1 .. Len(s) : Scaled(s[j], factor) \in Int
    BY <1>1, <2>2, ScaledMagnitude
  <2>4. u \in Seq(Int) /\ Len(u) = Len(s) /\ \A j \in DOMAIN s : u[j] = Scaled(s[j], factor)
    BY <2>1, <2>2, <2>3
  <2>5. QED
    BY <2>1, <2>4 DEF s, u, Normalizes
<1>3. QED
  BY <1>2

\* The point that decides on conservation: none leaves more, and the tolerance is its own.
Decides(worst, t, factor) ==
    \E p \in Range(t.points) :
       /\ \A o \in Range(t.points) : ResidueIn(o, factor) <= ResidueIn(p, factor)
       /\ worst.imbalance \in Nat /\ worst.imbalance = ResidueIn(p, factor)
       /\ Tolerates(p, factor, worst.limit)

LEMMA WorstPoint ==
    ASSUME NEW t \in Tables, NaN \notin Numbers(t), t.points # <<>>, NEW unit
    PROVE  Decides(CurrentImbalance(Canonical(t, unit).points), t, UnitFactor(unit))
<1> DEFINE s == Canonical(t, unit).points
           n == Len(t.points)
           factor == UnitFactor(unit)
           worst == CurrentImbalance(s)
<1>1. factor \in Factors
  BY UnitIsFactor
<1>2. /\ n \in Nat /\ n # 0 /\ DOMAIN t.points = 1 .. n
      /\ DOMAIN s = 1 .. n /\ s \in Seq(Range(s))
  <2>1. t.points \in Seq(Points)
    BY FiniteTable
  <2>2. DOMAIN s = DOMAIN t.points
    BY CanonicalKeeps
  <2>3. n \in Nat /\ n # 0 /\ DOMAIN t.points = 1 .. n
    BY <2>1
  <2>4. s = [i \in DOMAIN t.points |-> s[i]]
    BY DEF Canonical
  <2> HIDE DEF s, n
  <2>5. \A i \in 1 .. n : s[i] \in Range(s)
    BY <2>2, <2>3 DEF Range
  <2>6. s \in Seq(Range(s))
    BY <2>3, <2>4, <2>5
  <2>7. QED
    BY <2>2, <2>3, <2>6
<1>3. ASSUME NEW i \in 1 .. n
      PROVE  /\ PointImbalance(s[i]) \in Nat
             /\ PointImbalance(s[i]) = ResidueIn(t.points[i], factor)
             /\ Tolerates(t.points[i], factor, PointLimit(s[i]))
  <2>1. Normalizes(s[i], t.points[i], factor)
    BY <1>2, PointsNormalize
  <2> HIDE DEF s, factor
  <2>2. QED
    BY <1>1, <2>1, PointMeasures
<1> HIDE DEF s, n, factor
<1>4. /\ \A p : p \in Range(s) <=> \E i \in 1 .. n : p = s[i]
      /\ \A p : p \in Range(t.points) <=> \E i \in 1 .. n : p = t.points[i]
  BY <1>2, RangeIs
<1>5. Measured(s)
  <2>1. \A i \in 1 .. n : PointImbalance(s[i]) \in Nat /\ PointLimit(s[i]) \in Int
    BY <1>3 DEF Tolerates
  <2>2. QED
    BY <1>4, <2>1 DEF Measured
<1>6. CASE /\ worst = [imbalance |-> 0, limit |-> CurrentAtol]
           /\ \A p \in Range(s) : PointImbalance(p) = 0
  <2>1. worst.imbalance = 0 /\ worst.limit = 1
    BY <1>6 DEF CurrentAtol
  <2>2. \A o \in Range(t.points) : ResidueIn(o, factor) = 0
    BY <1>3, <1>4, <1>6
  <2>3. t.points[1] \in Range(t.points)
    BY <1>2, <1>4
  <2>4. Tolerates(t.points[1], factor, 1)
    <3>1. Magnitude(0) * factor \in Nat
      BY <1>1, ScaledMagnitude
    <3>2. 10000 * (1 - 1) = 0
      OBVIOUS
    <3>3. 10000 * (1 - 1) <= Magnitude(0) * factor
      BY <3>1, <3>2
    <3>4. QED
      BY <3>3 DEF Tolerates
  <2> HIDE DEF worst
  <2>5. QED
    BY <2>1, <2>2, <2>3, <2>4 DEF s, factor, worst, Decides
<1>7. CASE \E p \in Range(s) :
              /\ worst = [imbalance |-> PointImbalance(p), limit |-> PointLimit(p)]
              /\ \A o \in Range(s) : PointImbalance(o) <= PointImbalance(p)
  <2>1. PICK i \in 1 .. n :
           /\ worst = [imbalance |-> PointImbalance(s[i]), limit |-> PointLimit(s[i])]
           /\ \A o \in Range(s) : PointImbalance(o) <= PointImbalance(s[i])
    BY <1>4, <1>7
  <2>2. worst.imbalance = PointImbalance(s[i]) /\ worst.limit = PointLimit(s[i])
    BY <2>1
  <2>3. t.points[i] \in Range(t.points)
    BY <1>4
  <2>4. ASSUME NEW j \in 1 .. n
        PROVE  ResidueIn(t.points[j], factor) <= ResidueIn(t.points[i], factor)
    <3>1. s[j] \in Range(s)
      BY <1>4
    <3>2. PointImbalance(s[j]) <= PointImbalance(s[i])
      BY <2>1, <3>1
    <3>3. QED
      BY <1>3, <3>2
  <2>5. \A o \in Range(t.points) : ResidueIn(o, factor) <= ResidueIn(t.points[i], factor)
    BY <1>4, <2>4
  <2> HIDE DEF worst
  <2>6. /\ worst.imbalance \in Nat /\ worst.imbalance = ResidueIn(t.points[i], factor)
        /\ Tolerates(t.points[i], factor, worst.limit)
    BY <1>3, <2>2
  <2>7. QED
    BY <2>3, <2>5, <2>6 DEF s, factor, worst, Decides
<1>8. QED
  BY <1>2, <1>5, <1>6, <1>7, ImbalanceIs

\* The largest current of a table, in uA/m^2 and in the numbers the simulator wrote.
Carries(largest, t, factor) ==
    /\ \A i \in DOMAIN t.points : \A x \in Range(t.points[i].currents) :
          Magnitude(x) * factor <= largest
    /\ \E i \in DOMAIN t.points : \E x \in Range(t.points[i].currents) :
          largest = Magnitude(x) * factor

\* Scaled numbers, one by one.
LEMMA ScaledMembers ==
    ASSUME NEW p, NEW q, NEW factor \in Factors, Normalizes(q, p, factor)
    PROVE  /\ \A y \in Range(q.currents) : \E x \in Range(p.currents) :
                 Magnitude(y) = Magnitude(x) * factor
           /\ \A x \in Range(p.currents) : \E y \in Range(q.currents) :
                 Magnitude(y) = Magnitude(x) * factor
           /\ q.currents = <<>> => p.currents = <<>>
<1> DEFINE s == p.currents
           u == q.currents
<1>1. /\ s \in Seq(Int) /\ u \in Seq(Int) /\ Len(u) = Len(s) /\ DOMAIN u = DOMAIN s
      /\ \A j \in DOMAIN s : s[j] \in Int /\ u[j] = Scaled(s[j], factor)
  BY DEF Normalizes
<1> HIDE DEF s, u
<1>2. \A j \in DOMAIN s : Magnitude(u[j]) = Magnitude(s[j]) * factor
  BY <1>1, ScaledMagnitude
<1>3. \A x : x \in Range(s) <=> \E j \in DOMAIN s : x = s[j]
  BY RangeIs
<1>4. \A y : y \in Range(u) <=> \E j \in DOMAIN s : y = u[j]
  <2>1. DOMAIN u = DOMAIN s
    BY <1>1
  <2>2. QED
    BY <2>1, RangeIs
<1>5. \A y \in Range(u) : \E x \in Range(s) : Magnitude(y) = Magnitude(x) * factor
  BY <1>2, <1>3, <1>4
<1>6. \A x \in Range(s) : \E y \in Range(u) : Magnitude(y) = Magnitude(x) * factor
  BY <1>2, <1>3, <1>4
<1>7. u = <<>> => s = <<>>
  BY <1>1
<1>8. QED
  BY <1>5, <1>6, <1>7 DEF s, u

\* What the equilibrium check finds of the currents.
LEMMA EquilibriumCurrents ==
    ASSUME NEW t \in Tables, NaN \notin Numbers(t), NEW unit
    PROVE  LET all == AllCurrents(Canonical(t, unit)) IN
           /\ all = <<>> => \A i \in DOMAIN t.points : t.points[i].currents = <<>>
           /\ all # <<>> => /\ Largest(Magnitudes(all), 0) \in Nat
                            /\ Carries(Largest(Magnitudes(all), 0), t, UnitFactor(unit))
<1> DEFINE c == Canonical(t, unit)
           seqs == [i \in DOMAIN c.points |-> c.points[i].currents]
           all == FlattenSeq(seqs)
           largest == Largest(Magnitudes(all), 0)
           factor == UnitFactor(unit)
           n == Len(t.points)
           Native(i) == t.points[i].currents
<1>1. factor \in Factors
  BY UnitIsFactor
<1>2. n \in Nat /\ DOMAIN t.points = 1 .. n /\ DOMAIN c.points = 1 .. n
  <2>1. t.points \in Seq(Points)
    BY FiniteTable
  <2>2. DOMAIN c.points = DOMAIN t.points
    BY CanonicalKeeps
  <2>3. QED
    BY <2>1, <2>2
<1>3. \A i \in 1 .. n : Normalizes(c.points[i], t.points[i], factor)
  BY <1>2, PointsNormalize
<1> HIDE DEF c, factor, n
<1>4. /\ DOMAIN seqs = 1 .. n /\ seqs \in Seq(Seq(Int))
      /\ \A i \in 1 .. n : seqs[i] \in Seq(Int)
  <2>1. \A i \in 1 .. n : c.points[i].currents \in Seq(Int)
    BY <1>3 DEF Normalizes
  <2>2. QED
    BY <1>2, <2>1
<1>5. ASSUME NEW i \in 1 .. n
      PROVE  /\ \A y \in Range(seqs[i]) : \E x \in Range(Native(i)) :
                    Magnitude(y) = Magnitude(x) * factor
             /\ \A x \in Range(Native(i)) : \E y \in Range(seqs[i]) :
                    Magnitude(y) = Magnitude(x) * factor
             /\ seqs[i] = <<>> => Native(i) = <<>>
  <2>1. seqs[i] = c.points[i].currents
    BY <1>2
  <2>2. Normalizes(c.points[i], t.points[i], factor)
    BY <1>3
  <2> HIDE DEF seqs
  <2>3. QED
    BY <1>1, <2>1, <2>2, ScaledMembers
<1> HIDE DEF seqs, Native
<1>6. n = 0 => all = <<>>
  BY <1>2, <1>4 DEF FlattenSeq
<1>7. CASE n # 0
  <2>1. all \in Seq(Int) /\ \A x : x \in Range(all) <=> \E i \in 1 .. n : x \in Range(seqs[i])
    <3>1. seqs # <<>>
      BY <1>2, <1>4, <1>7
    <3>2. QED
      BY <1>4, <3>1, FlattenHas
  <2> HIDE DEF all
  <2>2. ASSUME all = <<>>, NEW i \in 1 .. n  PROVE Native(i) = <<>>
    <3>1. Range(all) = {}
      BY <2>2 DEF Range
    <3>2. Range(seqs[i]) = {}
      BY <2>1, <3>1
    <3>3. seqs[i] \in Seq(Int)
      BY <1>4
    <3>4. seqs[i] = <<>>
      <4>1. 1 \notin DOMAIN seqs[i]
        BY <3>2 DEF Range
      <4>2. QED
        BY <3>3, <4>1
    <3>5. QED
      BY <1>5, <3>4
  <2>3. ASSUME all # <<>>
        PROVE  /\ largest \in Nat
               /\ \A i \in 1 .. n : \A x \in Range(Native(i)) : Magnitude(x) * factor <= largest
               /\ \E i \in 1 .. n : \E x \in Range(Native(i)) : largest = Magnitude(x) * factor
    <3>1. /\ largest \in Nat
          /\ \E j \in DOMAIN all : largest = Magnitude(all[j])
          /\ \A j \in DOMAIN all : Magnitude(all[j]) <= largest
      BY <2>1, <2>3, LargestMagnitude
    <3> HIDE DEF largest
    <3>3. \A x : x \in Range(all) <=> \E j \in DOMAIN all : x = all[j]
      BY RangeIs
    <3>4. ASSUME NEW i \in 1 .. n, NEW x \in Range(Native(i))
          PROVE  Magnitude(x) * factor <= largest
      <4>1. PICK y \in Range(seqs[i]) : Magnitude(y) = Magnitude(x) * factor
        BY <1>5
      <4>2. y \in Range(all)
        BY <2>1
      <4>3. Magnitude(y) <= largest
        BY <3>1, <3>3, <4>2
      <4>4. QED
        BY <4>1, <4>3
    <3>5. \E i \in 1 .. n : \E x \in Range(Native(i)) : largest = Magnitude(x) * factor
      <4>1. PICK j \in DOMAIN all : largest = Magnitude(all[j])
        BY <3>1
      <4>2. all[j] \in Range(all)
        BY <3>3
      <4>3. PICK i \in 1 .. n : all[j] \in Range(seqs[i])
        BY <2>1, <4>2
      <4>4. PICK x \in Range(Native(i)) : Magnitude(all[j]) = Magnitude(x) * factor
        BY <1>5, <4>3
      <4>5. QED
        BY <4>1, <4>4
    <3>6. QED
      BY <3>1, <3>4, <3>5
  <2>4. QED
    BY <1>2, <2>2, <2>3 DEF all, largest, seqs, c, Native, factor, AllCurrents, Carries
<1>8. CASE n = 0
  <2>1. all = <<>> /\ DOMAIN t.points = {}
    BY <1>2, <1>6, <1>8
  <2>2. QED
    BY <2>1 DEF all, seqs, c, AllCurrents
<1>9. QED
  BY <1>7, <1>8

\* math.isclose to 0.7 V: within 10 %.
LEMMA CloseTo ==
    ASSUME NEW x \in Int, IsClose(x, ReferencePotential)
    PROVE  x \in 63 .. 77
<1> DEFINE s == <<Magnitude(x), Magnitude(70), 20>>
           largest == Largest(s, 0)
           away == Magnitude(x - 70)
<1>1. Magnitude(x) \in Nat /\ Magnitude(70) = 70 /\ away \in Nat
  BY ConstantsAssumption DEF Magnitude
<1>2. s \in Seq(Int) /\ s # <<>> /\ DOMAIN s = 1 .. 3
  BY <1>1
<1>3. s[1] = Magnitude(x) /\ s[2] = 70 /\ s[3] = 20
  BY <1>1
<1>4. 10 * away <= largest
  BY DEF IsClose, ReferencePotential
<1> HIDE DEF s
<1>5. largest \in Range(s) /\ \A i \in DOMAIN s : s[i] <= largest
  BY <1>2, LargestIs
<1> HIDE DEF largest
<1>6. PICK i \in 1 .. 3 : largest = s[i]
  BY <1>2, <1>5 DEF Range
<1>7. largest >= 70 /\ largest \in {Magnitude(x), 70}
  BY <1>1, <1>2, <1>3, <1>5, <1>6
<1>8. /\ away = IF x - 70 < 0 THEN 70 - x ELSE x - 70
      /\ Magnitude(x) = IF x < 0 THEN -x ELSE x
  BY ConstantsAssumption DEF Magnitude
<1> HIDE DEF away
<1>9. QED
  BY <1>4, <1>7, <1>8

\* A field that shows the reference potential has two values so far apart.
LEMMA JunctionShows ==
    ASSUME NEW v \in Seq(Int), v # <<>>,
           IsClose(Largest(v, 0) + Largest([i \in DOMAIN v |-> -v[i]], 0), ReferencePotential)
    PROVE  \E a, b \in Range(v) : a - b \in 63 .. 77
<1> DEFINE w == [i \in DOMAIN v |-> -v[i]]
<1>1. w \in Seq(Int) /\ w # <<>> /\ DOMAIN w = DOMAIN v
  <2>1. Len(v) \in Nat /\ Len(v) # 0 /\ DOMAIN v = 1 .. Len(v)
    OBVIOUS
  <2>2. \A i \in 1 .. Len(v) : -v[i] \in Int
    BY <2>1
  <2>3. QED
    BY <2>1, <2>2
<1>2. Largest(v, 0) \in Range(v) /\ Largest(w, 0) \in Range(w)
  <2> HIDE DEF w
  <2>1. QED
    BY <1>1, LargestIs
<1>3. PICK i \in DOMAIN v : Largest(w, 0) = -v[i]
  BY <1>1, <1>2 DEF Range
<1>4. PICK j \in DOMAIN v : Largest(v, 0) = v[j]
  BY <1>2 DEF Range
<1>5. v[i] \in Int /\ v[j] \in Int /\ v[i] \in Range(v) /\ v[j] \in Range(v)
  BY DEF Range
<1>6. Largest(v, 0) + Largest(w, 0) = v[j] - v[i] /\ v[j] - v[i] \in Int
  BY <1>3, <1>4, <1>5
<1>7. IsClose(v[j] - v[i], ReferencePotential)
  BY <1>6
<1>8. v[j] - v[i] \in 63 .. 77
  BY <1>6, <1>7, CloseTo
<1>9. QED
  BY <1>5, <1>8

----------------------------------------------------------------------------
(* The inductive invariant *)

Stages == {"compile", "run", "normalize", "validate", "bundle", "conclude", "done", "raised"}

\* What the runner hands over: a status that says how the process ended, and of a run that
\* completed a table, unless a remote one left none.
RunnersReport ==
    /\ stage = "run" => sweep \in Seq(Int)
    /\ stage \notin {"compile", "run"} =>
          /\ native.status \in Statuses
          /\ native.status = "execution_failed" => native.exit = "nonzero"
          /\ native.status = "timed_out" => native.exit = "timeout"
          /\ native.status = "malformed_result" => native.file # "table"
          /\ native.status = "completed" =>
                /\ native.exit = "zero"
                /\ spec.backend = "devsim" => native.file = "table"
                /\ native.file = "table" => native.table \in Tables

\* A result that completed is a table of the simulator, normalized.
AdaptersNormalize ==
    stage \in {"validate", "bundle", "conclude", "done"} =>
        /\ result.status = native.status
        /\ result.status = "completed" =>
              /\ native.file = "table" /\ result.table = Canonical(native.table, native.unit)

\* The verdict is of that result, and the records are of that verdict.
RecordsFollow ==
    /\ stage \in {"bundle", "conclude", "done"} =>
          /\ failed = FailedChecks(result, spec, ExpectedBiasPoints(spec))
          /\ failures = Classify(result, spec)
    /\ stage \notin {"bundle", "conclude", "done"} => failures = <<>>
    /\ stage \in {"conclude", "done"} =>
          bundle = IF native.status = "completed" /\ result.status = "completed" /\ failed = {}
                     THEN "completed" ELSE "failed"
    /\ stage # "done" =>
          row \in [state : {"running", "validating"}, code : {""}, recovery : {""}]
    /\ stage = "done" =>
          row = [ state |-> IF failed = {} THEN "completed" ELSE "failed",
                  code |-> IF failed = {} THEN ""
                           ELSE IF failures = <<>> THEN "validation_failed" ELSE failures[1],
                  recovery |-> IF failures = <<>> THEN "" ELSE Decide(failures[1], <<>>, 0) ]

IInv ==
    /\ spec \in Specs /\ stage \in Stages
    /\ RunnersReport
    /\ AdaptersNormalize
    /\ RecordsFollow

----------------------------------------------------------------------------
(* The steps *)

\* A compiled sweep is a sequence of biases.
LEMMA SweepIsSequence ==
    ASSUME NEW s \in Specs
    PROVE  Sweep(s) \in Seq(Int) /\ ExpectedBiasPoints(s) \in Int
<1> DEFINE q == (s.stop - s.start) \div s.step
<1>1. s.start \in Int /\ s.stop \in Int /\ s.start <= s.stop /\ s.step \in Nat \ {0}
  BY SpecsAssumption
<1>2. q \in Int /\ q >= 0
  BY <1>1
<1>3. \A i \in 1 .. q + 1 : s.start + (i - 1) * s.step \in Int
  BY <1>1
<1>4. [i \in 1 .. q + 1 |-> s.start + (i - 1) * s.step] \in Seq(Int)
  <2> HIDE DEF q
  <2>1. q + 1 \in Nat
    BY <1>2
  <2>2. QED
    BY <1>3, <2>1
<1>5. <<0>> \in Seq(Int)
  OBVIOUS
<1>6. Sweep(s) \in Seq(Int)
  BY <1>4, <1>5 DEF Sweep
<1>7. ExpectedBiasPoints(s) \in Int
  BY <1>1, <1>2 DEF ExpectedBiasPoints, Round
<1>8. QED
  BY <1>6, <1>7

\* A table of the reviewed runtime, or of the licensed site, is one.
LEMMA TablesAreTables ==
    /\ sweep \in Seq(Int) => DevsimTables \subseteq Tables
    /\ RemoteTables \subseteq Tables
<1>1. ASSUME sweep \in Seq(Int), NEW t \in DevsimTables  PROVE t \in Tables
  <2>1. PICK c \in [DOMAIN sweep -> {x \in Currents : Len(x) = 2}],
             f \in Fields(FieldNames \cap spec.observables) :
               t = Table(TRUE, 2, [i \in DOMAIN sweep |->
                     [bias |-> sweep[i], converged |-> TRUE, currents |-> c[i]]], f)
    <3> DEFINE Cs == [DOMAIN sweep -> {x \in Currents : Len(x) = 2}]
               Fs == Fields(FieldNames \cap spec.observables)
               Made(c, f) == Table(TRUE, 2, [i \in DOMAIN sweep |->
                               [bias |-> sweep[i], converged |-> TRUE, currents |-> c[i]]], f)
    <3>1. DevsimTables = {Made(c, f) : c \in Cs, f \in Fs}
      BY DEF DevsimTables
    <3> HIDE DEF Cs, Fs, Made
    <3>2. \E c \in Cs, f \in Fs : t = Made(c, f)
      BY <1>1, <3>1
    <3>3. QED
      BY <3>2 DEF Cs, Fs, Made
  <2> DEFINE points == [i \in DOMAIN sweep |->
                          [bias |-> sweep[i], converged |-> TRUE, currents |-> c[i]]]
  <2>2. \A i \in DOMAIN sweep :
           [bias |-> sweep[i], converged |-> TRUE, currents |-> c[i]] \in Points
    BY <1>1 DEF Points
  <2>3. points \in Seq(Points)
    BY <1>1, <2>2
  <2>4. f \in UNION {Fields(names) : names \in SUBSET FieldNames}
    OBVIOUS
  <2> HIDE DEF points
  <2>5. t = Table(TRUE, 2, points, f)
    BY <2>1 DEF points
  <2>6. QED
    BY <2>3, <2>4, <2>5 DEF Tables, Table
<1>2. ASSUME NEW t \in RemoteTables  PROVE t \in Tables
  <2> DEFINE Remote == [bias : Biases, converged : BOOLEAN, currents : Currents]
  <2>1. PICK version \in BOOLEAN, terminals \in {0, 2},
             points \in UNION {[1..n -> Remote] : n \in 0..MaxPoints},
             f \in UNION {Fields(names) : names \in SUBSET FieldNames} :
               t = Table(version, terminals, points, f)
    BY DEF RemoteTables
  <2>2. Remote \subseteq Points
    BY DEF Points
  <2>3. PICK n \in 0 .. MaxPoints : points \in [1..n -> Remote]
    OBVIOUS
  <2>4. n \in Nat
    BY ConstantsAssumption
  <2> HIDE DEF Remote
  <2>5. points \in Seq(Points)
    BY <2>2, <2>3, <2>4
  <2>6. QED
    BY <2>1, <2>5 DEF Tables, Table
<1>3. QED
  BY <1>1, <1>2

\* At the start nothing has run.
LEMMA InitInv == Init => IInv
<1> SUFFICES ASSUME Init  PROVE IInv
  OBVIOUS
<1>1. spec \in Specs /\ stage = "compile" /\ row = NoRow /\ failures = <<>>
  BY DEF Init
<1>2. row \in [state : {"running", "validating"}, code : {""}, recovery : {""}]
  BY <1>1 DEF NoRow
<1>3. QED
  BY <1>1, <1>2 DEF IInv, Stages, RunnersReport, AdaptersNormalize, RecordsFollow

\* A simulator runs: what a runner reports.
LEMMA RunStep ==
    ASSUME IInv, RunDevsim \/ RunRemote
    PROVE  IInv'
<1>1. /\ stage = "run" /\ stage' = "normalize" /\ sweep \in Seq(Int)
      /\ spec' = spec /\ row' = row /\ failures' = failures /\ spec \in Specs
  BY DEF RunDevsim, RunRemote, IInv, RunnersReport
<1>2. /\ native'.status \in Statuses
      /\ native'.status = "execution_failed" => native'.exit = "nonzero"
      /\ native'.status = "timed_out" => native'.exit = "timeout"
      /\ native'.status = "malformed_result" => native'.file # "table"
      /\ native'.status = "completed" =>
            /\ native'.exit = "zero"
            /\ spec.backend = "devsim" => native'.file = "table"
            /\ native'.file = "table" => native'.table \in Tables
  <2>1. CASE RunDevsim
    <3>1. PICK exit \in Exits, file \in {"none", "garbage", "table"} :
             \E table \in IF file = "table" THEN DevsimTables ELSE {NoTable} :
                native' = [status |-> Status(exit, file), exit |-> exit, file |-> file,
                           unit |-> "A/cm^2", table |-> table]
      BY <2>1 DEF RunDevsim
    <3>2. PICK table \in IF file = "table" THEN DevsimTables ELSE {NoTable} :
             native' = [status |-> Status(exit, file), exit |-> exit, file |-> file,
                        unit |-> "A/cm^2", table |-> table]
      BY <3>1
    <3>3. file = "table" => table \in Tables
      BY <1>1, TablesAreTables
    <3>4. /\ Status(exit, file) \in Statuses
          /\ Status(exit, file) = "execution_failed" => exit = "nonzero"
          /\ Status(exit, file) = "timed_out" => exit = "timeout"
          /\ Status(exit, file) = "malformed_result" => file # "table"
          /\ Status(exit, file) = "completed" => exit = "zero" /\ file = "table"
      BY DEF Status, Statuses, Exits
    <3>5. QED
      BY <3>2, <3>3, <3>4
  <2>2. CASE RunRemote
    <3>1. PICK exit \in Exits, file \in {"none", "garbage", "table"}, unit \in {"A/m^2", "A/cm^2"} :
             \E table \in IF exit = "zero" /\ file = "table" THEN RemoteTables ELSE {NoTable} :
                native' = [status |-> RemoteStatus(exit), exit |-> exit, file |-> file,
                           unit |-> unit, table |-> table]
      BY <2>2 DEF RunRemote
    <3>2. PICK table \in IF exit = "zero" /\ file = "table" THEN RemoteTables ELSE {NoTable} :
             native' = [status |-> RemoteStatus(exit), exit |-> exit, file |-> file,
                        unit |-> unit, table |-> table]
      BY <3>1
    <3>3. exit = "zero" /\ file = "table" => table \in Tables
      BY TablesAreTables
    <3>4. /\ RemoteStatus(exit) \in Statuses
          /\ RemoteStatus(exit) = "execution_failed" => exit = "nonzero"
          /\ RemoteStatus(exit) = "timed_out" => exit = "timeout"
          /\ RemoteStatus(exit) # "malformed_result"
          /\ RemoteStatus(exit) = "completed" => exit = "zero"
      BY DEF RemoteStatus, Statuses, Exits
    <3>5. spec.backend # "devsim"
      BY <2>2 DEF RunRemote
    <3>6. QED
      BY <3>2, <3>3, <3>4, <3>5
  <2>3. QED
    BY <2>1, <2>2
<1>3. RunnersReport'
  BY <1>1, <1>2 DEF RunnersReport
<1>4. AdaptersNormalize' /\ RecordsFollow'
  BY <1>1 DEF AdaptersNormalize, RecordsFollow, IInv
<1>5. QED
  BY <1>1, <1>3, <1>4 DEF IInv, Stages

\* The adapter normalizes, or raises.
LEMMA NormalizeStep ==
    ASSUME IInv, Normalize
    PROVE  IInv'
<1>1. /\ stage = "normalize" /\ stage' \in {"validate", "raised"}
      /\ UNCHANGED <<spec, sweep, native, failures>> /\ failures = <<>>
  BY DEF Normalize, IInv, RecordsFollow
<1>2. RunnersReport'
  BY <1>1 DEF RunnersReport, IInv
<1>3. row' \in [state : {"running", "validating"}, code : {""}, recovery : {""}]
  <2>1. row' = row \/ row' = [row EXCEPT !.state = "validating"]
    BY DEF Normalize
  <2>2. row \in [state : {"running", "validating"}, code : {""}, recovery : {""}]
    BY <1>1 DEF IInv, RecordsFollow
  <2>3. QED
    BY <2>1, <2>2
<1>4. AdaptersNormalize'
  <2>1. CASE native.status # "completed"
    BY <1>1, <2>1 DEF Normalize, AdaptersNormalize
  <2>2. CASE native.status = "completed" /\ stage' = "validate"
    <3>1. /\ spec.backend = "devsim" \/ ExportIsValid(native)
          /\ result' = [status |-> "completed", table |-> Canonical(native.table, native.unit)]
      BY <2>2 DEF Normalize
    <3>2. native.file = "table"
      BY <1>1, <2>2, <3>1 DEF IInv, RunnersReport, ExportIsValid
    <3>3. QED
      BY <1>1, <2>2, <3>1, <3>2 DEF AdaptersNormalize
  <2>3. CASE stage' = "raised"
    BY <2>3 DEF AdaptersNormalize
  <2>4. QED
    BY <1>1, <2>1, <2>2, <2>3
<1>5. RecordsFollow'
  BY <1>1, <1>3 DEF RecordsFollow
<1>6. QED
  BY <1>1, <1>2, <1>4, <1>5 DEF IInv, Stages

\* Every step keeps the invariant.
LEMMA NextInv == IInv /\ [Next]_vars => IInv'
<1> SUFFICES ASSUME IInv, [Next]_vars  PROVE IInv'
  OBVIOUS
<1>1. CASE Compile
  BY <1>1, SweepIsSequence
     DEF Compile, IInv, Stages, RunnersReport, AdaptersNormalize, RecordsFollow
<1>2. CASE RunDevsim \/ RunRemote
  BY <1>2, RunStep
<1>3. CASE Normalize
  BY <1>3, NormalizeStep
<1>4. CASE Validate
  BY <1>4 DEF Validate, IInv, Stages, RunnersReport, AdaptersNormalize, RecordsFollow
<1>5. CASE Bundle
  BY <1>5 DEF Bundle, IInv, Stages, RunnersReport, AdaptersNormalize, RecordsFollow
<1>6. CASE Conclude
  BY <1>6 DEF Conclude, IInv, Stages, RunnersReport, AdaptersNormalize, RecordsFollow
<1>7. CASE UNCHANGED vars
  BY <1>7 DEF vars, IInv, Stages, RunnersReport, AdaptersNormalize, RecordsFollow
<1>8. QED
  BY <1>1, <1>2, <1>3, <1>4, <1>5, <1>6, <1>7 DEF Next

----------------------------------------------------------------------------
(* The theorems *)

\* The inductive invariant holds in every reachable state.
THEOREM Invariance == Spec => []IInv
  BY InitInv, NextInv, PTL DEF Spec

\* The row, the manifest of the bundle and the classification agree, although the
\* classification checks the result again and in another way.
THEOREM AgreedVerdicts == Spec => []VerdictsAgree
<1>1. IInv => VerdictsAgree
  <2> SUFFICES ASSUME IInv, stage = "done"
               PROVE  /\ row.state \in {"completed", "failed"} /\ bundle = row.state
                      /\ row.state = "completed" => failures = <<>> /\ row.recovery = ""
                      /\ row.state = "failed" => row.code # ""
                      /\ result.status # "completed" =>
                            row.state = "failed" /\ failures # <<>>
    BY DEF VerdictsAgree
  <2>1. /\ result.status = native.status /\ native.status \in Statuses
        /\ failed = FailedChecks(result, spec, ExpectedBiasPoints(spec))
        /\ failures = Classify(result, spec)
        /\ bundle = IF native.status = "completed" /\ result.status = "completed" /\ failed = {}
                      THEN "completed" ELSE "failed"
        /\ row = [ state |-> IF failed = {} THEN "completed" ELSE "failed",
                   code |-> IF failed = {} THEN ""
                            ELSE IF failures = <<>> THEN "validation_failed" ELSE failures[1],
                   recovery |-> IF failures = <<>> THEN ""
                                ELSE Decide(failures[1], <<>>, 0) ]
    BY DEF IInv, RunnersReport, AdaptersNormalize, RecordsFollow
  <2>2. /\ row.state = IF failed = {} THEN "completed" ELSE "failed"
        /\ row.code = IF failed = {} THEN ""
                      ELSE IF failures = <<>> THEN "validation_failed" ELSE failures[1]
        /\ failures = <<>> => row.recovery = ""
    BY <2>1
  <2>3. failed = {} => result.status = "completed" /\ failures = <<>>
    BY <2>1, PassedChecks, PassedIsUnclassified
  <2>4. failures \in Seq(Kinds) /\ (result.status # "completed" => failures # <<>>)
    BY <2>1, ClassificationHasKinds
  <2>5. failures # <<>> => failures[1] # ""
    <3>1. failures # <<>> => failures[1] \in Kinds
      BY <2>4
    <3>2. QED
      BY <3>1 DEF Kinds
  <2>6. QED
    BY <2>1, <2>2, <2>3, <2>4, <2>5
<1>2. QED
  BY <1>1, Invariance, PTL

\* What a completed run comes from: a table of the simulator whose normalization passed.
LEMMA CompletedPassed ==
    ASSUME IInv, row.state = "completed"
    PROVE  /\ native.exit = "zero" /\ native.file = "table" /\ native.table \in Tables
           /\ result.table = Canonical(native.table, native.unit)
           /\ FailedChecks(result, spec, ExpectedBiasPoints(spec)) = {}
           /\ spec \in Specs /\ NaN \notin Numbers(native.table)
<1>1. stage = "done" /\ failed = {}
  <2>1. stage = "done"
    BY DEF IInv, RecordsFollow
  <2>2. row = [ state |-> IF failed = {} THEN "completed" ELSE "failed",
                code |-> IF failed = {} THEN ""
                         ELSE IF failures = <<>> THEN "validation_failed" ELSE failures[1],
                recovery |-> IF failures = <<>> THEN "" ELSE Decide(failures[1], <<>>, 0) ]
    BY <2>1 DEF IInv, RecordsFollow
  <2>3. row.state = IF failed = {} THEN "completed" ELSE "failed"
    BY <2>2
  <2>4. QED
    BY <2>1, <2>3
<1>2. FailedChecks(result, spec, ExpectedBiasPoints(spec)) = {}
  BY <1>1 DEF IInv, RecordsFollow
<1>3. result.status = "completed" /\ AllValuesFinite(result.table)
  BY <1>2, PassedChecks
<1>4. /\ native.exit = "zero" /\ native.file = "table" /\ native.table \in Tables
      /\ result.table = Canonical(native.table, native.unit)
  BY <1>1, <1>3 DEF IInv, RunnersReport, AdaptersNormalize
<1>5. NaN \notin Numbers(native.table)
  BY <1>3, <1>4, CanonicalHidesNothing
<1>6. QED
  BY <1>2, <1>4, <1>5 DEF IInv

\* So it is what was approved, in what its simulator wrote.
LEMMA CompletionIsWhole == IInv => CompletedIsWhole
<1> DEFINE t == native.table
           c == Canonical(native.table, native.unit)
<1> SUFFICES ASSUME IInv, row.state = "completed"
             PROVE  /\ native.exit = "zero" /\ native.file = "table" /\ t.version
                    /\ NaN \notin Numbers(t)
                    /\ t.points # <<>> /\ Len(t.points) = ExpectedBiasPoints(spec)
                    /\ \A p \in Range(t.points) : p.converged
                    /\ \A o \in spec.observables :
                          IF o = "terminal_current"
                            THEN \A p \in Range(t.points) : Len(p.currents) >= 2
                            ELSE o \in DOMAIN t.fields
                    /\ "electron_density" \in DOMAIN t.fields =>
                          \A v \in Range(t.fields["electron_density"].values) : v >= 0
  BY DEF CompletedIsWhole
<1>1. FailedChecks(result, spec, ExpectedBiasPoints(spec)) = {} /\ NaN \notin Numbers(t)
  BY CompletedPassed
<1>2. /\ native.exit = "zero" /\ native.file = "table" /\ t \in Tables /\ result.table = c
  BY CompletedPassed
<1> HIDE DEF t, c
<1>3. /\ AllValuesFinite(c) /\ c.version /\ c.points # <<>>
      /\ \A p \in Range(c.points) : p.converged
      /\ ExpectedBiasPoints(spec) # NaN => Len(c.points) = ExpectedBiasPoints(spec)
      /\ MissingObservables(spec, c) = {}
      /\ "electron_density" \in DOMAIN c.fields =>
            \A v \in Range(c.fields["electron_density"].values) : AtMost(0, v)
  BY <1>1, <1>2, PassedChecks
<1>4. /\ c.version = t.version /\ c.terminals = t.terminals /\ c.fields = t.fields
      /\ DOMAIN c.points = DOMAIN t.points /\ Len(c.points) = Len(t.points)
      /\ \A i \in DOMAIN t.points :
            /\ c.points[i].converged = t.points[i].converged
            /\ Len(c.points[i].currents) = Len(t.points[i].currents)
  BY <1>2, CanonicalKeeps DEF c, t
<1>5. Len(t.points) = ExpectedBiasPoints(spec)
  BY <1>3, <1>4, SweepIsSequence, ConstantsAssumption DEF IInv
<1>6. t.points # <<>>
  BY <1>2, <1>3, CanonicalKeeps DEF c, t
<1>7. \A i \in DOMAIN t.points : c.points[i] \in Range(c.points)
  BY <1>4 DEF Range
<1>8. \A p \in Range(t.points) : p.converged
  BY <1>3, <1>4, <1>7 DEF Range
<1>9. ASSUME NEW o \in spec.observables
       PROVE  IF o = "terminal_current"
                THEN \A p \in Range(t.points) : Len(p.currents) >= 2
                ELSE o \in DOMAIN t.fields
  <2>1. o \notin MissingObservables(spec, c)
    BY <1>3
  <2>2. CASE o = "terminal_current"
    <3>1. c.terminals # 0 /\ \A p \in Range(c.points) : ~ (Len(p.currents) < c.terminals)
      BY <2>1, <2>2 DEF MissingObservables
    <3>2. c.terminals = 2
      BY <1>2, <1>4, <3>1 DEF Tables
    <3>3. ASSUME NEW i \in DOMAIN t.points  PROVE Len(t.points[i].currents) >= 2
      <4>1. ~ (Len(c.points[i].currents) < 2)
        BY <1>7, <3>1, <3>2
      <4>2. t.points[i] \in Points
        BY <1>2 DEF Tables
      <4>3. Len(t.points[i].currents) \in Nat
        BY <4>2, NumbersAssumption DEF Points
      <4>4. QED
        BY <1>4, <4>1, <4>3
    <3>4. QED
      BY <2>2, <3>3 DEF Range
  <2>3. CASE o # "terminal_current"
    BY <1>4, <2>1, <2>3 DEF MissingObservables
  <2>4. QED
    BY <2>2, <2>3
<1>10. "electron_density" \in DOMAIN t.fields =>
          \A v \in Range(t.fields["electron_density"].values) : v >= 0
  BY <1>3, <1>4 DEF AtMost
<1>11. QED
  BY <1>1, <1>2, <1>3, <1>4, <1>5, <1>6, <1>8, <1>9, <1>10

\* A completed run is what was approved, in what its simulator wrote.
THEOREM WholeCompletion == Spec => []CompletedIsWhole
  BY CompletionIsWhole, Invariance, PTL

\* The unit of a run is the factor of its currents.
LEMMA RunsFactor ==
    Factor = UnitFactor(native.unit) /\ \A p : Residue(p) = ResidueIn(p, UnitFactor(native.unit))
  BY DEF Factor, UnitFactor, Residue, ResidueIn

\* A completed run is sound: where the validator compares sums and maxima of the currents per
\* m^2, the currents the simulator wrote cancel at the bias where they are furthest from it,
\* its biases rise, and an equilibrium carries nothing and shows the junction.
THEOREM SoundCompletion == Spec => []CompletedIsSound
<1>1. IInv => CompletedIsSound
  <2> DEFINE t == native.table
             c == Canonical(native.table, native.unit)
             factor == UnitFactor(native.unit)
             worst == {p \in Range(t.points) :
                         \A o \in Range(t.points) : Residue(o) <= Residue(p)}
             Fails(id) == id \in FailedChecks(result, spec, ExpectedBiasPoints(spec))
  <2> SUFFICES ASSUME IInv, row.state = "completed"
               PROVE  /\ \A i, j \in DOMAIN t.points :
                            i < j => t.points[i].bias <= t.points[j].bias
                      /\ \E p \in worst : \E x \in Range(p.currents) \cup {0} :
                            10000 * (Residue(p) - 1) <= Magnitude(x) * Factor
                      /\ spec.study = "equilibrium" =>
                            \A p \in Range(t.points) : \A x \in Range(p.currents) :
                                Magnitude(x) * Factor <= 1
                      /\ spec.study = "equilibrium" /\ spec.reference =>
                            /\ t.fields["potential"].unit = "V"
                            /\ \E a, b \in Range(t.fields["potential"].values) :
                                  a - b \in 63 .. 77
    BY CompletionIsWhole DEF CompletedIsSound
  <2>1. /\ t \in Tables /\ NaN \notin Numbers(t) /\ result.table = c
        /\ \A id : ~Fails(id)
    BY CompletedPassed
  <2>2. factor \in Factors /\ Factor = factor /\ \A p : Residue(p) = ResidueIn(p, factor)
    BY UnitIsFactor, RunsFactor
  <2>3. /\ t.points \in Seq(Points)
        /\ \A i \in DOMAIN t.points : t.points[i].bias \in Int
        /\ c.fields = t.fields /\ Len(c.points) = Len(t.points)
        /\ t.points # <<>>
        /\ \A i \in DOMAIN t.points : c.points[i].bias = t.points[i].bias
    <3>1. t.points # <<>>
      BY CompletionIsWhole DEF CompletedIsWhole
    <3>2. /\ t.points \in Seq(Points)
          /\ \A i \in DOMAIN t.points : t.points[i].bias \in Int
      BY <2>1, FiniteTable
    <3>3. /\ c.fields = t.fields /\ Len(c.points) = Len(t.points)
          /\ \A i \in DOMAIN t.points : c.points[i].bias = t.points[i].bias
      <4>1. t \in Tables /\ c = Canonical(t, native.unit)
        BY <2>1
      <4> HIDE DEF c, t
      <4>2. QED
        BY <4>1, CanonicalKeeps
    <3>4. QED
      BY <3>1, <3>2, <3>3
  <2>4. /\ ~ \E i \in 1 .. Len(c.points) - 1 : ~AtMost(c.points[i].bias, c.points[i + 1].bias)
        /\ AtMost(CurrentImbalance(c.points).imbalance, CurrentImbalance(c.points).limit)
        /\ spec.study = "equilibrium" =>
              /\ AllCurrents(c) # <<>>
              /\ AtMost(Largest(Magnitudes(AllCurrents(c)), 0), CurrentAtol)
              /\ ~BuiltInPotentialFails(spec, c)
    BY <2>1, ChecksFail
  <2>5. \A i, j \in DOMAIN t.points : i < j => t.points[i].bias <= t.points[j].bias
    <3> DEFINE n == Len(t.points)
               b == [i \in 1 .. n |-> t.points[i].bias]
    <3>1. n \in Nat /\ DOMAIN t.points = 1 .. n
      BY <2>3
    <3>2. \A i \in 1 .. n - 1 : AtMost(c.points[i].bias, c.points[i + 1].bias)
      BY <2>3, <2>4
    <3> HIDE DEF n, t, c
    <3>3. \A i \in 1 .. n : b[i] = t.points[i].bias /\ b[i] \in Int /\ b[i] = c.points[i].bias
      BY <2>3, <3>1
    <3>4. \A i \in 1 .. n - 1 : i \in 1 .. n /\ i + 1 \in 1 .. n
      BY <3>1
    <3>5. \A i \in 1 .. n - 1 : b[i] <= b[i + 1]
      BY <3>2, <3>3, <3>4 DEF AtMost
    <3> HIDE DEF b
    <3>6. \A i, j \in 1 .. n : i < j => b[i] <= b[j]
      BY <3>1, <3>3, <3>5, InOrder
    <3>7. QED
      BY <3>1, <3>3, <3>6
  <2>6. \E p \in worst : \E x \in Range(p.currents) \cup {0} :
           10000 * (Residue(p) - 1) <= Magnitude(x) * Factor
    <3> DEFINE found == CurrentImbalance(c.points)
    <3>1. Decides(found, t, factor)
      BY <2>1, <2>3, WorstPoint
    <3>2. AtMost(found.imbalance, found.limit)
      BY <2>4
    <3> HIDE DEF found, t, c, factor
    <3>3. PICK p \in Range(t.points) :
             /\ \A o \in Range(t.points) : ResidueIn(o, factor) <= ResidueIn(p, factor)
             /\ found.imbalance \in Nat /\ found.imbalance = ResidueIn(p, factor)
             /\ Tolerates(p, factor, found.limit)
      BY <3>1 DEF Decides
    <3>4. p \in worst
      BY <2>2, <3>3
    <3>5. PICK x \in Range(p.currents) \cup {0} :
             10000 * (found.limit - 1) <= Magnitude(x) * factor
      BY <3>3 DEF Tolerates
    <3>6. x \in Int
      BY <2>1, <3>3, <3>5, CurrentsAreNumbers
    <3>7. Magnitude(x) * factor \in Nat
      BY <2>2, <3>6, ScaledMagnitude
    <3> DEFINE m == Magnitude(x) * factor
    <3>8. Residue(p) \in Nat /\ found.limit \in Nat /\ Residue(p) <= found.limit
      BY <2>2, <3>2, <3>3 DEF AtMost, Tolerates
    <3>9. 10000 * (Residue(p) - 1) <= m
      <4>1. m \in Nat /\ 10000 * (found.limit - 1) <= m
        BY <3>5, <3>7
      <4> HIDE DEF m
      <4>2. QED
        BY <3>8, <4>1
    <3>10. QED
      BY <2>2, <3>4, <3>9
  <2>7. ASSUME spec.study = "equilibrium"
        PROVE  \A p \in Range(t.points) : \A x \in Range(p.currents) : Magnitude(x) * Factor <= 1
    <3> DEFINE largest == Largest(Magnitudes(AllCurrents(c)), 0)
    <3>1. largest \in Nat /\ Carries(largest, t, factor)
      BY <2>1, <2>4, <2>7, EquilibriumCurrents
    <3>2. largest <= 1
      BY <2>4, <2>7 DEF AtMost, CurrentAtol
    <3> HIDE DEF largest, t, factor
    <3>3. ASSUME NEW i \in DOMAIN t.points, NEW x \in Range(t.points[i].currents)
          PROVE  Magnitude(x) * factor <= 1
      <4>1. Magnitude(x) * factor <= largest
        BY <3>1 DEF Carries
      <4>2. x \in Int
        BY <2>1, CurrentsAreNumbers, RangeIs
      <4>3. Magnitude(x) * factor \in Nat
        BY <2>2, <4>2, ScaledMagnitude
      <4>4. QED
        BY <3>1, <3>2, <4>1, <4>3
    <3>4. \A p \in Range(t.points) : \E i \in DOMAIN t.points : p = t.points[i]
      BY RangeIs
    <3>5. QED
      BY <2>2, <3>3, <3>4
  <2>8. ASSUME spec.study = "equilibrium", spec.reference
        PROVE  /\ t.fields["potential"].unit = "V"
               /\ \E a, b \in Range(t.fields["potential"].values) : a - b \in 63 .. 77
    <3> DEFINE v == t.fields["potential"].values
    <3>1. /\ "potential" \in DOMAIN t.fields /\ t.fields["potential"].unit = "V"
          /\ v # <<>>
          /\ IsClose(Largest(v, 0) + Largest([i \in DOMAIN v |-> -v[i]], 0), ReferencePotential)
      BY <2>3, <2>4, <2>8 DEF BuiltInPotentialFails
    <3>2. v \in Seq(Int)
      BY <2>1, <3>1, FiniteTable
    <3> HIDE DEF v
    <3>3. \E a, b \in Range(v) : a - b \in 63 .. 77
      BY <3>1, <3>2, JunctionShows
    <3>4. QED
      BY <3>1, <3>3 DEF v
  <2>9. QED
    BY <2>5, <2>6, <2>7, <2>8
<1>2. QED
  BY <1>1, Invariance, PTL

\* What is left of the currents where conservation fails is more than the tolerance of none.
LEMMA ConservationIsFounded ==
    ASSUME NEW t \in Tables, NaN \notin Numbers(t), t.points # <<>>, NEW unit,
           LET worst == CurrentImbalance(Canonical(t, unit).points)
           IN  ~AtMost(worst.imbalance, worst.limit)
    PROVE  \E p \in Range(t.points) : ResidueIn(p, UnitFactor(unit)) > 1
<1> DEFINE worst == CurrentImbalance(Canonical(t, unit).points)
           factor == UnitFactor(unit)
<1>1. Decides(worst, t, factor)
  BY WorstPoint
<1>2. ~AtMost(worst.imbalance, worst.limit)
  OBVIOUS
<1> HIDE DEF worst, factor
<1>3. PICK p \in Range(t.points) :
         /\ worst.imbalance \in Nat /\ worst.imbalance = ResidueIn(p, factor)
         /\ worst.limit \in Nat /\ worst.limit >= 1
  BY <1>1 DEF Decides, Tolerates
<1>4. ResidueIn(p, factor) > 1
  BY <1>2, <1>3, ConstantsAssumption DEF AtMost
<1>5. QED
  BY <1>4 DEF factor

\* An equilibrium that fails its check carries a current, or none was computed.
LEMMA EquilibriumIsFounded ==
    ASSUME NEW t \in Tables, NaN \notin Numbers(t), NEW unit,
           LET all == AllCurrents(Canonical(t, unit))
           IN  all = <<>> \/ ~AtMost(Largest(Magnitudes(all), 0), CurrentAtol)
    PROVE  \/ \A p \in Range(t.points) : p.currents = <<>>
           \/ \E p \in Range(t.points) : \E x \in Range(p.currents) :
                 Magnitude(x) * UnitFactor(unit) > 1
<1> DEFINE all == AllCurrents(Canonical(t, unit))
           factor == UnitFactor(unit)
           largest == Largest(Magnitudes(all), 0)
<1>1. /\ all = <<>> => \A i \in DOMAIN t.points : t.points[i].currents = <<>>
      /\ all # <<>> => largest \in Nat /\ Carries(largest, t, factor)
  BY EquilibriumCurrents
<1>2. all = <<>> \/ ~AtMost(largest, CurrentAtol)
  OBVIOUS
<1> HIDE DEF all, factor, largest
<1>3. \A p : p \in Range(t.points) <=> \E i \in DOMAIN t.points : p = t.points[i]
  BY RangeIs
<1>4. CASE all = <<>>
  BY <1>1, <1>3, <1>4
<1>5. CASE all # <<>>
  <2>1. largest \in Nat /\ largest > 1
    BY <1>1, <1>2, <1>5, ConstantsAssumption DEF AtMost, CurrentAtol
  <2>2. PICK i \in DOMAIN t.points :
           \E x \in Range(t.points[i].currents) : largest = Magnitude(x) * factor
    BY <1>1, <1>5 DEF Carries
  <2>3. PICK x \in Range(t.points[i].currents) : largest = Magnitude(x) * factor
    BY <2>2
  <2>4. Magnitude(x) * factor > 1
    BY <2>1, <2>3
  <2>5. QED
    BY <1>3, <2>4 DEF factor
<1>6. QED
  BY <1>4, <1>5

\* The code a user reads of a failed run, and the kind its recovery is decided for, is founded
\* on what the simulator did, although it is classified after a change of unit.
THEOREM FoundedFailures == Spec => []FailuresAreFounded
<1>1. IInv => FailuresAreFounded
  <2> DEFINE t == native.table
             c == Canonical(native.table, native.unit)
             factor == UnitFactor(native.unit)
             Sane == \/ /\ spec.study = "equilibrium"
                        /\ \/ BuiltInPotentialFails(spec, t)
                           \/ \A p \in Range(t.points) : p.currents = <<>>
                           \/ \E p \in Range(t.points) : \E x \in Range(p.currents) :
                                 Magnitude(x) * Factor > 1
                     \/ /\ "electron_density" \in DOMAIN t.fields
                        /\ \E v \in Range(t.fields["electron_density"].values) : v < 0
             Founded(kind) ==
                CASE kind = "execution" -> native.exit = "nonzero"
                  [] kind = "timeout" -> native.exit = "timeout"
                  [] kind = "non_convergence" -> \E p \in Range(t.points) : ~p.converged
                  [] kind = "nonfinite_result" -> NaN \in Numbers(t)
                  [] kind = "conservation" ->
                        t.points = <<>> \/ \E p \in Range(t.points) : Residue(p) > 1
                  [] kind = "malformed_output" ->
                        native.file # "table" \/ MissingObservables(spec, t) # {}
                  [] kind = "physical_sanity" -> NaN \notin Numbers(t) /\ Sane
  <2> SUFFICES ASSUME IInv, NEW i \in DOMAIN failures  PROVE Founded(failures[i])
    BY DEF FailuresAreFounded
  <2> DEFINE k == failures[i]
  <2>1. /\ failures = Classify(result, spec) /\ result.status = native.status
        /\ native.status \in Statuses
        /\ native.status = "execution_failed" => native.exit = "nonzero"
        /\ native.status = "timed_out" => native.exit = "timeout"
        /\ native.status = "malformed_result" => native.file # "table"
        /\ native.status = "completed" => t \in Tables /\ result.table = c
    <3>1. failures # <<>>
      OBVIOUS
    <3>2. stage \in {"bundle", "conclude", "done"}
      BY <3>1 DEF IInv, RecordsFollow
    <3>3. QED
      BY <3>2 DEF IInv, RecordsFollow, AdaptersNormalize, RunnersReport
  <2>2. Says(k, result, spec)
    <3>1. k \in Range(failures)
      BY DEF Range
    <3>2. QED
      BY <2>1, <3>1, ClassificationSays
  <2>3. factor \in Factors /\ Factor = factor /\ \A p : Residue(p) = ResidueIn(p, factor)
    BY UnitIsFactor, RunsFactor
  <2>4. CASE result.status # "completed"
    <3>1. \/ k = "execution" /\ result.status = "execution_failed"
          \/ k = "timeout" /\ result.status = "timed_out"
          \/ k = "malformed_output" /\ result.status = "malformed_result"
      BY <2>2, <2>4 DEF Says
    <3> HIDE DEF k, t, Sane
    <3>2. Founded(k)
      BY <2>1, <3>1
    <3>3. QED
      BY <3>2 DEF k
  <2>5. CASE result.status = "completed" /\ ~AllValuesFinite(c)
    <3>1. \/ k = "non_convergence" /\ \E p \in Range(c.points) : ~p.converged
          \/ k = "nonfinite_result"
      BY <2>1, <2>2, <2>5 DEF Says
    <3>2. NaN \in Numbers(t) /\ t \in Tables
      BY <2>1, <2>5, CanonicalHidesNothing
    <3>3. (\E p \in Range(c.points) : ~p.converged) => \E p \in Range(t.points) : ~p.converged
      BY <3>2, CanonicalMisses
    <3> HIDE DEF k, t, c, Sane
    <3>4. Founded(k)
      BY <3>1, <3>2, <3>3
    <3>5. QED
      BY <3>4 DEF k
  <2>6. CASE result.status = "completed" /\ AllValuesFinite(c)
    <3> DEFINE Fails(id) == id \in FailedChecks(result, spec, NaN)
    <3>1. \/ k = "non_convergence" /\ \E p \in Range(c.points) : ~p.converged
          \/ k = "conservation" /\ Fails("terminal-current-conservation")
          \/ k = "physical_sanity" /\ Fails("nonnegative-carrier-density")
          \/ k = "physical_sanity" /\ Fails("equilibrium-terminal-current")
          \/ k = "physical_sanity" /\ Fails("built-in-potential-reference")
          \/ k = "malformed_output" /\ Fails("requested-observables-present")
      BY <2>1, <2>2, <2>6 DEF Says
    <3>2. t \in Tables /\ NaN \notin Numbers(t) /\ result.table = c
      BY <2>1, <2>6, CanonicalHidesNothing
    <3>3. /\ MissingObservables(spec, c) = MissingObservables(spec, t)
          /\ (\E p \in Range(c.points) : ~p.converged) => \E p \in Range(t.points) : ~p.converged
      BY <3>2, CanonicalMisses
    <3>4. c.fields = t.fields /\ (c.points = <<>> => t.points = <<>>)
      <4>1. c.fields = t.fields /\ Len(c.points) = Len(t.points) /\ t.points \in Seq(Points)
        BY <3>2, CanonicalKeeps DEF Tables
      <4>2. Len(<<>>) = 0
        OBVIOUS
      <4>3. QED
        BY <4>1, <4>2
    <3> HIDE DEF k
    <3>5. CASE k = "non_convergence" /\ \E p \in Range(c.points) : ~p.converged
      BY <3>3, <3>5 DEF k
    <3>6. CASE k = "conservation" /\ Fails("terminal-current-conservation")
      <4>1. \/ c.points = <<>>
            \/ ~AtMost(CurrentImbalance(c.points).imbalance, CurrentImbalance(c.points).limit)
        BY <3>2, <3>6, ChecksFail
      <4>2. t.points # <<>> => \E p \in Range(t.points) : ResidueIn(p, factor) > 1
        BY <3>2, <3>4, <4>1, ConservationIsFounded
      <4>3. t.points = <<>> \/ \E p \in Range(t.points) : Residue(p) > 1
        BY <2>3, <4>2
      <4> HIDE DEF t, Sane
      <4>4. QED
        BY <3>6, <4>3 DEF k
    <3>7. CASE k = "physical_sanity" /\ Fails("nonnegative-carrier-density")
      <4> DEFINE v == t.fields["electron_density"].values
      <4>1. /\ "electron_density" \in DOMAIN t.fields
            /\ \E x \in Range(v) : ~AtMost(0, x)
        BY <3>2, <3>4, <3>7, ChecksFail
      <4>2. v \in Seq(Int)
        BY <3>2, <4>1, FiniteTable
      <4>3. \E x \in Range(v) : x < 0
        <5> HIDE DEF v
        <5>1. \A x \in Range(v) : x \in Int
          BY <4>2 DEF Range
        <5>2. QED
          BY <4>1, <5>1, ConstantsAssumption DEF AtMost
      <4>4. NaN \notin Numbers(t) /\ Sane
        BY <3>2, <4>1, <4>3
      <4> HIDE DEF t, Sane
      <4>5. QED
        BY <3>7, <4>4 DEF k
    <3>8. CASE k = "physical_sanity" /\ Fails("equilibrium-terminal-current")
      <4>1. /\ spec.study = "equilibrium"
            /\ \/ AllCurrents(c) = <<>>
               \/ ~AtMost(Largest(Magnitudes(AllCurrents(c)), 0), CurrentAtol)
        BY <3>2, <3>8, ChecksFail
      <4>2. \/ \A p \in Range(t.points) : p.currents = <<>>
            \/ \E p \in Range(t.points) : \E x \in Range(p.currents) : Magnitude(x) * factor > 1
        BY <3>2, <4>1, EquilibriumIsFounded
      <4>3. NaN \notin Numbers(t) /\ Sane
        BY <2>3, <3>2, <4>1, <4>2
      <4> HIDE DEF t, Sane
      <4>4. QED
        BY <3>8, <4>3 DEF k
    <3>9. CASE k = "physical_sanity" /\ Fails("built-in-potential-reference")
      <4>1. spec.study = "equilibrium" /\ BuiltInPotentialFails(spec, c)
        BY <3>2, <3>9, ChecksFail
      <4>2. BuiltInPotentialFails(spec, t)
        BY <3>4, <4>1 DEF BuiltInPotentialFails
      <4>3. NaN \notin Numbers(t) /\ Sane
        BY <3>2, <4>1, <4>2
      <4> HIDE DEF t, Sane
      <4>4. QED
        BY <3>9, <4>3 DEF k
    <3>10. CASE k = "malformed_output" /\ Fails("requested-observables-present")
      <4>1. MissingObservables(spec, c) # {}
        BY <3>2, <3>10, ChecksFail
      <4>2. MissingObservables(spec, t) # {}
        BY <3>3, <4>1
      <4> HIDE DEF t, Sane
      <4>3. QED
        BY <3>10, <4>2 DEF k
    <3>11. QED
      BY <3>1, <3>5, <3>6, <3>7, <3>8, <3>9, <3>10
  <2>7. QED
    BY <2>4, <2>5, <2>6
<1>2. QED
  BY <1>1, Invariance, PTL
=============================================================================
