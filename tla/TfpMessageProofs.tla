-------------------------- MODULE TfpMessageProofs --------------------------
(***************************************************************************)
(* Proofs about TfpMessage, for roads and loops of any length, rows of any *)
(* number and any shape of a location.                                     *)
(***************************************************************************)
EXTENDS TfpMessage, FiniteSetTheorems, SequenceTheorems, NaturalsInduction, WellFoundedInduction, TLAPS

-----------------------------------------------------------------------------
(* Numbers.                                                                *)

(* A set of numbers that is not empty has a least one. *)
LEMMA LeastNumber ==
    ASSUME NEW T \in SUBSET Nat, T # {}
    PROVE  \E x \in T : \A y \in T : x <= y
<1> DEFINE R == OpToRel(<, Nat)
<1>1. IsWellFoundedOn(R, Nat)
  BY NatLessThanWellFounded
<1>2. \A x, y \in Nat : <<y, x>> \in R <=> y < x
  BY DEF OpToRel
<1> HIDE DEF R
<1>3. PICK x \in T : \A y \in T : ~(<<y, x>> \in R)
  BY <1>1, WFMin
<1>4. ASSUME NEW y \in T
      PROVE  x <= y
  <2>1. x \in Nat /\ y \in Nat /\ ~(<<y, x>> \in R)
    BY <1>3
  <2>2. ~(y < x)
    BY <1>2, <2>1
  <2>3. QED
    BY <2>1, <2>2
<1>5. QED
  BY <1>4

(* Induction, over a set. *)
LEMMA AllNumbers ==
    ASSUME NEW T \in SUBSET Nat, 0 \in T, \A n \in T : n + 1 \in T
    PROVE  T = Nat
<1>1. SUFFICES ASSUME Nat \ T # {}
               PROVE  FALSE
  OBVIOUS
<1>2. PICK n \in Nat \ T : \A k \in Nat \ T : n <= k
  BY <1>1, LeastNumber
<1>3. n - 1 \in Nat /\ n - 1 \notin Nat \ T
  BY <1>2
<1>4. (n - 1) + 1 \in T /\ (n - 1) + 1 = n
  BY <1>3
<1>5. QED
  BY <1>4

(* Ascending lists each number of a set once. *)
Ascends(s) == \A i, k \in DOMAIN s : i < k => s[i] < s[k]

LEMMA Sorts ==
    ASSUME NEW b \in Nat
    PROVE  \A S \in SUBSET (1..b) :
              /\ IsFiniteSet(S) /\ Cardinality(S) \in Nat
              /\ \E s \in [1..Cardinality(S) -> S] : Ascends(s)
<1> DEFINE Sorted(S) == /\ IsFiniteSet(S) /\ Cardinality(S) \in Nat
                        /\ \E s \in [1..Cardinality(S) -> S] : Ascends(s)
           T == {n \in Nat : \A S \in SUBSET (1..n) : Sorted(S)}
<1>1. 0 \in T
  <2>1. \A S \in SUBSET (1..0) : S = {}
    OBVIOUS
  <2>2. IsFiniteSet({}) /\ Cardinality({}) = 0
    BY FS_EmptySet
  <2> DEFINE f == [i \in 1..0 |-> i]
  <2>3. f \in [1..0 -> {}] /\ Ascends(f)
    BY DEF Ascends
  <2> HIDE DEF f
  <2>4. Sorted({})
    <3>1. 1..Cardinality({}) = 1..0 /\ Cardinality({}) \in Nat
      BY <2>2
    <3>2. f \in [1..Cardinality({}) -> {}]
      BY <2>3, <3>1, Zenon
    <3>3. QED
      BY <2>2, <2>3, <3>1, <3>2, Zenon
  <2>5. QED
    BY <2>1, <2>4
<1>2. ASSUME NEW n \in T
      PROVE  n + 1 \in T
  <2>1. n \in Nat /\ \A S \in SUBSET (1..n) : Sorted(S)
    OBVIOUS
  <2>2. ASSUME NEW S \in SUBSET (1..n + 1)
        PROVE  Sorted(S)
    <3>1. CASE n + 1 \notin S
      <4>1. S \in SUBSET (1..n)
        BY <2>1, <3>1
      <4>2. QED
        BY <2>1, <4>1, Zenon
    <3>2. CASE n + 1 \in S
      <4> DEFINE V == S \ {n + 1}
      <4>1. V \in SUBSET (1..n)
        BY <2>1
      <4>2. /\ IsFiniteSet(V) /\ Cardinality(V) \in Nat
            /\ \E s \in [1..Cardinality(V) -> V] : Ascends(s)
        BY <2>1, <4>1, Zenon
      <4>3. PICK s \in [1..Cardinality(V) -> V] : Ascends(s)
        BY <4>2
      <4>4. S = V \union {n + 1} /\ n + 1 \notin V
        BY <3>2
      <4> HIDE DEF V
      <4>5. IsFiniteSet(S) /\ Cardinality(S) = Cardinality(V) + 1
        <5>1. IsFiniteSet(V \union {n + 1}) /\ Cardinality(V \union {n + 1}) = Cardinality(V) + 1
          BY <4>2, <4>4, FS_AddElement
        <5>2. QED
          BY <4>4, <5>1, Zenon
      <4> DEFINE c == Cardinality(V)
                 t == [i \in 1..c + 1 |-> IF i = c + 1 THEN n + 1 ELSE s[i]]
      <4>6. \A i \in 1..c + 1 : i # c + 1 => i \in 1..c
        BY <4>2
      <4>7. t \in [1..c + 1 -> S]
        BY <4>3, <4>4, <4>6
      <4>8. Ascends(t)
        <5>1. SUFFICES ASSUME NEW i \in 1..c + 1, NEW k \in 1..c + 1, i < k
                       PROVE  t[i] < t[k]
          BY DEF Ascends
        <5>2. i \in 1..c /\ t[i] = s[i] /\ s[i] \in 1..n
          <6>1. i # c + 1
            BY <4>2, <5>1
          <6>2. i \in 1..c /\ t[i] = s[i]
            BY <4>6, <6>1
          <6>3. s[i] \in V
            BY <4>3, <6>2
          <6>4. QED
            BY <4>1, <6>2, <6>3
        <5>3. CASE k = c + 1
          BY <2>1, <5>2, <5>3
        <5>4. CASE k # c + 1
          <6>1. k \in 1..c /\ t[k] = s[k]
            BY <4>6, <5>4
          <6>2. QED
            BY <4>3, <5>1, <5>2, <6>1 DEF Ascends
        <5>5. QED
          BY <5>3, <5>4
      <4> HIDE DEF t
      <4>9. \E u \in [1..Cardinality(S) -> S] : Ascends(u)
        BY <4>5, <4>7, <4>8
      <4>10. QED
        BY <4>2, <4>5, <4>9
    <3>3. QED
      BY <3>1, <3>2
  <2>3. QED
    BY <2>1, <2>2
<1> HIDE DEF T
<1>3. T \in SUBSET Nat
  BY DEF T
<1>4. T = Nat
  BY <1>1, <1>2, <1>3, AllNumbers
<1>5. b \in T
  BY <1>4
<1>6. QED
  BY <1>5 DEF T

LEMMA AscendingList ==
    ASSUME NEW b \in Nat, NEW S \in SUBSET (1..b)
    PROVE  /\ Ascending(S) \in Seq(S) /\ Len(Ascending(S)) = Cardinality(S)
           /\ Ascends(Ascending(S))
           /\ \A x \in S : \E i \in DOMAIN Ascending(S) : Ascending(S)[i] = x
           /\ S # {} => Len(Ascending(S)) \in Nat \ {0}
<1> DEFINE s == Ascending(S)
           c == Cardinality(S)
<1>1. /\ IsFiniteSet(S) /\ c \in Nat
      /\ \E t \in [1..c -> S] : Ascends(t)
  BY Sorts
<1>2. s = CHOOSE t \in [1..c -> S] : Ascends(t)
  BY DEF Ascending, Ascends
<1> HIDE DEF s
<1>3. s \in [1..c -> S] /\ Ascends(s)
  BY <1>1, <1>2
<1>4. s \in Seq(S) /\ Len(s) = c
  BY <1>1, <1>3, SeqDef
<1>5. s \in Injection(1..c, S)
  <2>1. SUFFICES ASSUME NEW i \in 1..c, NEW k \in 1..c, s[i] = s[k]
                 PROVE  i = k
    BY <1>3 DEF Injection, IsInjective
  <2>2. s[i] \in 1..b /\ s[k] \in 1..b
    BY <1>3
  <2>3. ~(i < k) /\ ~(k < i)
    BY <1>3, <2>1, <2>2 DEF Ascends
  <2>4. QED
    BY <2>3
<1>6. IsFiniteSet(1..c) /\ Cardinality(1..c) = c
  BY <1>1, FS_Interval
<1>7. s \in Surjection(1..c, S)
  BY <1>1, <1>5, <1>6, FS_Injection
<1>8. \A x \in S : \E i \in DOMAIN s : s[i] = x
  BY <1>3, <1>7 DEF Surjection
<1>9. S # {} => c # 0
  BY <1>1, FS_EmptySet
<1>10. QED
  BY <1>1, <1>3, <1>4, <1>8, <1>9 DEF s

-----------------------------------------------------------------------------
(* Lines, and lengths.                                                     *)

LEMMA UntilStops ==
    ASSUME NEW line \in Seq(Nat), NEW limit \in Nat
    PROVE  /\ Until(line, limit) \in 0..Len(line)
           /\ \A i \in 1..Until(line, limit) : line[i] <= limit
           /\ Until(line, limit) < Len(line) => line[Until(line, limit) + 1] > limit
<1> DEFINE Stop(n) == /\ \A i \in 1..n : line[i] <= limit
                      /\ n < Len(line) => line[n + 1] > limit
           T == {i \in 1..Len(line) : line[i] > limit}
<1>1. Len(line) \in Nat /\ \A i \in 1..Len(line) : line[i] \in Nat
  BY LenProperties
<1>2. CASE T = {}
  <2>1. Len(line) \in 0..Len(line) /\ Stop(Len(line))
    BY <1>1, <1>2
  <2>2. QED
    BY <2>1 DEF Until
<1>3. CASE T # {}
  <2>1. T \in SUBSET Nat
    BY <1>1
  <2>2. PICK n \in T : \A i \in T : n <= i
    BY <1>3, <2>1, LeastNumber
  <2>3. n - 1 \in 0..Len(line) /\ Stop(n - 1)
    <3>1. \A i \in 1..n - 1 : i \in 1..Len(line) /\ ~(n <= i)
      BY <1>1, <2>2
    <3>2. \A i \in 1..n - 1 : line[i] <= limit
      BY <1>1, <2>2, <3>1
    <3>3. QED
      BY <1>1, <2>2, <3>2
  <2>4. QED
    BY <2>3 DEF Until
<1>4. QED
  BY <1>2, <1>3

LEMMA BeyondStops ==
    ASSUME NEW line \in Seq(Nat), NEW distance \in Nat
    PROVE  /\ Beyond(line, distance) \in 0..Len(line)
           /\ \A i \in Beyond(line, distance) + 1..Len(line) : Last(line) - line[i] <= distance
           /\ Beyond(line, distance) > 0 => Last(line) - line[Beyond(line, distance)] > distance
           /\ line # <<>> => Beyond(line, distance) < Len(line)
<1> DEFINE Near(i) == Last(line) - line[i] <= distance
           T == {n \in 0..Len(line) : \A i \in n + 1..Len(line) : Near(i)}
<1>1. Len(line) \in Nat /\ \A i \in 1..Len(line) : line[i] \in Nat
  BY LenProperties
<1>2. Len(line) \in T
  BY <1>1
<1>3. T \in SUBSET Nat /\ T # {}
  BY <1>1, <1>2
<1>4. PICK n \in T : \A k \in T : n <= k
  BY <1>3, LeastNumber
<1>5. n \in 0..Len(line) /\ (\A i \in n + 1..Len(line) : Near(i)) /\ n - 1 \notin T
  <2>1. n \in 0..Len(line) /\ \A i \in n + 1..Len(line) : Near(i)
    OBVIOUS
  <2>2. n - 1 \notin T
    <3> HIDE DEF T
    <3>1. n \in Nat
      BY <1>3
    <3>2. QED
      BY <1>4, <3>1
  <2>3. QED
    BY <2>1, <2>2
<1>6. n > 0 => Last(line) - line[n] > distance
  <2>1. SUFFICES ASSUME n > 0, Near(n)
                 PROVE  FALSE
    BY <1>1, <1>5 DEF Last
  <2>2. \A i \in (n - 1) + 1..Len(line) : i = n \/ i \in n + 1..Len(line)
    BY <1>1, <1>5
  <2>3. \A i \in (n - 1) + 1..Len(line) : Near(i)
    BY <1>5, <2>1, <2>2
  <2>4. n - 1 \in 0..Len(line)
    BY <1>1, <1>5, <2>1
  <2>5. QED
    BY <1>5, <2>3, <2>4
<1>7. \E m \in 0..Len(line) : /\ \A i \in m + 1..Len(line) : Last(line) - line[i] <= distance
                              /\ m > 0 => Last(line) - line[m] > distance
  BY <1>5, <1>6
<1>8. /\ Beyond(line, distance) \in 0..Len(line)
      /\ \A i \in Beyond(line, distance) + 1..Len(line) : Last(line) - line[i] <= distance
      /\ Beyond(line, distance) > 0 => Last(line) - line[Beyond(line, distance)] > distance
  BY <1>7 DEF Beyond
<1>9. line # <<>> => Beyond(line, distance) < Len(line)
  <2>1. SUFFICES ASSUME line # <<>>, Beyond(line, distance) = Len(line)
                 PROVE  FALSE
    BY <1>1, <1>8
  <2>2. Len(line) > 0 /\ Last(line) = line[Len(line)] /\ line[Len(line)] \in Nat
    BY <1>1, <2>1, EmptySeq DEF Last
  <2>3. QED
    BY <1>8, <2>1, <2>2
<1>10. QED
  BY <1>8, <1>9

(* The distances to the end are numbers: the definition has a solution. *)
LEMMA ToEndTyped ==
    ASSUME NEW rows, Len(rows) \in Nat, DOMAIN rows = 1..Len(rows),
           \A i \in 1..Len(rows) : rows[i].length \in Nat
    PROVE  \A i \in 1..Len(rows) : ToEnd(rows)[i] \in Nat
<1> DEFINE n == Len(rows)
           Value(f, i) == IF i = n THEN rows[i].length ELSE rows[i].length + f[i + 1]
           Solves(f) == f = [i \in DOMAIN rows |-> Value(f, i)]
           Part(m) == \E f \in [n - m + 1..n -> Nat] : \A i \in n - m + 1..n : f[i] = Value(f, i)
           T == {m \in Nat : m <= n => Part(m)}
<1>1. ToEnd(rows) = CHOOSE f : Solves(f)
  BY DEF ToEnd
<1>0. n \in Nat /\ DOMAIN rows = 1..n /\ \A i \in 1..n : rows[i].length \in Nat
  OBVIOUS
<1> HIDE DEF n
<1>2. Part(0)
  <2> DEFINE f == [i \in n - 0 + 1..n |-> 0]
  <2>1. \A i \in n - 0 + 1..n : FALSE
    BY <1>0
  <2>2. f \in [n - 0 + 1..n -> Nat]
    OBVIOUS
  <2> HIDE DEF f
  <2>3. QED
    BY <2>1, <2>2
<1>3. ASSUME NEW m \in Nat, m + 1 <= n, Part(m)
      PROVE  Part(m + 1)
  <2>2. PICK f \in [n - m + 1..n -> Nat] : \A i \in n - m + 1..n : f[i] = Value(f, i)
    BY <1>3
  <2> DEFINE b == n - m
             g == [i \in b..n |-> IF i = b THEN Value(f, i) ELSE f[i]]
  <2>3. b \in 1..n /\ n - (m + 1) + 1 = b /\ n - m + 1 = b + 1
    BY <1>0, <1>3
  <2> HIDE DEF b
  <2>4. \A i \in b..n : i # b => i \in b + 1..n
    BY <1>0, <2>3
  <2>5. \A i \in b..n : g[i] \in Nat
    <3>1. Value(f, b) \in Nat
      <4>1. b # n => b + 1 \in b + 1..n
        BY <1>0, <2>3
      <4>2. b # n => f[b + 1] \in Nat
        BY <2>2, <2>3, <4>1
      <4>3. QED
        BY <1>0, <2>3, <4>2
    <3>2. QED
      BY <2>2, <2>3, <2>4, <3>1
  <2>6. \A i \in b..n : g[i] = Value(g, i)
    <3>1. \A i \in b..n : i # n => i + 1 \in b..n /\ i + 1 # b /\ g[i + 1] = f[i + 1]
      BY <1>0, <2>3
    <3>2. \A i \in b..n : g[i] = Value(f, i)
      BY <2>2, <2>3, <2>4
    <3>3. QED
      BY <3>1, <3>2
  <2>7. g \in [b..n -> Nat]
    BY <2>5
  <2> HIDE DEF g
  <2>8. QED
    BY <2>3, <2>6, <2>7
<1> HIDE DEF Part
<1>4. T \in SUBSET Nat
  BY DEF T
<1>5. T = Nat
  <2>1. 0 \in T
    BY <1>2
  <2>2. ASSUME NEW m \in T
        PROVE  m + 1 \in T
    BY <1>0, <1>3
  <2> HIDE DEF T
  <2>3. QED
    BY <1>4, <2>1, <2>2, AllNumbers
<1>6. PICK f \in [1..n -> Nat] : \A i \in 1..n : f[i] = Value(f, i)
  <2>1. n \in T /\ n <= n /\ n - n + 1 = 1
    BY <1>0, <1>5
  <2>2. Part(n)
    BY <2>1
  <2>3. QED
    BY <2>1, <2>2 DEF Part
<1>7. Solves(f)
  BY <1>0, <1>6
<1> HIDE DEF Solves
<1>8. Solves(ToEnd(rows))
  BY <1>1, <1>7
<1> DEFINE e == ToEnd(rows)
<1>9. e = [i \in 1..n |-> Value(e, i)]
  BY <1>0, <1>8 DEF Solves
<1> HIDE DEF e
<1> DEFINE U == {m \in Nat : m < n => e[n - m] \in Nat}
<1>10. 0 \in U
  <2>1. 0 < n => n - 0 \in 1..n /\ n - 0 = n
    BY <1>0
  <2>2. 0 < n => e[n] = rows[n].length
    BY <1>9, <2>1
  <2>3. QED
    BY <1>0, <2>1, <2>2
<1>11. ASSUME NEW m \in U
       PROVE  m + 1 \in U
  <2>1. SUFFICES ASSUME m + 1 < n
                 PROVE  e[n - (m + 1)] \in Nat
    OBVIOUS
  <2>2. e[n - m] \in Nat
    <3>1. m \in Nat /\ m < n
      BY <1>0, <2>1
    <3>2. QED
      BY <3>1
  <2>3. n - (m + 1) \in 1..n /\ n - (m + 1) # n /\ n - (m + 1) + 1 = n - m
    BY <1>0, <2>1
  <2>4. e[n - (m + 1)] = rows[n - (m + 1)].length + e[n - m]
    BY <1>9, <2>3
  <2>5. QED
    BY <1>0, <2>2, <2>3, <2>4
<1>12. U = Nat
  <2> HIDE DEF U
  <2>1. U \in SUBSET Nat
    BY DEF U
  <2>2. QED
    BY <1>10, <1>11, <2>1, AllNumbers
<1>13. ASSUME NEW i \in 1..n
       PROVE  e[i] \in Nat
  <2>1. n - i \in Nat /\ n - i < n /\ n - (n - i) = i
    BY <1>0
  <2>2. n - i \in U
    BY <1>12, <2>1
  <2>3. QED
    BY <2>1, <2>2
<1>14. QED
  BY <1>13 DEF e, n

-----------------------------------------------------------------------------
(* Rows.                                                                   *)

(* The encoder's list has the los that LosOf names. *)
LEMMA SortedRows ==
    ASSUME NEW rows \in Seq(Losshape), rows # <<>>
    PROVE  /\ sortList(rows) \in Seq([los : Los, length : Nat])
           /\ Len(sortList(rows)) \in Nat \ {0} /\ Len(LosOf(rows)) = Len(sortList(rows))
           /\ DOMAIN sortList(rows) = 1..Len(sortList(rows))
           /\ DOMAIN LosOf(rows) = 1..Len(sortList(rows))
           /\ \A n \in 1..Len(sortList(rows)) : sortList(rows)[n].los = LosOf(rows)[n]
<1> DEFINE S == Changes(rows)
           kept == Ascending(S)
           c == Len(kept)
<1>1. Len(rows) \in Nat \ {0} /\ DOMAIN rows = 1..Len(rows) /\ \A i \in 1..Len(rows) : rows[i] \in Losshape
  BY LenProperties, EmptySeq
<1>2. \A i \in 1..Len(rows) : rows[i].length \in Nat /\ rows[i].los \in Los
  BY <1>1 DEF Losshape
<1>3. S \in SUBSET (1..Len(rows)) /\ Len(rows) \in S
  BY <1>1 DEF Changes
<1> HIDE DEF S
<1>4. kept \in Seq(S) /\ c \in Nat \ {0}
  BY <1>1, <1>3, AscendingList
<1>5. DOMAIN kept = 1..c /\ \A n \in 1..c : kept[n] \in 1..Len(rows)
  BY <1>3, <1>4, LenProperties
<1>6. \A i \in 1..Len(rows) : ToEnd(rows)[i] \in Nat
  BY <1>1, <1>2, ToEndTyped
<1>7. /\ sortList(rows) = [n \in DOMAIN kept |-> [los |-> rows[kept[n]].los, length |-> ToEnd(rows)[kept[n]]]]
      /\ LosOf(rows) = [n \in DOMAIN kept |-> rows[kept[n]].los]
  BY DEF sortList, LosOf, S
<1> HIDE DEF kept, c
<1>8. sortList(rows) \in [1..c -> [los : Los, length : Nat]] /\ LosOf(rows) \in [1..c -> Los]
  BY <1>2, <1>5, <1>6, <1>7
<1>9. Len(sortList(rows)) = c /\ Len(LosOf(rows)) = c
  BY <1>4, <1>8
<1>10. sortList(rows) \in Seq([los : Los, length : Nat])
  <2> DEFINE R == [los : Los, length : Nat]
             q == sortList(rows)
  <2>1. c \in Nat /\ q \in [1..c -> R]
    BY <1>4, <1>8
  <2> HIDE DEF R, q
  <2>2. q \in Seq(R)
    BY <2>1, SeqDef
  <2>3. QED
    BY <2>2 DEF R, q
<1>11. QED
  BY <1>4, <1>5, <1>7, <1>9, <1>10

Row == [length : Nat \ {0}, los : Los]

Cutting == [at : Nat, rest : Seq(Nat), thrown : BOOLEAN, losshape : Seq(Losshape)]

(* A row that does not throw is cut off what is left. *)
LEMMA RowIsCut ==
    ASSUME NEW a \in Cutting, NEW row \in Row, NEW isLast \in BOOLEAN
    PROVE  /\ CutRow(a, row, isLast) \in Cutting
           /\ a.losshape # <<>> \/ (~a.thrown /\ a.rest # <<>>) => CutRow(a, row, isLast).losshape # <<>>
<1> DEFINE n    == Until(a.rest, a.at + row.length)
           near == SubSeq(a.rest, 1, n)
           far  == SubSeq(a.rest, n + 1, Len(a.rest))
           base == Last(<<a.at>> \o near)
           to   == IF isLast THEN a.rest
                   ELSE IF far = <<>> THEN near
                   ELSE Append(near, Head(far) - (a.at + row.length - base))
           part == [length |-> row.length, los |-> row.los, shape  |-> <<a.at>> \o to]
           b    == [at |-> Last(<<a.at>> \o to), rest |-> IF isLast \/ far = <<>> THEN <<>> ELSE Tail(far),
                    thrown |-> FALSE, losshape |-> Append(a.losshape, part)]
<1>1. a.at \in Nat /\ a.rest \in Seq(Nat) /\ a.losshape \in Seq(Losshape) /\ a.thrown \in BOOLEAN
  BY DEF Cutting
<1>2. row.length \in Nat \ {0} /\ row.los \in Los /\ a.at + row.length \in Nat
  BY <1>1 DEF Row
<1>3. Len(a.rest) \in Nat /\ \A i \in 1..Len(a.rest) : a.rest[i] \in Nat
  BY <1>1, LenProperties
<1>4. /\ n \in 0..Len(a.rest)
      /\ n < Len(a.rest) => a.rest[n + 1] > a.at + row.length
  BY <1>1, <1>2, UntilStops
<1> HIDE DEF n
<1>5. near \in Seq(Nat)
  <2>1. \A i \in 1..n : a.rest[i] \in Nat
    BY <1>3, <1>4
  <2>2. QED
    BY <1>4, <2>1, SubSeqProperties
<1>6. /\ far \in Seq(Nat) /\ (far # <<>> => n < Len(a.rest) /\ far[1] = a.rest[n + 1])
  <2>1. \A i \in n + 1..Len(a.rest) : a.rest[i] \in Nat
    BY <1>3, <1>4
  <2>2. /\ far \in Seq(Nat) /\ Len(far) = (IF n + 1 <= Len(a.rest) THEN Len(a.rest) - (n + 1) + 1 ELSE 0)
        /\ \A i \in 1..Len(a.rest) - (n + 1) + 1 : far[i] = a.rest[n + 1 + i - 1]
    BY <1>3, <1>4, <2>1, SubSeqProperties
  <2>3. far # <<>> => Len(far) > 0
    BY <2>2, EmptySeq
  <2> HIDE DEF far
  <2>4. QED
    BY <1>3, <1>4, <2>2, <2>3
<1> HIDE DEF near, far
<1>7. base \in Nat
  <2>1. <<a.at>> \in Seq(Nat) /\ Len(<<a.at>>) = 1
    BY <1>1
  <2>2. <<a.at>> \o near \in Seq(Nat) /\ Len(<<a.at>> \o near) \in Nat \ {0}
    BY <1>5, <2>1, ConcatProperties, LenProperties
  <2>3. QED
    BY <2>2, ElementOfSeq DEF Last
<1> HIDE DEF base
<1>8. to \in Seq(Nat)
  <2>1. far # <<>> => Head(far) - (a.at + row.length - base) \in Nat
    <3>1. SUFFICES ASSUME far # <<>>
                   PROVE  Head(far) - (a.at + row.length - base) \in Nat
      OBVIOUS
    <3>2. n < Len(a.rest) /\ Head(far) = a.rest[n + 1]
      BY <1>6, <3>1
    <3>3. n + 1 \in 1..Len(a.rest)
      BY <1>3, <1>4, <3>2
    <3>4. Head(far) \in Nat /\ Head(far) > a.at + row.length
      BY <1>3, <1>4, <3>2, <3>3
    <3>5. QED
      BY <1>1, <1>2, <1>7, <3>4
  <2>2. QED
    BY <1>1, <1>5, <2>1, AppendProperties
<1> HIDE DEF to
<1>9. <<a.at>> \o to \in Seq(Nat) /\ Last(<<a.at>> \o to) \in Nat
  <2>1. <<a.at>> \in Seq(Nat) /\ Len(<<a.at>>) = 1
    BY <1>1
  <2>2. <<a.at>> \o to \in Seq(Nat) /\ Len(<<a.at>> \o to) \in Nat \ {0}
    BY <1>8, <2>1, ConcatProperties, LenProperties
  <2>3. QED
    BY <2>2, ElementOfSeq DEF Last
<1>10. part \in Losshape
  BY <1>2, <1>9 DEF Losshape
<1> HIDE DEF part
<1>11. Append(a.losshape, part) \in Seq(Losshape) /\ Append(a.losshape, part) # <<>>
  BY <1>1, <1>10, AppendProperties
<1>12. far # <<>> => Tail(far) \in Seq(Nat)
  BY <1>6, HeadTailProperties
<1>13. b \in Cutting /\ b.losshape # <<>>
  BY <1>9, <1>11, <1>12 DEF Cutting
<1>14. CutRow(a, row, isLast) =
           IF a.thrown \/ (~isLast /\ a.rest = <<>>) THEN [a EXCEPT !.thrown = TRUE] ELSE b
  BY DEF CutRow, n, near, far, base, to, part
<1> HIDE DEF b
<1>15. [a EXCEPT !.thrown = TRUE] \in Cutting /\ [a EXCEPT !.thrown = TRUE].losshape = a.losshape
  BY DEF Cutting
<1>16. CASE a.thrown \/ (~isLast /\ a.rest = <<>>)
  BY <1>14, <1>15, <1>16
<1>17. CASE ~(a.thrown \/ (~isLast /\ a.rest = <<>>))
  BY <1>13, <1>14, <1>17
<1>18. QED
  BY <1>16, <1>17

(* What an author submits is stored with a line for each row. *)
LEMMA RowsAreCut ==
    ASSUME NEW rows \in Rows
    PROVE  Cut(rows).losshape \in Seq(Losshape) \ {<<>>} /\ Cut(rows).thrown \in BOOLEAN
<1> DEFINE l == Len(rows)
           Value(f, n) == IF n = 0 THEN Uncut ELSE CutRow(f[n - 1], rows[n], n = l)
           Solves(f) == f = [n \in 0..l |-> Value(f, n)]
           Part(m) == \E f \in [0..m -> Cutting] : \A n \in 0..m : f[n] = Value(f, n)
<1>1. rows \in Seq(Row) /\ rows # <<>>
  BY RowsAssumption DEF Row
<1>2. l \in Nat \ {0} /\ \A n \in 1..l : rows[n] \in Row
  BY <1>1, LenProperties, EmptySeq
<1>3. Cut(rows) = (CHOOSE f : Solves(f))[l]
  BY DEF Cut
<1> HIDE DEF l
<1>4. Uncut \in Cutting /\ ~Uncut.thrown /\ Uncut.rest # <<>>
  <2>1. Shape \in Seq(Nat) /\ Shape # <<>> /\ Len(Shape) > 1 /\ Head(Shape) \in Nat
    BY RowsAssumption, EmptySeq
  <2>2. Tail(Shape) \in Seq(Nat) /\ Len(Tail(Shape)) > 0
    BY <2>1, HeadTailProperties, LenProperties
  <2>3. Tail(Shape) # <<>> /\ <<>> \in Seq(Losshape)
    <3> DEFINE t == Tail(Shape)
    <3>1. t \in Seq(Nat) /\ Len(t) > 0 /\ <<>> \in Seq(Losshape) /\ Len(<<>>) = 0
      BY <2>2, EmptySeq
    <3> HIDE DEF t
    <3>2. t # <<>> /\ <<>> \in Seq(Losshape)
      BY <3>1
    <3>3. QED
      BY <3>2 DEF t
  <2>4. QED
    BY <2>1, <2>2, <2>3 DEF Uncut, Cutting
<1>5. ASSUME NEW a \in Cutting, NEW n \in 1..l
      PROVE  /\ CutRow(a, rows[n], n = l) \in Cutting
             /\ a.losshape # <<>> \/ (~a.thrown /\ a.rest # <<>>) => CutRow(a, rows[n], n = l).losshape # <<>>
  <2>1. rows[n] \in Row /\ (n = l) \in BOOLEAN
    BY <1>2
  <2>2. QED
    BY <2>1, RowIsCut, Zenon
<1>6. Part(0)
  <2> DEFINE f == [n \in 0..0 |-> Uncut]
  <2>1. f \in [0..0 -> Cutting] /\ \A n \in 0..0 : n = 0 /\ f[n] = Uncut
    BY <1>4
  <2> HIDE DEF f
  <2>2. QED
    BY <2>1
<1>7. ASSUME NEW m \in Nat, m + 1 <= l, Part(m)
      PROVE  Part(m + 1)
  <2>1. PICK f \in [0..m -> Cutting] : \A n \in 0..m : f[n] = Value(f, n)
    BY <1>7
  <2> DEFINE g == [n \in 0..m + 1 |-> IF n = m + 1 THEN CutRow(f[m], rows[m + 1], m + 1 = l) ELSE f[n]]
  <2>2. m + 1 \in 1..l /\ f[m] \in Cutting
    BY <1>2, <1>7, <2>1
  <2>3. CutRow(f[m], rows[m + 1], m + 1 = l) \in Cutting
    BY <1>5, <2>2
  <2>4. \A n \in 0..m + 1 : n # m + 1 => n \in 0..m
    OBVIOUS
  <2>5. g \in [0..m + 1 -> Cutting]
    BY <2>3, <2>4
  <2>6. (\A n \in 0..m : g[n] = f[n]) /\ g[m + 1] = CutRow(f[m], rows[m + 1], m + 1 = l)
    OBVIOUS
  <2> HIDE DEF g
  <2>7. ASSUME NEW n \in 0..m + 1
        PROVE  g[n] = Value(g, n)
    <3>1. CASE n = m + 1
      <4>1. n - 1 = m /\ n # 0 /\ m \in 0..m
        BY <3>1
      <4>2. g[n - 1] = f[m]
        BY <2>6, <4>1
      <4>3. QED
        BY <2>6, <3>1, <4>1, <4>2, Zenon
    <3>2. CASE n # m + 1 /\ n # 0
      <4>1. n \in 0..m /\ n - 1 \in 0..m
        BY <3>2
      <4>2. g[n] = f[n] /\ g[n - 1] = f[n - 1] /\ f[n] = Value(f, n)
        BY <2>1, <2>6, <4>1
      <4>3. QED
        BY <3>2, <4>2, Zenon
    <3>3. CASE n = 0
      <4>1. 0 \in 0..m
        OBVIOUS
      <4>2. QED
        BY <2>1, <2>6, <3>3, <4>1
    <3>4. QED
      BY <3>1, <3>2, <3>3
  <2>8. QED
    BY <2>5, <2>7
<1>8. Part(l)
  <2> HIDE DEF Part
  <2> DEFINE T == {m \in Nat : m <= l => Part(m)}
  <2>1. 0 \in T
    BY <1>6
  <2>2. ASSUME NEW m \in T
        PROVE  m + 1 \in T
    BY <1>2, <1>7
  <2>3. l \in T => Part(l)
    BY <1>2
  <2>4. T \in SUBSET Nat
    OBVIOUS
  <2> HIDE DEF T
  <2>5. T = Nat
    BY <2>1, <2>2, <2>4, AllNumbers
  <2>6. QED
    BY <1>2, <2>3, <2>5
<1>9. PICK f \in [0..l -> Cutting] : \A n \in 0..l : f[n] = Value(f, n)
  BY <1>8
<1>10. Solves(f)
  BY <1>9
<1> DEFINE e == CHOOSE x : Solves(x)
<1> HIDE DEF Solves
<1>11. Solves(e) /\ Cut(rows) = e[l]
  BY <1>3, <1>10
<1> HIDE DEF e
<1>12. \A n \in 0..l : e[n] = Value(e, n)
  BY <1>11 DEF Solves
<1> DEFINE U == {m \in Nat : m <= l => e[m] \in Cutting /\ (m # 0 => e[m].losshape # <<>>)}
<1>13. e[0] = Uncut
  BY <1>2, <1>12
<1>14. ASSUME NEW m \in U
       PROVE  m + 1 \in U
  <2>1. SUFFICES ASSUME m + 1 <= l
                 PROVE  e[m + 1] \in Cutting /\ e[m + 1].losshape # <<>>
    OBVIOUS
  <2>2. m \in Nat /\ m <= l /\ m + 1 \in 1..l /\ m + 1 \in 0..l /\ m + 1 # 0 /\ (m + 1) - 1 = m
    BY <1>2, <2>1
  <2>3. e[m] \in Cutting /\ (m # 0 => e[m].losshape # <<>>)
    BY <2>2
  <2>4. e[m + 1] = CutRow(e[m], rows[m + 1], m + 1 = l)
    <3>1. e[m + 1] = Value(e, m + 1)
      BY <1>12, <2>2
    <3>2. QED
      BY <2>2, <3>1
  <2>5. e[m].losshape # <<>> \/ (~e[m].thrown /\ e[m].rest # <<>>)
    BY <1>4, <1>13, <2>3
  <2> HIDE DEF U
  <2>6. QED
    BY <1>5, <2>2, <2>3, <2>4, <2>5
<1>15. 0 \in U
  BY <1>4, <1>13
<1>16. l \in U => e[l] \in Cutting /\ e[l].losshape # <<>>
  BY <1>2
<1>17. U \in SUBSET Nat
  OBVIOUS
<1> HIDE DEF U
<1>18. U = Nat
  BY <1>14, <1>15, <1>17, AllNumbers
<1>19. e[l] \in Cutting /\ e[l].losshape # <<>>
  BY <1>2, <1>16, <1>18
<1>20. QED
  BY <1>11, <1>19 DEF Cutting

-----------------------------------------------------------------------------
(* The inductive invariant.                                                *)

(* The road: its points, each once, behind the start or, on a loop, behind *)
(* the first of them once more.                                            *)
RoadInv ==
    /\ isLoopRoad \in BOOLEAN
    /\ tmcs \in Seq(1..Start) /\ Len(tmcs) = Start
    /\ \A i \in 2..Start : tmcs[i] \in 1..Points
    /\ \A i, k \in 2..Start : tmcs[i] = tmcs[k] => i = k
    /\ \A x \in 1..Points : \E i \in 2..Start : tmcs[i] = x
    /\ tmcs[1] = IF isLoopRoad THEN tmcs[2] ELSE Start
    /\ known = tmcs \/ (~isLoopRoad /\ known = Tail(tmcs))

PageInv == /\ DOMAIN message \subseteq 1..Points
           /\ message \in [DOMAIN message -> Seq(Losshape) \ {<<>>}]

(* The los entered, by item. *)
Entered == [k \in DOMAIN roaditems |-> LosOf(message[roaditems[k]])]

ItemsInv == /\ pc \in {"edit", "encode", "match", "sections", "done"}
            /\ roaditems \in Seq(DOMAIN message) /\ Ascends(roaditems) /\ Extent <= Points
            /\ j \in 1..Extent + 1
            /\ lastLos = IF j = 1 THEN -1 ELSE Entered[j - 1][1]
            /\ pc = "edit" => roaditems = <<>> /\ j = 1
            /\ pc # "edit" => roaditems # <<>>
            /\ pc \in {"match", "sections", "done"} => j = Extent + 1

(* What the sections q say of items with the los E.                        *)
Section == [resolution : {"TMCLocations", "RELATIVE100M"}, offset : Nat, los : Los]

Whole(s) == s.resolution = "TMCLocations"
Item(s, E) == Len(E) - s.offset + 1

\* an item for which there is a section of whole locations
Sends(k, E) == k = 1 \/ E[k][1] # E[k - 1][1]

Follows(q, t, s) == t < s /\ Whole(q[t]) /\ \A r \in t + 1..s : ~Whole(q[r])

Express(E) ==
    \A k \in DOMAIN E : /\ \A n \in 2..Len(E[k]) : E[k][n] # E[k][1]
                        /\ Len(E[k]) > 1 /\ k > 1 => E[k][1] # E[k - 1][1]

(* Sections of whole locations are of ascending items, with the los each   *)
(* begins with; the relative ones behind them have other los, and those of *)
(* the item exactly if the items can be expressed.                         *)
Listed(q, E) ==
    /\ \A s \in DOMAIN q : Whole(q[s]) =>
          /\ Item(q[s], E) \in DOMAIN E /\ Sends(Item(q[s], E), E)
          /\ q[s].los = E[Item(q[s], E)][1]
    /\ \A s, t \in DOMAIN q : s < t /\ Whole(q[s]) /\ Whole(q[t]) => Item(q[s], E) < Item(q[t], E)
    /\ \A s, t \in DOMAIN q : Follows(q, t, s) =>
          /\ q[s].los # q[t].los
          /\ Express(E) => /\ s - t + 1 \in DOMAIN E[Item(q[t], E)]
                           /\ q[s].los = E[Item(q[t], E)][s - t + 1]
    /\ Express(E) => \A t \in DOMAIN q : Whole(q[t]) =>
          \A n \in 2..Len(E[Item(q[t], E)]) : t + n - 1 \in DOMAIN q /\ ~Whole(q[t + n - 1])

(* The last section that covers item k has the los it begins with. *)
Decides(q, E, k) ==
    \E s \in DOMAIN q : /\ Whole(q[s]) /\ Item(q[s], E) <= k /\ q[s].los = E[k][1]
                        /\ \A t \in DOMAIN q : s < t /\ Whole(q[t]) => k < Item(q[t], E)

Has(q, E, k) == \E s \in DOMAIN q : Whole(q[s]) /\ Item(q[s], E) = k

Behind(q, E, k) == \A s \in DOMAIN q : Whole(q[s]) => k < Item(q[s], E)

EncodeInv ==
    /\ sections \in Seq(Section)
    /\ pc = "edit" => sections = <<>>
    /\ pc \in {"encode", "match", "sections"} => Listed(sections, Entered)
    /\ pc \in {"encode", "match"} =>
          /\ \A s \in DOMAIN sections : Whole(sections[s]) => Item(sections[s], Entered) < j
          /\ \A k \in 1..j - 1 : /\ Decides(sections, Entered, k)
                                 /\ Sends(k, Entered) => Has(sections, Entered, k)
          /\ sections # <<>> => Whole(sections[1])

(* What remains to be decoded, q, and what is shown, sh, if the last       *)
(* section of whole locations began at last.                               *)
Run(q, s) == \A t \in 1..s : ~Whole(q[t])
Count(ts) == IF ts.tempShape = <<>> THEN 1 ELSE Len(ts.tempShape)

Splits(q, E, sh, last) ==
    /\ \A m \in DOMAIN sh : sh[m].tempShape # <<>> =>
          /\ m <= last /\ Sends(m, E) /\ sh[m].tempShape[1].los = E[m][1]
          /\ \A n \in 2..Len(sh[m].tempShape) : sh[m].tempShape[n].los # E[m][1]
    /\ last # 0 => \A s \in DOMAIN q : Run(q, s) => q[s].los # E[last][1]

Completes(q, E, sh, last) ==
    /\ \A m \in DOMAIN sh : \A n \in DOMAIN sh[m].tempShape :
          n \in DOMAIN E[m] /\ sh[m].tempShape[n].los = E[m][n]
    /\ \A m \in DOMAIN sh : m < last => Count(sh[m]) = Len(E[m])
    /\ last # 0 =>
          /\ \A s \in DOMAIN q : Run(q, s) => /\ Count(sh[last]) + s \in DOMAIN E[last]
                                              /\ q[s].los = E[last][Count(sh[last]) + s]
          /\ \A n \in Count(sh[last]) + 1..Len(E[last]) :
                n - Count(sh[last]) \in DOMAIN q /\ ~Whole(q[n - Count(sh[last])])

Tracks(q, E, sh, last) ==
    /\ last # 0 => Sends(last, E)
    /\ Behind(q, E, last)
    /\ \A k \in DOMAIN E : last < k /\ Sends(k, E) => Has(q, E, k)
    /\ Splits(q, E, sh, last)
    /\ Express(E) => Completes(q, E, sh, last)

\* one los for each item
Single(E) == \A k \in DOMAIN E : Len(E[k]) = 1

Decoded(q, E, sh, last) ==
    /\ \A m \in DOMAIN sh : \/ Decides(q, E, m + Len(E) - Len(sh))
                            \/ /\ sh[m].los = E[m + Len(E) - Len(sh)][1]
                               /\ Behind(q, E, m + Len(E) - Len(sh))
    /\ last = 0 /\ q # <<>> => Whole(q[1])
    /\ Len(sh) = Len(E) => Tracks(q, E, sh, last)
    /\ Single(E) => /\ \A s \in DOMAIN q : Whole(q[s])
                    /\ \A m \in DOMAIN sh : sh[m].tempShape = <<>>

Part == [los : Los, shape : Seq(Nat)]
Show == [id : 1..Start, los : Los, tempShape : Seq(Part)]

DecodeInv ==
    /\ shows \in Seq(Show) /\ lastTMCIndex \in 0..Len(shows)
    /\ pc \in {"edit", "encode", "match"} => shows = <<>> /\ lastTMCIndex = 0
    /\ pc = "sections" \/ outcome = "shown" =>
          /\ Len(shows) = alloffset /\ 0 < alloffset
          /\ Decoded(sections, Entered, shows, lastTMCIndex)
    /\ InOrder => \A m \in DOMAIN shows : shows[m].id = roaditems[m + Extent - Len(shows)]

OutcomeInv ==
    /\ outcome \in {"none", "shown", "unlocated", "thrown", "error"}
    /\ pc # "done" => outcome = "none"
    /\ pc = "done" => outcome # "none"
    /\ outcome = "shown" => sections = <<>>
    /\ outcome = "error" => NullDrawn
    /\ outcome \in {"unlocated", "thrown", "error"} => ~(InOrder /\ known = tmcs)

IInv == RoadInv /\ PageInv /\ ItemsInv /\ EncodeInv /\ DecodeInv /\ OutcomeInv /\ PartsInOrder

-----------------------------------------------------------------------------
(* The los of the parts of a location.                                     *)

LEMMA Kept ==
    ASSUME NEW P, NEW parts \in Seq(P), parts # <<>>, \A p \in P : p.los \in Los
    PROVE  /\ Len(parts) \in Nat \ {0} /\ DOMAIN parts = 1..Len(parts)
           /\ \A i \in 1..Len(parts) : parts[i].los \in Los
           /\ Changes(parts) \in SUBSET (1..Len(parts)) /\ Len(parts) \in Changes(parts)
           /\ Ascending(Changes(parts)) \in Seq(Changes(parts))
           /\ Len(Ascending(Changes(parts))) \in Nat \ {0}
           /\ DOMAIN Ascending(Changes(parts)) = 1..Len(Ascending(Changes(parts)))
           /\ \A n \in 1..Len(Ascending(Changes(parts))) :
                 Ascending(Changes(parts))[n] \in Changes(parts)
           /\ Ascends(Ascending(Changes(parts)))
           /\ \A i \in Changes(parts) : \E n \in 1..Len(Ascending(Changes(parts))) :
                 Ascending(Changes(parts))[n] = i
<1>1. Len(parts) \in Nat \ {0} /\ DOMAIN parts = 1..Len(parts) /\ \A i \in 1..Len(parts) : parts[i] \in P
  BY LenProperties, EmptySeq
<1>2. Changes(parts) \in SUBSET (1..Len(parts)) /\ Len(parts) \in Changes(parts)
  BY <1>1 DEF Changes
<1> DEFINE S == Changes(parts)
           s == Ascending(S)
<1> HIDE DEF S
<1>3. /\ s \in Seq(S) /\ Ascends(s) /\ Len(s) \in Nat \ {0}
      /\ \A i \in S : \E n \in DOMAIN s : s[n] = i
  BY <1>1, <1>2, AscendingList DEF S
<1> HIDE DEF s
<1>4. DOMAIN s = 1..Len(s) /\ \A n \in 1..Len(s) : s[n] \in S
  BY <1>3, LenProperties
<1>5. QED
  BY <1>1, <1>2, <1>3, <1>4 DEF s, S

LEMMA LosFacts ==
    ASSUME NEW P, NEW parts \in Seq(P), parts # <<>>, \A p \in P : p.los \in Los
    PROVE  /\ LosOf(parts) \in Seq(Los) /\ Len(LosOf(parts)) \in Nat \ {0}
           /\ DOMAIN LosOf(parts) = 1..Len(LosOf(parts))
           /\ \A n \in 1..Len(LosOf(parts)) - 1 : LosOf(parts)[n] # LosOf(parts)[n + 1]
<1> DEFINE S == Changes(parts)
           s == Ascending(S)
           c == Len(s)
           l == Len(parts)
<1>1. /\ l \in Nat \ {0} /\ DOMAIN parts = 1..l /\ S \in SUBSET (1..l)
      /\ \A i \in 1..l : parts[i].los \in Los
  BY Kept
<1>2. /\ c \in Nat \ {0} /\ DOMAIN s = 1..c /\ \A n \in 1..c : s[n] \in S
      /\ Ascends(s) /\ \A i \in S : \E n \in 1..c : s[n] = i
  BY Kept
<1>3. LosOf(parts) = [n \in DOMAIN s |-> parts[s[n]].los]
  BY DEF LosOf
<1>4. \A i \in 1..l : i \notin S => i # l /\ parts[i].los = parts[i + 1].los
  BY <1>1 DEF Changes
<1>5. \A i \in S : i # l => parts[i].los # parts[i + 1].los
  BY <1>1 DEF Changes
<1> HIDE DEF S, s, c, l
<1>6. LosOf(parts) \in [1..c -> Los]
  BY <1>1, <1>2, <1>3
<1>7. LosOf(parts) \in Seq(Los) /\ Len(LosOf(parts)) = c /\ DOMAIN LosOf(parts) = 1..c
  <2> DEFINE q == LosOf(parts)
  <2>1. c \in Nat /\ q \in [1..c -> Los]
    BY <1>2, <1>6
  <2> HIDE DEF q
  <2>2. q \in Seq(Los) /\ Len(q) = c /\ DOMAIN q = 1..c
    BY <2>1, SeqDef
  <2>3. QED
    BY <2>2 DEF q
<1>8. ASSUME NEW n \in 1..c - 1
      PROVE  LosOf(parts)[n] # LosOf(parts)[n + 1]
  <2> DEFINE a == s[n]
             b == s[n + 1]
  <2>1. n \in 1..c /\ n + 1 \in 1..c /\ n < n + 1
    BY <1>2
  <2>2. a \in S /\ b \in S /\ a \in 1..l /\ b \in 1..l /\ a < b
    BY <1>1, <1>2, <2>1 DEF Ascends
  <2>3. \A i \in 1..l : a < i /\ i < b => i \notin S
    <3>1. SUFFICES ASSUME NEW r \in 1..c, a < s[r], s[r] < b
                   PROVE  FALSE
      BY <1>2
    <3>2. s[r] \in 1..l
      BY <1>1, <1>2
    <3>3. ~(r < n) /\ r # n /\ r # n + 1 /\ ~(n + 1 < r)
      <4>1. r < n => s[r] < a
        BY <1>2, <2>1 DEF Ascends
      <4>2. n + 1 < r => b < s[r]
        BY <1>2, <2>1 DEF Ascends
      <4> HIDE DEF a, b
      <4>3. ~(s[r] < a) /\ s[r] # a /\ ~(b < s[r]) /\ s[r] # b
        BY <1>1, <2>2, <3>1, <3>2
      <4>4. (r = n => s[r] = a) /\ (r = n + 1 => s[r] = b)
        BY DEF a, b
      <4>5. QED
        BY <4>1, <4>2, <4>3, <4>4
    <3>4. QED
      BY <1>2, <3>3
  <2> HIDE DEF a, b
  <2> DEFINE T == {m \in Nat : a < b - m => parts[b - m].los = parts[b].los}
  <2>4. 0 \in T
    BY <1>1, <2>2
  <2>5. ASSUME NEW m \in T
        PROVE  m + 1 \in T
    <3>1. SUFFICES ASSUME a < b - (m + 1)
                   PROVE  parts[b - (m + 1)].los = parts[b].los
      OBVIOUS
    <3>2. m \in Nat /\ a < b - m
      BY <1>1, <2>2, <3>1
    <3>3. parts[b - m].los = parts[b].los
      BY <3>2
    <3>4. b - (m + 1) \in 1..l /\ b - (m + 1) < b /\ (b - (m + 1)) + 1 = b - m
      BY <1>1, <2>2, <3>1, <3>2
    <3>5. b - (m + 1) \notin S
      BY <2>3, <3>1, <3>4
    <3>6. QED
      BY <1>4, <3>3, <3>4, <3>5
  <2>6. b - (a + 1) \in Nat /\ b - (b - (a + 1)) = a + 1 /\ a < a + 1
    BY <1>1, <2>2
  <2>7. b - (a + 1) \in T => parts[a + 1].los = parts[b].los
    BY <2>6
  <2>8. T \in SUBSET Nat
    OBVIOUS
  <2> HIDE DEF T
  <2>9. T = Nat
    BY <2>4, <2>5, <2>8, AllNumbers
  <2>10. parts[a].los # parts[a + 1].los
    BY <1>1, <1>5, <2>2
  <2>11. parts[a].los # parts[b].los
    BY <2>6, <2>7, <2>9, <2>10
  <2>12. QED
    BY <1>2, <1>3, <2>1, <2>11 DEF a, b
<1>9. QED
  BY <1>2, <1>7, <1>8

(* If no part comes back to the los of the first one, neither does LosOf. *)
LEMMA LosOfFirst ==
    ASSUME NEW P, NEW parts \in Seq(P), parts # <<>>, \A p \in P : p.los \in Los,
           \A n \in 2..Len(parts) : parts[n].los # parts[1].los
    PROVE  /\ LosOf(parts)[1] = parts[1].los
           /\ \A n \in 2..Len(LosOf(parts)) : LosOf(parts)[n] # LosOf(parts)[1]
<1> DEFINE S == Changes(parts)
           s == Ascending(S)
           c == Len(s)
           l == Len(parts)
<1>1. l \in Nat \ {0} /\ DOMAIN parts = 1..l /\ S \in SUBSET (1..l)
  BY Kept
<1>2. /\ c \in Nat \ {0} /\ DOMAIN s = 1..c /\ \A n \in 1..c : s[n] \in S
      /\ Ascends(s) /\ \A i \in S : \E n \in 1..c : s[n] = i
  BY Kept
<1>3. LosOf(parts) = [n \in DOMAIN s |-> parts[s[n]].los]
  BY DEF LosOf
<1>4. 1 \in S
  BY <1>1 DEF Changes
<1>5. Len(LosOf(parts)) \in Nat /\ DOMAIN LosOf(parts) = 1..Len(LosOf(parts))
  BY LosFacts
<1> HIDE DEF S, s, c, l
<1>6. Len(LosOf(parts)) = c
  <2>1. 1..Len(LosOf(parts)) = 1..c
    BY <1>2, <1>3, <1>5
  <2>2. QED
    <3> DEFINE x == Len(LosOf(parts))
    <3>1. x \in Nat /\ c \in Nat \ {0} /\ 1..x = 1..c
      BY <1>2, <1>5, <2>1
    <3> HIDE DEF x
    <3>2. c \in 1..c /\ (x \in 1..x \/ x = 0)
      BY <3>1
    <3>3. c \in 1..x /\ (x \in 1..c \/ x = 0)
      BY <3>1, <3>2
    <3>4. x = c
      BY <3>1, <3>3
    <3>5. QED
      BY <3>4 DEF x
<1>7. s[1] = 1
  <2>1. PICK n \in 1..c : s[n] = 1
    BY <1>2, <1>4
  <2>2. s[1] \in 1..l /\ 1 \in 1..c
    <3>1. 1 \in 1..c
      BY <1>2
    <3>2. s[1] \in S
      BY <1>2, <3>1
    <3>3. QED
      BY <1>1, <3>1, <3>2
  <2>3. n # 1 => s[1] < s[n]
    BY <1>2, <2>2 DEF Ascends
  <2>4. QED
    BY <2>1, <2>2, <2>3
<1>8. LosOf(parts)[1] = parts[1].los
  BY <1>2, <1>3, <1>7
<1>9. ASSUME NEW n \in 2..c
      PROVE  LosOf(parts)[n] # LosOf(parts)[1]
  <2>1. n \in 1..c /\ 1 \in 1..c /\ s[n] \in 1..l
    <3>1. n \in 1..c /\ 1 \in 1..c
      BY <1>2
    <3>2. s[n] \in S
      BY <1>2, <3>1
    <3>3. QED
      BY <1>1, <3>1, <3>2
  <2>2. s[1] < s[n]
    BY <1>2, <2>1 DEF Ascends
  <2>3. s[n] \in 2..l
    BY <1>7, <2>1, <2>2
  <2>4. LosOf(parts)[n] = parts[s[n]].los
    BY <1>2, <1>3, <2>1
  <2>5. QED
    BY <1>8, <2>3, <2>4 DEF l
<1>10. QED
  BY <1>6, <1>8, <1>9

(* A list of successive numbers counts them. *)
LEMMA AscendingAll ==
    ASSUME NEW a \in Nat, NEW n \in Nat
    PROVE  /\ Len(Ascending(a + 1..a + n)) = n /\ DOMAIN Ascending(a + 1..a + n) = 1..n
           /\ \A i \in 1..n : Ascending(a + 1..a + n)[i] = a + i
<1> DEFINE S == a + 1..a + n
           s == Ascending(S)
<1>0. a + n \in Nat /\ S \in SUBSET (1..a + n)
  OBVIOUS
<1>1. s \in Seq(S) /\ Len(s) = Cardinality(S) /\ Ascends(s)
  <2> HIDE DEF S
  <2>1. QED
    BY <1>0, AscendingList
<1>2. Cardinality(S) = n
  <2>1. Cardinality(S) = IF a + 1 > a + n THEN 0 ELSE (a + n) - (a + 1) + 1
    BY FS_Interval
  <2>2. QED
    BY <2>1
<1> HIDE DEF s
<1>3. Len(s) = n /\ DOMAIN s = 1..n /\ \A i \in 1..n : s[i] \in S
  BY <1>1, <1>2, LenProperties
<1> DEFINE T == {m \in Nat : m \in 1..n => a + m <= s[m]}
           U == {m \in Nat : n - m \in 1..n => s[n - m] <= a + n - m}
<1>4. 0 \in T /\ 0 \in U
  BY <1>3
<1>5. ASSUME NEW m \in T
      PROVE  m + 1 \in T
  <2>1. SUFFICES ASSUME m + 1 \in 1..n
                 PROVE  a + m + 1 <= s[m + 1]
    OBVIOUS
  <2>2. m \in Nat /\ s[m + 1] \in S
    BY <1>3, <2>1
  <2>3. CASE m = 0
    BY <2>2, <2>3
  <2>4. CASE m # 0
    <3>1. m \in 1..n /\ m < m + 1
      BY <2>1, <2>2, <2>4
    <3>2. a + m <= s[m] /\ s[m] \in S /\ s[m] < s[m + 1]
      BY <1>1, <1>3, <2>1, <3>1 DEF Ascends
    <3>3. QED
      BY <2>2, <3>2
  <2>5. QED
    BY <2>3, <2>4
<1>6. ASSUME NEW m \in U
      PROVE  m + 1 \in U
  <2>1. SUFFICES ASSUME n - (m + 1) \in 1..n
                 PROVE  s[n - (m + 1)] <= a + n - (m + 1)
    OBVIOUS
  <2>2. m \in Nat /\ n - m \in 1..n /\ n - (m + 1) < n - m
    BY <2>1
  <2>3. s[n - m] <= a + n - m /\ s[n - m] \in S /\ s[n - (m + 1)] \in S /\ s[n - (m + 1)] < s[n - m]
    BY <1>1, <1>3, <2>1, <2>2 DEF Ascends
  <2>4. QED
    BY <2>2, <2>3
<1>7. T \in SUBSET Nat /\ U \in SUBSET Nat
  OBVIOUS
<1>8. ASSUME NEW i \in 1..n, i \in T, n - i \in U
      PROVE  s[i] = a + i
  <2>1. n - (n - i) = i /\ a + i <= s[i]
    BY <1>8
  <2>2. s[n - (n - i)] <= a + n - (n - i)
    BY <1>8, <2>1
  <2>3. QED
    BY <1>3, <2>1, <2>2
<1> HIDE DEF T, U
<1>9. T = Nat /\ U = Nat
  BY <1>4, <1>5, <1>6, <1>7, AllNumbers
<1>10. \A i \in 1..n : s[i] = a + i
  BY <1>8, <1>9
<1>11. QED
  BY <1>3, <1>10 DEF s

(* If neighbours differ, each part counts. *)
LEMMA LosOfDistinct ==
    ASSUME NEW P, NEW parts \in Seq(P), \A i \in 1..Len(parts) - 1 : parts[i].los # parts[i + 1].los
    PROVE  /\ DOMAIN LosOf(parts) = 1..Len(parts)
           /\ \A i \in 1..Len(parts) : LosOf(parts)[i] = parts[i].los
<1>1. Len(parts) \in Nat /\ DOMAIN parts = 1..Len(parts)
  BY LenProperties
<1>2. Changes(parts) = 1..Len(parts)
  BY <1>1 DEF Changes
<1>3. LosOf(parts) = [n \in DOMAIN Ascending(1..Len(parts)) |-> parts[Ascending(1..Len(parts))[n]].los]
  BY <1>2, Zenon DEF LosOf
<1> DEFINE n == Len(parts)
<1> HIDE DEF n
<1>4. DOMAIN Ascending(0 + 1..0 + n) = 1..n /\ \A i \in 1..n : Ascending(0 + 1..0 + n)[i] = 0 + i
  BY <1>1, AscendingAll DEF n
<1>5. 0 + 1..0 + n = 1..n /\ \A i \in 1..n : 0 + i = i
  BY <1>1 DEF n
<1>6. DOMAIN Ascending(1..n) = 1..n /\ \A i \in 1..n : Ascending(1..n)[i] = i
  BY <1>4, <1>5
<1>7. QED
  BY <1>3, <1>6 DEF n

-----------------------------------------------------------------------------
(* The encoder.                                                            *)

(* Los of items, as they are entered. *)
Entries(E) == /\ E \in Seq(Seq(Los))
              /\ \A k \in DOMAIN E : /\ Len(E[k]) \in Nat \ {0}
                                     /\ \A n \in 1..Len(E[k]) - 1 : E[k][n] # E[k][n + 1]

LEMMA EnteredIs ==
    ASSUME PageInv, roaditems \in Seq(DOMAIN message)
    PROVE  /\ Entries(Entered) /\ Len(Entered) = Extent /\ Extent \in Nat
           /\ DOMAIN Entered = 1..Extent /\ DOMAIN roaditems = 1..Extent
           /\ \A k \in 1..Extent : /\ message[roaditems[k]] \in Seq(Losshape) /\ message[roaditems[k]] # <<>>
                                   /\ Entered[k] = LosOf(message[roaditems[k]])
                                   /\ roaditems[k] \in DOMAIN message
<1>1. Extent \in Nat /\ DOMAIN roaditems = 1..Extent /\ \A k \in 1..Extent : roaditems[k] \in DOMAIN message
  BY LenProperties DEF Extent
<1>2. \A x \in DOMAIN message : message[x] \in Seq(Losshape) /\ message[x] # <<>>
  BY DEF PageInv
<1>3. \A p \in Losshape : p.los \in Los
  BY DEF Losshape
<1>4. \A x \in DOMAIN message :
          /\ LosOf(message[x]) \in Seq(Los) /\ Len(LosOf(message[x])) \in Nat \ {0}
          /\ \A n \in 1..Len(LosOf(message[x])) - 1 : LosOf(message[x])[n] # LosOf(message[x])[n + 1]
  BY <1>2, <1>3, LosFacts
<1> DEFINE E == Entered
<1>5. DOMAIN E = 1..Extent /\ \A k \in 1..Extent : E[k] = LosOf(message[roaditems[k]])
  BY <1>1 DEF Entered
<1>6. E = [k \in 1..Extent |-> LosOf(message[roaditems[k]])]
  BY <1>1 DEF Entered
<1>7. \A k \in 1..Extent : /\ E[k] \in Seq(Los) /\ Len(E[k]) \in Nat \ {0}
                           /\ \A n \in 1..Len(E[k]) - 1 : E[k][n] # E[k][n + 1]
  BY <1>1, <1>4, <1>5
<1> HIDE DEF E
<1>8. E \in [1..Extent -> Seq(Los)]
  <2>1. \A k \in 1..Extent : LosOf(message[roaditems[k]]) \in Seq(Los)
    BY <1>1, <1>4
  <2>2. QED
    BY <1>6, <2>1
<1>9. E \in Seq(Seq(Los)) /\ Len(E) = Extent
  BY <1>1, <1>8, SeqDef
<1>10. Entries(E)
  BY <1>5, <1>7, <1>9 DEF Entries
<1>11. QED
  BY <1>1, <1>2, <1>5, <1>9, <1>10 DEF E

(* r is q with the sections of item k behind it. *)
Lead(k, E) == IF Sends(k, E) THEN 1 ELSE 0

Block(q, r, E, k) ==
    /\ r \in Seq(Section) /\ Len(q) + Lead(k, E) <= Len(r) /\ \A i \in DOMAIN q : r[i] = q[i]
    /\ Sends(k, E) => /\ Whole(r[Len(q) + 1]) /\ Item(r[Len(q) + 1], E) = k
                      /\ r[Len(q) + 1].los = E[k][1]
    /\ \A i \in DOMAIN r : Len(q) + Lead(k, E) < i => ~Whole(r[i]) /\ r[i].los # E[k][1]
    /\ Express(E) => /\ ~Sends(k, E) => Len(r) = Len(q)
                     /\ Sends(k, E) => /\ Len(r) = Len(q) + Len(E[k])
                                       /\ \A n \in 2..Len(E[k]) : r[Len(q) + n].los = E[k][n]

(* So far all is listed up to item k. *)
Encoded(q, E, k) ==
    /\ Listed(q, E)
    /\ \A s \in DOMAIN q : Whole(q[s]) => Item(q[s], E) < k
    /\ \A i \in 1..k - 1 : Decides(q, E, i) /\ (Sends(i, E) => Has(q, E, i))
    /\ q # <<>> => Whole(q[1])

LEMMA BlockIsListed ==
    ASSUME NEW E, Entries(E), NEW k \in DOMAIN E, NEW q \in Seq(Section), Encoded(q, E, k),
           NEW r, Block(q, r, E, k)
    PROVE  Encoded(r, E, k + 1)
<1> DEFINE l == Len(q)
           a == Lead(k, E)
<1>1. /\ l \in Nat /\ DOMAIN q = 1..l /\ Len(r) \in Nat /\ DOMAIN r = 1..Len(r)
      /\ Len(E) \in Nat /\ k \in 1..Len(E) /\ DOMAIN E = 1..Len(E)
  BY LenProperties DEF Block, Entries
<1>2. a \in {0, 1} /\ (Sends(k, E) <=> a = 1)
  BY DEF Lead
<1>3. l + a <= Len(r) /\ (\A i \in 1..l : i \in 1..Len(r) /\ r[i] = q[i])
  <2>1. l + a <= Len(r) /\ \A i \in 1..l : r[i] = q[i]
    BY <1>1 DEF Block
  <2> HIDE DEF l, a
  <2>2. \A i \in 1..l : i \in 1..Len(r)
    BY <1>1, <1>2, <2>1
  <2>3. QED
    BY <2>1, <2>2
<1>4. a = 1 => Whole(r[l + 1]) /\ Item(r[l + 1], E) = k /\ r[l + 1].los = E[k][1]
  BY <1>2 DEF Block
<1>5. \A i \in 1..Len(r) : l + a < i => ~Whole(r[i]) /\ r[i].los # E[k][1]
  BY <1>1 DEF Block
<1>6. Express(E) => (a = 0 => Len(r) = l) /\ (a = 1 => Len(r) = l + Len(E[k]) /\ \A n \in 2..Len(E[k]) : r[l + n].los = E[k][n])
  BY <1>2 DEF Block
<1>7. \A s \in 1..l : Whole(q[s]) => Item(q[s], E) \in Int /\ Item(q[s], E) < k
  BY <1>1 DEF Encoded, Listed, Entries
<1>8. Len(E[k]) \in Nat \ {0}
  BY DEF Entries
<1> HIDE DEF l, a
\* the wholes of r
<1>9. \A s \in 1..Len(r) : Whole(r[s]) => s \in 1..l \/ (a = 1 /\ s = l + 1)
  BY <1>1, <1>2, <1>5
\* the last whole of q has the los of an item that sends none
<1>10. ASSUME a = 0
       PROVE  \E s \in 1..l : /\ Whole(q[s]) /\ Item(q[s], E) <= k /\ q[s].los = E[k][1]
                              /\ \A t \in 1..l : s < t => ~Whole(q[t])
  <2>1. k # 1 /\ E[k][1] = E[k - 1][1] /\ k - 1 \in 1..k - 1
    BY <1>1, <1>2, <1>10 DEF Sends
  <2>2. Decides(q, E, k - 1)
    BY <2>1 DEF Encoded
  <2>3. PICK s \in 1..l : /\ Whole(q[s]) /\ Item(q[s], E) <= k - 1 /\ q[s].los = E[k - 1][1]
                          /\ \A t \in 1..l : s < t /\ Whole(q[t]) => k - 1 < Item(q[t], E)
    BY <1>1, <2>2 DEF Decides
  <2>4. \A t \in 1..l : Whole(q[t]) => ~(k - 1 < Item(q[t], E))
    BY <1>1, <1>7
  <2>5. Item(q[s], E) <= k
    BY <1>1, <1>7, <2>3
  <2>6. QED
    BY <2>1, <2>3, <2>4, <2>5
<1>11. Listed(r, E)
  <2>1. ASSUME NEW s \in 1..Len(r), Whole(r[s])
        PROVE  /\ Item(r[s], E) \in DOMAIN E /\ Sends(Item(r[s], E), E)
               /\ r[s].los = E[Item(r[s], E)][1]
    <3>1. CASE s \in 1..l
      BY <1>1, <1>3, <2>1, <3>1 DEF Encoded, Listed
    <3>2. CASE a = 1 /\ s = l + 1
      BY <1>2, <1>4, <3>2
    <3>3. QED
      BY <1>9, <2>1, <3>1, <3>2
  <2>2. ASSUME NEW s \in 1..Len(r), NEW t \in 1..Len(r), s < t, Whole(r[s]), Whole(r[t])
        PROVE  Item(r[s], E) < Item(r[t], E)
    <3>1. CASE t \in 1..l
      <4>1. s \in 1..l /\ r[s] = q[s] /\ r[t] = q[t]
        BY <1>1, <1>3, <2>2, <3>1
      <4>2. QED
        BY <1>1, <2>2, <3>1, <4>1 DEF Encoded, Listed
    <3>2. CASE a = 1 /\ t = l + 1
      <4>1. s \in 1..l /\ r[s] = q[s]
        BY <1>1, <1>3, <2>2, <3>2
      <4>2. QED
        BY <1>4, <1>7, <2>2, <3>2, <4>1
    <3>3. QED
      BY <1>9, <2>2, <3>1, <3>2
  <2>3. ASSUME NEW s \in 1..Len(r), NEW t \in 1..Len(r), Follows(r, t, s)
        PROVE  /\ r[s].los # r[t].los
               /\ Express(E) => /\ s - t + 1 \in DOMAIN E[Item(r[t], E)]
                                /\ r[s].los = E[Item(r[t], E)][s - t + 1]
    <3>1. t < s /\ Whole(r[t]) /\ \A i \in t + 1..s : ~Whole(r[i])
      BY <2>3 DEF Follows
    <3>2. CASE s \in 1..l
      <4>1. t \in 1..l /\ r[t] = q[t] /\ r[s] = q[s] /\ \A i \in t + 1..s : r[i] = q[i]
        BY <1>1, <1>3, <3>1, <3>2
      <4>2. Follows(q, t, s)
        BY <3>1, <4>1 DEF Follows
      <4>3. QED
        BY <1>1, <3>2, <4>1, <4>2 DEF Encoded, Listed
    <3>3. CASE s \notin 1..l /\ a = 1
      <4>1. ~Whole(r[s]) /\ s \in t + 1..s
        BY <3>1
      <4>2. s # l + 1 /\ l + 1 < s
        BY <1>1, <1>4, <3>3, <4>1
      <4>3. t = l + 1
        <5>1. ~(l + 1 \in t + 1..s)
          BY <1>4, <3>1, <3>3
        <5>2. ~(t \in 1..l)
          BY <1>1, <4>2, <5>1
        <5>3. QED
          BY <1>9, <3>1, <5>2
      <4>4. r[s].los # E[k][1]
        BY <1>1, <1>5, <3>3, <4>2
      <4>5. Express(E) => s - t + 1 \in 2..Len(E[k]) /\ l + (s - t + 1) = s
        <5>1. SUFFICES ASSUME Express(E)
                       PROVE  s - t + 1 \in 2..Len(E[k]) /\ l + (s - t + 1) = s
          OBVIOUS
        <5>2. Len(r) = l + Len(E[k])
          BY <1>6, <3>3, <5>1
        <5>3. QED
          BY <1>1, <1>8, <4>2, <4>3, <5>2
      <4>6. DOMAIN E[k] = 1..Len(E[k])
        BY LenProperties DEF Entries
      <4>7. Express(E) => r[s].los = E[k][s - t + 1]
        BY <1>6, <3>3, <4>5
      <4>8. QED
        BY <1>4, <1>8, <3>3, <4>3, <4>4, <4>5, <4>6, <4>7
    <3>4. CASE s \notin 1..l /\ a = 0
      <4>1. t \in 1..l /\ r[t] = q[t]
        BY <1>3, <1>9, <3>1, <3>4
      <4>2. PICK i \in 1..l : /\ Whole(q[i]) /\ q[i].los = E[k][1]
                              /\ \A u \in 1..l : i < u => ~Whole(q[u])
        BY <1>10, <3>4
      <4>3. ~(i < t)
        BY <3>1, <4>1, <4>2
      <4>4. ~(t < i)
        <5>1. SUFFICES ASSUME t < i
                       PROVE  FALSE
          OBVIOUS
        <5>2. i \in t + 1..s /\ r[i] = q[i]
          BY <1>1, <1>3, <3>4, <5>1
        <5>3. QED
          BY <3>1, <4>2, <5>2
      <4>5. i = t
        BY <1>1, <4>1, <4>3, <4>4
      <4>6. r[s].los # E[k][1] /\ ~Express(E)
        BY <1>1, <1>5, <1>6, <3>4
      <4>7. QED
        BY <4>1, <4>2, <4>5, <4>6
    <3>5. QED
      BY <1>2, <3>2, <3>3, <3>4
  <2>4. ASSUME Express(E), NEW t \in 1..Len(r), Whole(r[t]), NEW n \in 2..Len(E[Item(r[t], E)])
        PROVE  t + n - 1 \in 1..Len(r) /\ ~Whole(r[t + n - 1])
    <3>1. CASE t \in 1..l
      <4>1. r[t] = q[t]
        BY <1>3, <3>1
      <4>2. t + n - 1 \in 1..l /\ ~Whole(q[t + n - 1])
        BY <1>1, <2>4, <3>1, <4>1 DEF Encoded, Listed
      <4>3. QED
        BY <1>3, <4>2
    <3>2. CASE a = 1 /\ t = l + 1
      <4>1. n \in 2..Len(E[k]) /\ t + n - 1 = l + n
        BY <1>1, <1>4, <3>2
      <4>2. l + n \in 1..Len(r) /\ l + a < l + n
        <5>1. Len(r) = l + Len(E[k])
          BY <1>6, <2>4, <3>2
        <5>2. QED
          BY <1>1, <1>8, <3>2, <4>1, <5>1
      <4>3. QED
        BY <1>5, <4>1, <4>2
    <3>3. QED
      BY <1>9, <2>4, <3>1, <3>2
  <2>5. QED
    BY <1>1, <2>1, <2>2, <2>3, <2>4 DEF Listed
<1>12. ASSUME NEW s \in 1..Len(r), Whole(r[s])
       PROVE  Item(r[s], E) < k + 1
  BY <1>1, <1>3, <1>4, <1>7, <1>9, <1>12
<1>13. ASSUME NEW i \in 1..k
       PROVE  Decides(r, E, i) /\ (Sends(i, E) => Has(r, E, i))
  <2>1. CASE i # k
    <3>1. i \in 1..k - 1
      BY <1>1, <2>1
    <3>2. Decides(q, E, i) /\ (Sends(i, E) => Has(q, E, i))
      BY <3>1 DEF Encoded
    <3>3. Decides(r, E, i)
      <4>1. PICK s \in 1..l : /\ Whole(q[s]) /\ Item(q[s], E) <= i /\ q[s].los = E[i][1]
                              /\ \A t \in 1..l : s < t /\ Whole(q[t]) => i < Item(q[t], E)
        BY <1>1, <3>2 DEF Decides
      <4>2. \A t \in 1..Len(r) : s < t /\ Whole(r[t]) => i < Item(r[t], E)
        BY <1>1, <1>3, <1>4, <1>9, <3>1, <4>1
      <4>3. s \in DOMAIN r /\ r[s] = q[s]
        BY <1>1, <1>3
      <4>4. QED
        BY <1>1, <4>1, <4>2, <4>3 DEF Decides
    <3>4. Sends(i, E) => Has(r, E, i)
      BY <1>1, <1>3, <3>2 DEF Has
    <3>5. QED
      BY <3>3, <3>4
  <2>2. CASE i = k /\ a = 1
    <3>1. l + 1 \in 1..Len(r)
      BY <1>1, <1>3, <2>2
    <3>2. \A t \in 1..Len(r) : l + 1 < t => ~Whole(r[t])
      BY <1>5, <2>2
    <3>3. Item(r[l + 1], E) <= k
      BY <1>1, <1>4, <2>2
    <3>4. Decides(r, E, k)
      BY <1>1, <1>4, <2>2, <3>1, <3>2, <3>3 DEF Decides
    <3>5. Has(r, E, k)
      BY <1>1, <1>4, <2>2, <3>1 DEF Has
    <3>6. QED
      BY <2>2, <3>4, <3>5
  <2>3. CASE i = k /\ a = 0
    <3>1. PICK s \in 1..l : /\ Whole(q[s]) /\ Item(q[s], E) <= k /\ q[s].los = E[k][1]
                            /\ \A t \in 1..l : s < t => ~Whole(q[t])
      BY <1>10, <2>3
    <3>2. s \in DOMAIN r /\ r[s] = q[s]
      BY <1>1, <1>3
    <3>3. \A t \in 1..Len(r) : s < t => ~Whole(r[t])
      BY <1>3, <1>9, <2>3, <3>1
    <3>4. Decides(r, E, k)
      BY <1>1, <3>1, <3>2, <3>3 DEF Decides
    <3>5. QED
      BY <1>2, <2>3, <3>4
  <2>4. QED
    BY <1>2, <2>1, <2>2, <2>3
<1>14. r # <<>> => Whole(r[1])
  <2>1. CASE l # 0
    <3>1. 1 \in 1..l /\ q # <<>>
      BY <1>1, <2>1 DEF l
    <3>2. QED
      BY <1>3, <3>1 DEF Encoded
  <2>2. CASE l = 0
    <3>1. a = 1
      BY <1>2, <1>10, <2>2
    <3>2. QED
      BY <1>4, <2>2, <3>1
  <2>3. QED
    BY <2>1, <2>2
<1>15. \A i \in 1..(k + 1) - 1 : i \in 1..k
  BY <1>1
<1>16. QED
  BY <1>1, <1>11, <1>12, <1>13, <1>14, <1>15 DEF Encoded

LEMMA BlockIsWritten ==
    ASSUME PageInv, ItemsInv, sections \in Seq(Section), structSection
    PROVE  Block(sections, sections', Entered, j) /\ lastLos' = Entered[j][1]
<1> DEFINE E     == Entered
           list  == sortList(message[roaditems[j]])
           first == IF Head(list).los = lastLos THEN <<>>
                    ELSE <<TMCSection(spatialOffset, Head(list).los)>>
           S     == {n \in DOMAIN list : list[n].los # Head(list).los}
           more  == Ascending(S)
           rels  == [n \in DOMAIN more |-> RELSection(list[more[n]].length, list[more[n]].los)]
           m     == Len(list)
           c     == Len(more)
           l     == Len(sections)
<1>1. j \in 1..Extent /\ Extent \in Nat /\ roaditems \in Seq(DOMAIN message)
  <2>1. Extent \in Nat
    BY EnteredIs DEF ItemsInv
  <2>2. QED
    <3>1. j <= Extent
      BY Zenon DEF structSection, Extent
    <3>2. j \in 1..Extent + 1 /\ roaditems \in Seq(DOMAIN message)
      BY DEF ItemsInv
    <3>3. QED
      BY <2>1, <3>1, <3>2
<1>2. /\ Entries(E) /\ Len(E) = Extent /\ DOMAIN E = 1..Extent
      /\ message[roaditems[j]] \in Seq(Losshape) /\ message[roaditems[j]] # <<>>
      /\ E[j] = LosOf(message[roaditems[j]])
  BY <1>1, EnteredIs
<1>3. /\ list \in Seq([los : Los, length : Nat]) /\ m \in Nat \ {0} /\ Len(E[j]) = m
      /\ DOMAIN list = 1..m /\ DOMAIN E[j] = 1..m /\ \A n \in 1..m : list[n].los = E[j][n]
  BY <1>2, SortedRows
<1>4. sections' = sections \o first \o rels /\ lastLos' = Head(list).los
  BY DEF structSection
<1>5. lastLos = IF j = 1 THEN -1 ELSE E[j - 1][1]
  BY DEF ItemsInv
<1>6. spatialOffset = Extent - j + 1
  BY DEF spatialOffset, Extent
<1> HIDE DEF E, list
<1>7. Head(list) = list[1] /\ \A n \in 1..m : list[n].los \in Los /\ list[n].length \in Nat
  <2>1. list # <<>>
    BY <1>3, EmptySeq
  <2>2. \A n \in 1..m : list[n] \in [los : Los, length : Nat]
    BY <1>3, ElementOfSeq
  <2>3. QED
    BY <1>3, <2>1, <2>2
<1>8. Head(list).los = E[j][1] /\ E[j][1] \in Los
  <2>1. 1 \in 1..m
    BY <1>3
  <2>2. QED
    BY <1>3, <1>7, <2>1
<1>9. S = {n \in 1..m : E[j][n] # E[j][1]}
  BY <1>3, <1>8
<1>10. S \in SUBSET (1..m) /\ m \in Nat
  BY <1>3, <1>9
<1> HIDE DEF S
<1>11. more \in Seq(S) /\ c \in Nat /\ DOMAIN more = 1..c /\ \A n \in 1..c : more[n] \in S
  <2>1. more \in Seq(S)
    BY <1>10, AscendingList
  <2> HIDE DEF more
  <2>2. QED
    BY <2>1, LenProperties
<1>12. Express(E) => c = m - 1 /\ \A n \in 1..c : more[n] = n + 1
  <2>1. SUFFICES ASSUME Express(E)
                 PROVE  c = m - 1 /\ \A n \in 1..c : more[n] = n + 1
    OBVIOUS
  <2>2. \A n \in 2..m : E[j][n] # E[j][1]
    BY <1>1, <1>2, <1>3, <2>1 DEF Express
  <2>3. S = 1 + 1..1 + (m - 1)
    BY <1>3, <1>9, <2>2
  <2>4. m - 1 \in Nat
    BY <1>3
  <2>5. /\ Len(Ascending(1 + 1..1 + (m - 1))) = m - 1
        /\ \A i \in 1..m - 1 : Ascending(1 + 1..1 + (m - 1))[i] = 1 + i
    BY <2>4, AscendingAll
  <2>6. Len(Ascending(S)) = m - 1 /\ \A i \in 1..m - 1 : Ascending(S)[i] = 1 + i
    BY <2>3, <2>5, Zenon
  <2>7. QED
    BY <2>4, <2>6
<1> HIDE DEF more
<1>13. /\ rels \in [1..c -> Section]
       /\ \A n \in 1..c : /\ ~Whole(rels[n]) /\ rels[n].los = E[j][more[n]]
                          /\ rels[n].los # E[j][1]
  <2>1. ASSUME NEW n \in 1..c
        PROVE  /\ rels[n] \in Section /\ ~Whole(rels[n]) /\ rels[n].los = E[j][more[n]]
               /\ rels[n].los # E[j][1]
    <3> DEFINE i == more[n]
    <3>1. i \in 1..m /\ E[j][i] # E[j][1]
      BY <1>9, <1>11
    <3>2. list[i].los \in Los /\ list[i].length \in Nat /\ list[i].los = E[j][i]
      BY <1>3, <1>7, <3>1
    <3>3. list[i].length \div Hundred \in Nat
      <4>1. Hundred \in Nat \ {0}
        BY RowsAssumption, Zenon
      <4>2. QED
        BY <3>2, <4>1
    <3>4. rels[n] = [resolution |-> "RELATIVE100M", offset |-> list[i].length \div Hundred, los |-> list[i].los]
      BY <1>11 DEF RELSection
    <3> HIDE DEF i, rels
    <3>5. rels[n] \in Section /\ rels[n].los = list[i].los /\ rels[n].resolution = "RELATIVE100M"
      BY <3>2, <3>3, <3>4 DEF Section
    <3>6. QED
      BY <3>1, <3>2, <3>5 DEF i, Whole
  <2>2. DOMAIN rels = 1..c /\ rels = [n \in 1..c |-> rels[n]]
    BY <1>11
  <2> HIDE DEF rels
  <2>3. QED
    BY <2>1, <2>2
<1>14. rels \in Seq(Section) /\ Len(rels) = c
  <2> HIDE DEF rels
  <2>1. QED
    BY <1>11, <1>13, SeqDef
<1>15. Sends(j, E) <=> Head(list).los # lastLos
  <2>1. j = 1 => Head(list).los # -1
    BY <1>8 DEF Los
  <2>2. QED
    BY <1>5, <1>8, <2>1 DEF Sends
<1> HIDE DEF rels
<1>16. /\ first \in Seq(Section) /\ Len(first) = Lead(j, E)
       /\ Sends(j, E) => Whole(first[1]) /\ Item(first[1], E) = j /\ first[1].los = E[j][1]
  <2>1. CASE Sends(j, E)
    <3> DEFINE x == TMCSection(spatialOffset, Head(list).los)
    <3>1. first = <<x>> /\ Lead(j, E) = 1
      BY <1>15, <2>1 DEF Lead
    <3>2. x = [resolution |-> "TMCLocations", offset |-> Extent - j + 1, los |-> E[j][1]]
      BY <1>6, <1>8 DEF TMCSection
    <3> HIDE DEF x
    <3>3. Extent - j + 1 \in Nat
      BY <1>1
    <3>4. x \in Section /\ x.resolution = "TMCLocations" /\ x.offset = Extent - j + 1 /\ x.los = E[j][1]
      BY <1>8, <3>2, <3>3 DEF Section
    <3>5. <<x>> \in Seq(Section) /\ Len(<<x>>) = 1 /\ <<x>>[1] = x
      BY <3>4
    <3>6. Item(x, E) = j
      BY <1>1, <1>2, <3>4 DEF Item
    <3> HIDE DEF first
    <3>7. QED
      BY <3>1, <3>4, <3>5, <3>6 DEF Whole
  <2>2. CASE ~Sends(j, E)
    <3>1. first = <<>> /\ Lead(j, E) = 0
      BY <1>15, <2>2 DEF Lead
    <3>2. QED
      BY <2>2, <3>1, EmptySeq
  <2>3. QED
    BY <2>1, <2>2
<1> HIDE DEF first
<1> DEFINE a == Lead(j, E)
           r == sections \o first \o rels
<1>17. a \in {0, 1} /\ (Sends(j, E) <=> a = 1)
  BY DEF Lead
<1>18. l \in Nat /\ DOMAIN sections = 1..l
  BY LenProperties
<1> HIDE DEF l, a
<1>19. /\ r \in Seq(Section) /\ Len(r) = l + a + c
       /\ \A i \in 1..l + a + c : r[i] = IF i <= l THEN sections[i]
                                          ELSE IF i <= l + a THEN first[i - l] ELSE rels[i - (l + a)]
  <2> DEFINE p == sections \o first
  <2>1. /\ p \in Seq(Section) /\ Len(p) = l + a
        /\ \A i \in 1..l + a : p[i] = IF i <= l THEN sections[i] ELSE first[i - l]
    BY <1>16, ConcatProperties DEF l, a
  <2> HIDE DEF p
  <2>2. /\ p \o rels \in Seq(Section) /\ Len(p \o rels) = (l + a) + c
        /\ \A i \in 1..(l + a) + c : (p \o rels)[i] = IF i <= l + a THEN p[i] ELSE rels[i - (l + a)]
    <3>1. /\ p \o rels \in Seq(Section) /\ Len(p \o rels) = Len(p) + Len(rels)
          /\ \A i \in 1..Len(p) + Len(rels) : (p \o rels)[i] = IF i <= Len(p) THEN p[i] ELSE rels[i - Len(p)]
      <4>1. p \in Seq(Section) /\ rels \in Seq(Section)
        BY <1>14, <2>1
      <4> HIDE DEF a, l
      <4>2. QED
        BY <4>1, ConcatProperties, Zenon
    <3>2. QED
      BY <1>14, <2>1, <3>1, Zenon
  <2>3. r = p \o rels
    BY DEF p
  <2> HIDE DEF r
  <2>4. ASSUME NEW i \in 1..l + a + c
        PROVE  r[i] = IF i <= l THEN sections[i]
                      ELSE IF i <= l + a THEN first[i - l] ELSE rels[i - (l + a)]
    <3>1. r[i] = IF i <= l + a THEN p[i] ELSE rels[i - (l + a)]
      BY <2>2, <2>3
    <3>2. i <= l => i <= l + a
      BY <1>17, <1>18
    <3>3. i <= l + a => i \in 1..l + a
      BY <1>11, <1>17, <1>18
    <3>4. QED
      BY <2>1, <3>1, <3>2, <3>3
  <2>5. QED
    BY <1>11, <1>17, <1>18, <2>2, <2>3, <2>4
<1> HIDE DEF r
<1>20. DOMAIN r = 1..l + a + c
  BY <1>11, <1>17, <1>18, <1>19, LenProperties
<1>21. l + a <= Len(r) /\ \A i \in DOMAIN sections : r[i] = sections[i]
  BY <1>11, <1>17, <1>18, <1>19
<1>22. a = 1 => Whole(r[l + 1]) /\ Item(r[l + 1], E) = j /\ r[l + 1].los = E[j][1]
  <2>1. SUFFICES ASSUME a = 1
                 PROVE  r[l + 1] = first[1]
    BY <1>16, <1>17
  <2>2. l + 1 \in 1..l + a + c /\ ~(l + 1 <= l) /\ l + 1 <= l + a /\ (l + 1) - l = 1
    BY <1>11, <1>18, <2>1
  <2>3. QED
    BY <1>19, <2>2
<1>23. ASSUME NEW i \in 1..l + a + c, l + a < i
       PROVE  r[i] = rels[i - (l + a)] /\ i - (l + a) \in 1..c
  <2>1. ~(i <= l) /\ ~(i <= l + a) /\ i - (l + a) \in 1..c
    BY <1>11, <1>17, <1>18, <1>23
  <2>2. QED
    BY <1>19, <2>1
<1>24. ASSUME Express(E)
       PROVE  /\ ~Sends(j, E) => Len(r) = l
              /\ Sends(j, E) => /\ Len(r) = l + Len(E[j])
                                /\ \A n \in 2..Len(E[j]) : r[l + n].los = E[j][n]
  <2>1. c = m - 1 /\ \A n \in 1..c : more[n] = n + 1
    BY <1>12, <1>24
  <2>2. CASE ~Sends(j, E)
    <3>1. j > 1 /\ E[j][1] = E[j - 1][1]
      BY <1>1, <2>2 DEF Sends
    <3>2. ~(Len(E[j]) > 1)
      BY <1>1, <1>2, <1>24, <3>1 DEF Express
    <3>3. c = 0 /\ a = 0
      BY <1>3, <1>17, <2>1, <2>2, <3>2
    <3>4. QED
      BY <1>18, <1>19, <2>2, <3>3
  <2>3. CASE Sends(j, E)
    <3>1. a = 1 /\ Len(r) = l + m
      BY <1>3, <1>17, <1>18, <1>19, <2>1, <2>3
    <3>2. ASSUME NEW n \in 2..m
          PROVE  r[l + n].los = E[j][n]
      <4>1. l + n \in 1..l + a + c /\ l + a < l + n /\ (l + n) - (l + a) = n - 1
        BY <1>3, <1>18, <2>1, <3>1
      <4>2. r[l + n] = rels[n - 1] /\ n - 1 \in 1..c
        BY <1>23, <4>1
      <4>3. more[n - 1] = n
        BY <2>1, <4>2
      <4>4. QED
        BY <1>13, <4>2, <4>3
    <3>3. QED
      BY <1>3, <2>3, <3>1, <3>2
  <2>4. QED
    BY <2>2, <2>3
<1>25. Block(sections, r, E, j)
  <2>1. \A i \in DOMAIN r : l + a < i => ~Whole(r[i]) /\ r[i].los # E[j][1]
    BY <1>13, <1>20, <1>23
  <2>2. QED
    BY <1>17, <1>19, <1>21, <1>22, <1>24, <2>1 DEF Block, l, a
<1>26. QED
  BY <1>4, <1>8, <1>25 DEF r, E

-----------------------------------------------------------------------------
(* The decoder, section by section.                                        *)

LEMMA TailOf ==
    ASSUME NEW q \in Seq(Section), q # <<>>
    PROVE  /\ Len(q) \in Nat \ {0} /\ DOMAIN q = 1..Len(q) /\ 1 \in DOMAIN q
           /\ Tail(q) \in Seq(Section) /\ DOMAIN Tail(q) = 1..Len(q) - 1
           /\ \A s \in 1..Len(q) - 1 : Tail(q)[s] = q[s + 1] /\ s + 1 \in 1..Len(q)
           /\ \A s \in 1..Len(q) : s # 1 => s - 1 \in 1..Len(q) - 1 /\ Tail(q)[s - 1] = q[s]
           /\ Head(q) = q[1] /\ q[1] \in Section
<1>1. Len(q) \in Nat \ {0} /\ DOMAIN q = 1..Len(q) /\ \A i \in 1..Len(q) : q[i] \in Section
  BY LenProperties, EmptySeq
<1>2. /\ Tail(q) \in Seq(Section) /\ Len(Tail(q)) = Len(q) - 1
      /\ \A i \in 1..Len(Tail(q)) : Tail(q)[i] = q[i + 1]
  BY HeadTailProperties
<1>3. DOMAIN Tail(q) = 1..Len(q) - 1
  BY <1>2, LenProperties
<1>4. Head(q) = q[1]
  OBVIOUS
<1> DEFINE r == Tail(q)
<1> HIDE DEF r
<1>5. \A s \in 1..Len(q) - 1 : r[s] = q[s + 1] /\ s + 1 \in 1..Len(q)
  BY <1>1, <1>2 DEF r
<1>6. \A s \in 1..Len(q) : s # 1 => s - 1 \in 1..Len(q) - 1 /\ (s - 1) + 1 = s
  BY <1>1
<1>7. \A s \in 1..Len(q) : s # 1 => r[s - 1] = q[s]
  BY <1>5, <1>6
<1>8. 1 \in 1..Len(q)
  BY <1>1
<1>9. QED
  BY <1>1, <1>2, <1>3, <1>4, <1>5, <1>6, <1>7, <1>8 DEF r

LEMMA TailIsListed ==
    ASSUME NEW E, NEW q \in Seq(Section), q # <<>>, Listed(q, E)
    PROVE  Listed(Tail(q), E)
<1> DEFINE l == Len(q)
           r == Tail(q)
<1>1. /\ l \in Nat \ {0} /\ DOMAIN q = 1..l /\ DOMAIN r = 1..l - 1
      /\ \A s \in 1..l - 1 : r[s] = q[s + 1] /\ s + 1 \in 1..l
  BY TailOf
<1>2. \A s \in 1..l : s # 1 => s - 1 \in 1..l - 1 /\ r[s - 1] = q[s]
  BY TailOf
<1> HIDE DEF l, r
<1>3. ASSUME NEW s \in 1..l - 1, Whole(r[s])
      PROVE  /\ Item(r[s], E) \in DOMAIN E /\ Sends(Item(r[s], E), E)
             /\ r[s].los = E[Item(r[s], E)][1]
  BY <1>1, <1>3 DEF Listed
<1>4. ASSUME NEW s \in 1..l - 1, NEW t \in 1..l - 1, s < t, Whole(r[s]), Whole(r[t])
      PROVE  Item(r[s], E) < Item(r[t], E)
  <2>1. s + 1 < t + 1
    BY <1>1, <1>4
  <2>2. QED
    <3>1. \A a, b \in 1..l : a < b /\ Whole(q[a]) /\ Whole(q[b]) => Item(q[a], E) < Item(q[b], E)
      BY <1>1 DEF Listed
    <3>2. r[s] = q[s + 1] /\ r[t] = q[t + 1] /\ s + 1 \in 1..l /\ t + 1 \in 1..l
      BY <1>1
    <3>3. QED
      BY <1>4, <2>1, <3>1, <3>2
<1>5. ASSUME NEW s \in 1..l - 1, NEW t \in 1..l - 1, Follows(r, t, s)
      PROVE  /\ r[s].los # r[t].los
             /\ Express(E) => /\ s - t + 1 \in DOMAIN E[Item(r[t], E)]
                              /\ r[s].los = E[Item(r[t], E)][s - t + 1]
  <2>1. t < s /\ Whole(r[t]) /\ \A i \in t + 1..s : ~Whole(r[i])
    BY <1>5 DEF Follows
  <2>2. \A i \in (t + 1) + 1..s + 1 : i - 1 \in t + 1..s /\ i \in 1..l /\ i # 1
    BY <1>1
  <2>3. Follows(q, t + 1, s + 1)
    BY <1>1, <1>2, <2>1, <2>2 DEF Follows
  <2>4. (s + 1) - (t + 1) + 1 = s - t + 1
    BY <1>1
  <2>5. QED
    <3>1. \A a, b \in 1..l : Follows(q, b, a) =>
             /\ q[a].los # q[b].los
             /\ Express(E) => /\ a - b + 1 \in DOMAIN E[Item(q[b], E)]
                              /\ q[a].los = E[Item(q[b], E)][a - b + 1]
      BY <1>1 DEF Listed
    <3>2. r[s] = q[s + 1] /\ r[t] = q[t + 1] /\ s + 1 \in 1..l /\ t + 1 \in 1..l
      BY <1>1
    <3>3. /\ q[s + 1].los # q[t + 1].los
          /\ Express(E) => /\ (s + 1) - (t + 1) + 1 \in DOMAIN E[Item(q[t + 1], E)]
                           /\ q[s + 1].los = E[Item(q[t + 1], E)][(s + 1) - (t + 1) + 1]
      BY <2>3, <3>1, <3>2
    <3>4. QED
      BY <2>4, <3>2, <3>3
<1>6. ASSUME Express(E), NEW t \in 1..l - 1, Whole(r[t]), NEW n \in 2..Len(E[Item(r[t], E)])
      PROVE  t + n - 1 \in 1..l - 1 /\ ~Whole(r[t + n - 1])
  <2>1. (t + 1) + n - 1 \in 1..l /\ ~Whole(q[(t + 1) + n - 1])
    BY <1>1, <1>6 DEF Listed
  <2>2. (t + 1) + n - 1 # 1 /\ ((t + 1) + n - 1) - 1 = t + n - 1
    BY <1>1
  <2>3. QED
    BY <1>2, <2>1, <2>2
<1>7. QED
  BY <1>1, <1>3, <1>4, <1>5, <1>6 DEF Listed, r

(* For items of one los there is no relative section. *)
LEMMA NoRelatives ==
    ASSUME NEW E, Entries(E), Single(E), NEW q \in Seq(Section), Listed(q, E), q # <<>> => Whole(q[1])
    PROVE  \A s \in DOMAIN q : Whole(q[s])
<1> DEFINE T == {s \in DOMAIN q : ~Whole(q[s])}
           l == Len(q)
<1>1. l \in Nat /\ DOMAIN q = 1..l
  BY LenProperties
<1>2. SUFFICES ASSUME T # {}
               PROVE  FALSE
  OBVIOUS
<1> HIDE DEF l
<1>3. T \in SUBSET Nat
  BY <1>1
<1>4. PICK s \in T : \A t \in T : s <= t
  BY <1>2, <1>3, LeastNumber
<1>5. s \in 1..l /\ ~Whole(q[s])
  BY <1>1
<1>6. s # 1
  <2>1. q # <<>>
    BY <1>1, <1>5
  <2>2. QED
    BY <1>5, <2>1
<1>7. s - 1 \in 1..l /\ s - 1 < s /\ ~(s <= s - 1) /\ (s - 1) + 1 = s /\ s - (s - 1) + 1 = 2
  BY <1>1, <1>5, <1>6
<1>8. Whole(q[s - 1])
  BY <1>1, <1>4, <1>7
<1>9. Follows(q, s - 1, s)
  <2>1. \A r \in s..s : r = s
    BY <1>1, <1>5
  <2>2. QED
    BY <1>5, <1>7, <1>8, <2>1 DEF Follows
<1>10. Express(E)
  <2>1. SUFFICES ASSUME NEW k \in DOMAIN E
                 PROVE  /\ \A n \in 2..Len(E[k]) : E[k][n] # E[k][1]
                        /\ Len(E[k]) > 1 /\ k > 1 => E[k][1] # E[k - 1][1]
    BY DEF Express
  <2> DEFINE m == Len(E[k])
  <2>2. m = 1
    BY DEF Single
  <2> HIDE DEF m
  <2>3. 2..m = {} /\ ~(m > 1)
    BY <2>2
  <2>4. QED
    BY <2>3 DEF m
<1>11. 2 \in DOMAIN E[Item(q[s - 1], E)] /\ Item(q[s - 1], E) \in DOMAIN E
  <2>1. Item(q[s - 1], E) \in DOMAIN E
    BY <1>1, <1>7, <1>8 DEF Listed
  <2>2. s - (s - 1) + 1 \in DOMAIN E[Item(q[s - 1], E)]
    <3>1. \A a, b \in DOMAIN q : Follows(q, b, a) /\ Express(E) => a - b + 1 \in DOMAIN E[Item(q[b], E)]
      BY DEF Listed
    <3>2. QED
      BY <1>1, <1>5, <1>7, <1>9, <1>10, <3>1
  <2>3. QED
    BY <1>7, <2>1, <2>2
<1> DEFINE e == E[Item(q[s - 1], E)]
<1>12. e \in Seq(Los) /\ Len(e) = 1 /\ 2 \in DOMAIN e
  <2>1. Len(E) \in Nat /\ DOMAIN E = 1..Len(E)
    BY LenProperties DEF Entries
  <2>2. QED
    BY <1>11, <2>1, ElementOfSeq DEF Entries, Single
<1> HIDE DEF e
<1>13. QED
  BY <1>12, LenProperties

(* Before the first section nothing is lost. *)
LEMMA DecodingBegins ==
    ASSUME NEW E, Entries(E), NEW q \in Seq(Section), Encoded(q, E, Len(E) + 1),
           NEW sh, Len(sh) \in 1..Len(E), DOMAIN sh = 1..Len(sh),
           \A m \in 1..Len(sh) : sh[m].tempShape = <<>>
    PROVE  Decoded(q, E, sh, 0)
<1>1. Len(E) \in Nat /\ DOMAIN E = 1..Len(E)
  BY LenProperties DEF Entries
<1>2. \A i \in 1..Len(E) : Decides(q, E, i) /\ (Sends(i, E) => Has(q, E, i))
  <2>1. (Len(E) + 1) - 1 = Len(E)
    BY <1>1
  <2>2. QED
    BY <2>1 DEF Encoded
<1>3. \A m \in DOMAIN sh : Decides(q, E, m + Len(E) - Len(sh))
  <2>1. \A m \in 1..Len(sh) : m + Len(E) - Len(sh) \in 1..Len(E)
    BY <1>1
  <2>2. QED
    BY <1>2, <2>1
<1>4. Behind(q, E, 0)
  BY <1>1 DEF Encoded, Listed, Behind
<1>5. Splits(q, E, sh, 0)
  BY DEF Splits
<1>6. Completes(q, E, sh, 0)
  <2>1. \A m \in 1..Len(sh) : DOMAIN sh[m].tempShape = {} /\ ~(m < 0)
    BY <1>1
  <2>2. QED
    BY <2>1 DEF Completes
<1>7. Tracks(q, E, sh, 0)
  BY <1>1, <1>2, <1>4, <1>5, <1>6 DEF Tracks
<1>8. ASSUME Single(E), NEW s \in DOMAIN q
      PROVE  Whole(q[s])
  BY <1>8, NoRelatives DEF Encoded
<1>9. \A m \in DOMAIN sh : sh[m].tempShape = <<>>
  OBVIOUS
<1>10. q # <<>> => Whole(q[1])
  BY DEF Encoded
<1>11. QED
  BY <1>3, <1>7, <1>8, <1>9, <1>10 DEF Decoded

(* An item that sends nothing, if items can be expressed, has one los. *)
LEMMA Silent ==
    ASSUME NEW E, Entries(E), Express(E), NEW m \in DOMAIN E, ~Sends(m, E)
    PROVE  Len(E[m]) = 1
<1>1. m # 1 /\ E[m][1] = E[m - 1][1] /\ m \in Nat /\ m > 0 /\ Len(E[m]) \in Nat \ {0}
  BY LenProperties DEF Sends, Entries
<1>2. Len(E[m]) > 1 /\ m > 1 => E[m][1] # E[m - 1][1]
  BY DEF Express
<1> DEFINE l == Len(E[m])
<1>3. l \in Nat \ {0} /\ ~(l > 1)
  <2>1. m > 1
    BY <1>1
  <2>2. QED
    BY <1>1, <1>2, <2>1
<1> HIDE DEF l
<1>4. l = 1
  BY <1>3
<1>5. QED
  BY <1>4 DEF l

(* A part of a location is a part of what was entered for it. *)
LEMMA Counted ==
    ASSUME NEW E, Entries(E), NEW m \in DOMAIN E, NEW ts, NEW P, ts.tempShape \in Seq(P),
           \A n \in DOMAIN ts.tempShape : n \in DOMAIN E[m]
    PROVE  Count(ts) \in 1..Len(E[m]) /\ (ts.tempShape # <<>> => DOMAIN ts.tempShape = 1..Count(ts))
<1>1. Len(E[m]) \in Nat \ {0} /\ DOMAIN E[m] = 1..Len(E[m])
  BY LenProperties DEF Entries
<1>2. CASE ts.tempShape = <<>>
  BY <1>1, <1>2 DEF Count
<1>3. CASE ts.tempShape # <<>>
  <2> DEFINE c == Len(ts.tempShape)
  <2>1. c \in Nat \ {0} /\ DOMAIN ts.tempShape = 1..c
    BY <1>3, LenProperties, EmptySeq
  <2>2. Count(ts) = c
    BY <1>3 DEF Count
  <2> HIDE DEF c
  <2>3. c \in 1..c
    BY <2>1
  <2>4. c \in 1..Len(E[m])
    BY <1>1, <2>1, <2>3
  <2>5. QED
    BY <2>1, <2>2, <2>4
<1>4. QED
  BY <1>2, <1>3

(* A section of whole locations, of an item that may lie before those      *)
(* shown, gives its los to all from cov on.                                *)
LEMMA WholeIsTaken ==
    ASSUME NEW E, Entries(E), NEW q \in Seq(Section), q # <<>>, Listed(q, E), Whole(q[1]),
           NEW sh \in Seq(Show), NEW last \in 0..Len(sh), Len(sh) <= Len(E), Decoded(q, E, sh, last),
           NEW cov \in 1..Len(sh),
           \A m \in 1..Len(sh) : cov <= m <=> Item(q[1], E) <= m + Len(E) - Len(sh),
           NEW sh2, DOMAIN sh2 = DOMAIN sh, Len(sh2) = Len(sh),
           \A m \in DOMAIN sh : /\ sh2[m].tempShape = sh[m].tempShape
                                /\ sh2[m].los = IF cov <= m THEN q[1].los ELSE sh[m].los
    PROVE  Decoded(Tail(q), E, sh2, cov)
<1> DEFINE l == Len(q)
           r == Tail(q)
           N == Len(sh)
           K == Len(E)
           i0 == Item(q[1], E)
<1>1. /\ l \in Nat \ {0} /\ DOMAIN q = 1..l /\ 1 \in 1..l /\ r \in Seq(Section) /\ DOMAIN r = 1..l - 1
      /\ \A s \in 1..l - 1 : r[s] = q[s + 1] /\ s + 1 \in 1..l
  BY TailOf
<1>2. \A s \in 1..l : s # 1 => s - 1 \in 1..l - 1 /\ r[s - 1] = q[s]
  BY TailOf
<1>3. N \in Nat /\ DOMAIN sh = 1..N /\ K \in Nat /\ DOMAIN E = 1..K /\ N <= K
  BY LenProperties DEF Entries
<1>4. i0 \in 1..K /\ Sends(i0, E) /\ q[1].los = E[i0][1]
  BY <1>1, <1>3 DEF Listed
<1>5. \A s \in 1..l : s # 1 /\ Whole(q[s]) => i0 < Item(q[s], E) /\ Item(q[s], E) \in 1..K
  <2>1. ASSUME NEW s \in 1..l, s # 1, Whole(q[s])
        PROVE  i0 < Item(q[s], E) /\ Item(q[s], E) \in 1..K
    <3>1. 1 < s
      BY <1>1, <2>1
    <3>2. QED
      BY <1>1, <1>3, <2>1, <3>1 DEF Listed
  <2>2. QED
    BY <2>1
<1>6. \A m \in 1..N : cov <= m <=> i0 <= m + K - N
  OBVIOUS
<1>7. cov \in 1..N /\ last \in 0..N
  OBVIOUS
<1> HIDE DEF l, r, N, K, i0
<1>8. ASSUME NEW k \in 1..K, Has(q, E, k), k # i0
      PROVE  Has(r, E, k)
  <2>1. PICK s \in 1..l : Whole(q[s]) /\ Item(q[s], E) = k
    BY <1>1, <1>8 DEF Has
  <2>2. s # 1
    BY <1>8, <2>1 DEF i0
  <2>3. s - 1 \in DOMAIN r /\ r[s - 1] = q[s]
    BY <1>1, <1>2, <2>2
  <2>4. QED
    BY <2>1, <2>3 DEF Has
<1>9. Behind(r, E, i0)
  BY <1>1, <1>2, <1>5 DEF Behind
<1>10. ASSUME NEW m \in 1..N
       PROVE  \/ Decides(r, E, m + K - N)
              \/ sh2[m].los = E[m + K - N][1] /\ Behind(r, E, m + K - N)
  <2> DEFINE k == m + K - N
  <2>1. k \in 1..K
    BY <1>3
  <2>2. sh2[m].los = IF cov <= m THEN q[1].los ELSE sh[m].los
    BY <1>3
  <2>3. Decides(q, E, k) \/ (sh[m].los = E[k][1] /\ Behind(q, E, k))
    BY <1>3 DEF Decoded, N, K
  <2>4. CASE sh[m].los = E[k][1] /\ Behind(q, E, k)
    <3>1. k < i0 /\ \A s \in 1..l : Whole(q[s]) => k < Item(q[s], E)
      BY <1>1, <2>4 DEF Behind, i0
    <3>2. ~(cov <= m)
      BY <1>4, <1>6, <2>1, <3>1
    <3>3. Behind(r, E, k)
      BY <1>1, <3>1 DEF Behind
    <3>4. QED
      BY <2>2, <2>4, <3>2, <3>3
  <2>5. CASE Decides(q, E, k)
    <3>1. PICK s \in 1..l : /\ Whole(q[s]) /\ Item(q[s], E) <= k /\ q[s].los = E[k][1]
                            /\ \A t \in 1..l : s < t /\ Whole(q[t]) => k < Item(q[t], E)
      BY <1>1, <2>5 DEF Decides
    <3>2. CASE s = 1
      <4>1. cov <= m
        BY <1>6, <3>1, <3>2 DEF i0
      <4>2. \A t \in 1..l - 1 : 1 < t + 1
        BY <1>1
      <4>3. Behind(r, E, k)
        BY <1>1, <3>1, <3>2, <4>2 DEF Behind
      <4>4. QED
        BY <2>2, <3>1, <3>2, <4>1, <4>3
    <3>3. CASE s # 1
      <4>1. s - 1 \in 1..l - 1 /\ r[s - 1] = q[s]
        BY <1>2, <3>3
      <4>2. \A t \in 1..l - 1 : s - 1 < t => s < t + 1
        BY <1>1
      <4>3. \A t \in 1..l - 1 : s - 1 < t /\ Whole(r[t]) => k < Item(r[t], E)
        BY <1>1, <3>1, <4>2
      <4>4. Decides(r, E, k)
        BY <1>1, <3>1, <4>1, <4>3 DEF Decides
      <4>5. QED
        BY <4>4
    <3>4. QED
      BY <3>2, <3>3
  <2>6. QED
    BY <2>3, <2>4, <2>5
<1>11. ASSUME N = K
       PROVE  Tracks(r, E, sh2, cov)
  <2>1. cov = i0
    <3>1. cov <= cov /\ cov \in 1..N /\ i0 \in 1..N /\ i0 + K - N = i0 /\ cov + K - N = cov
      BY <1>3, <1>4, <1>7, <1>11
    <3>2. i0 <= cov
      BY <1>6, <3>1
    <3>3. cov <= i0
      BY <1>4, <1>6, <3>1
    <3>4. QED
      BY <1>4, <1>7, <3>2, <3>3
  <2>2. Tracks(q, E, sh, last)
    BY <1>11 DEF Decoded, N, K
  <2>3. last < i0
    BY <1>1, <2>2 DEF Tracks, Behind, i0
  <2>4. \A k \in DOMAIN E : cov < k /\ Sends(k, E) => Has(r, E, k)
    <3>1. SUFFICES ASSUME NEW k \in 1..K, i0 < k, Sends(k, E)
                   PROVE  Has(r, E, k)
      BY <1>3, <2>1
    <3>2. last < k /\ k # i0
      BY <1>4, <1>7, <2>3, <3>1
    <3>3. Has(q, E, k)
      BY <1>3, <2>2, <3>1, <3>2 DEF Tracks
    <3>4. QED
      BY <1>8, <3>2, <3>3
  <2>5. ASSUME NEW s \in 1..l - 1, Run(r, s)
        PROVE  Follows(q, 1, s + 1) /\ s + 1 \in 1..l /\ r[s] = q[s + 1]
    <3>1. s + 1 \in 1..l /\ r[s] = q[s + 1] /\ 1 < s + 1
      BY <1>1
    <3>2. \A t \in 2..s + 1 : t - 1 \in 1..s /\ t \in 1..l /\ t # 1
      BY <1>1
    <3>3. \A t \in 2..s + 1 : ~Whole(q[t])
      BY <1>2, <2>5, <3>2 DEF Run
    <3>4. QED
      BY <3>1, <3>3 DEF Follows
  <2>6. Splits(r, E, sh2, cov)
    <3>1. ASSUME NEW m \in 1..N, sh2[m].tempShape # <<>>
          PROVE  /\ m <= cov /\ Sends(m, E) /\ sh2[m].tempShape[1].los = E[m][1]
                 /\ \A n \in 2..Len(sh2[m].tempShape) : sh2[m].tempShape[n].los # E[m][1]
      <4>1. sh2[m].tempShape = sh[m].tempShape
        BY <1>3
      <4>2. /\ m <= last /\ Sends(m, E) /\ sh[m].tempShape[1].los = E[m][1]
            /\ \A n \in 2..Len(sh[m].tempShape) : sh[m].tempShape[n].los # E[m][1]
        BY <1>3, <2>2, <3>1, <4>1 DEF Tracks, Splits
      <4>3. m <= cov
        BY <1>4, <1>7, <2>1, <2>3, <4>2
      <4>4. QED
        BY <4>1, <4>2, <4>3
    <3>2. ASSUME NEW s \in 1..l - 1, Run(r, s)
          PROVE  r[s].los # E[i0][1]
      <4>1. q[s + 1].los # q[1].los
        <5>1. Follows(q, 1, s + 1) /\ s + 1 \in 1..l
          BY <2>5, <3>2
        <5>2. \A a, b \in 1..l : Follows(q, b, a) => q[a].los # q[b].los
          BY <1>1 DEF Listed
        <5>3. QED
          BY <1>1, <5>1, <5>2
      <4>2. QED
        BY <1>4, <2>5, <3>2, <4>1
    <3>3. QED
      BY <1>1, <1>3, <2>1, <3>1, <3>2 DEF Splits
  <2>7. ASSUME Express(E)
        PROVE  Completes(r, E, sh2, cov)
    <3>1. Completes(q, E, sh, last)
      BY <2>2, <2>7 DEF Tracks
    <3>2. \A m \in 1..N : Count(sh2[m]) = Count(sh[m]) /\ sh2[m].tempShape = sh[m].tempShape
      BY <1>3 DEF Count
    <3>3. \A m \in 1..N : \A n \in DOMAIN sh[m].tempShape :
             n \in DOMAIN E[m] /\ sh[m].tempShape[n].los = E[m][n]
      BY <1>3, <3>1 DEF Completes
    <3>4. ASSUME NEW m \in 1..N
          PROVE  Count(sh[m]) \in 1..Len(E[m])
      <4>1. m \in DOMAIN E /\ sh[m].tempShape \in Seq(Part)
        <5>1. sh[m] \in Show
          BY ElementOfSeq DEF N
        <5>2. QED
          BY <1>3, <5>1 DEF Show
      <4>2. QED
        BY <3>3, <4>1, Counted
    <3>5. \A m \in 1..N : i0 <= m => sh[m].tempShape = <<>>
      <4>1. \A m \in 1..N : sh[m].tempShape # <<>> => m <= last
        BY <1>3, <2>2 DEF Tracks, Splits
      <4>2. QED
        BY <1>4, <1>7, <2>3, <4>1
    <3>6. ASSUME NEW m \in 1..N, m < i0
          PROVE  Count(sh[m]) = Len(E[m])
      <4>1. CASE m < last
        BY <1>3, <3>1, <4>1 DEF Completes
      <4>2. CASE m = last
        <5> DEFINE c == Count(sh[m])
                   e == Len(E[m])
        <5>1. last # 0 /\ c \in 1..e /\ e \in Nat
          <6>1. m \in DOMAIN E /\ Len(E[m]) \in Nat
            BY <1>3, LenProperties DEF Entries
          <6>2. last # 0
            BY <1>3, <4>2
          <6>3. QED
            BY <3>4, <6>1, <6>2
        <5>2. \A n \in c + 1..e : ~Whole(q[n - c])
          BY <3>1, <4>2, <5>1 DEF Completes
        <5> HIDE DEF c, e
        <5>3. ~(c + 1 \in c + 1..e)
          <6>1. (c + 1) - c = 1
            BY <5>1
          <6>2. QED
            BY <5>2, <6>1
        <5>4. c = e
          BY <5>1, <5>3
        <5>5. QED
          BY <5>4 DEF c, e
      <4>3. CASE last < m
        <5>1. sh[m].tempShape = <<>>
          <6>1. sh[m].tempShape # <<>> => m <= last
            BY <1>3, <2>2 DEF Tracks, Splits
          <6>2. QED
            BY <1>7, <4>3, <6>1
        <5>2. ~Has(q, E, m)
          <6>1. \A s \in 1..l : Whole(q[s]) => Item(q[s], E) # m
            BY <1>4, <1>5, <3>6 DEF i0
          <6>2. QED
            BY <1>1, <6>1 DEF Has
        <5>3. m \in DOMAIN E /\ ~Sends(m, E)
          BY <1>3, <2>2, <4>3, <5>2 DEF Tracks
        <5>4. Len(E[m]) = 1
          BY <2>7, <5>3, Silent
        <5>5. QED
          BY <5>1, <5>4 DEF Count
      <4>4. QED
        BY <1>7, <4>1, <4>2, <4>3
    <3>7. i0 \in 1..N /\ Count(sh[i0]) = 1 /\ cov = i0 /\ Count(sh2[cov]) = 1
      <4>1. i0 \in 1..N /\ i0 <= i0
        BY <1>4, <1>11
      <4>2. QED
        BY <2>1, <3>2, <3>5, <4>1 DEF Count
    <3>8. ASSUME NEW s \in 1..l - 1, Run(r, s)
          PROVE  1 + s \in DOMAIN E[i0] /\ r[s].los = E[i0][1 + s]
      <4>1. Follows(q, 1, s + 1) /\ s + 1 \in 1..l /\ r[s] = q[s + 1]
        BY <2>5, <3>8
      <4>2. /\ (s + 1) - 1 + 1 \in DOMAIN E[i0]
            /\ q[s + 1].los = E[i0][(s + 1) - 1 + 1]
        BY <1>1, <2>7, <4>1 DEF Listed, i0
      <4>3. (s + 1) - 1 + 1 = 1 + s
        BY <1>1
      <4>4. QED
        BY <4>1, <4>2, <4>3
    <3>9. ASSUME NEW n \in 1 + 1..Len(E[i0])
          PROVE  n - 1 \in 1..l - 1 /\ ~Whole(r[n - 1])
      <4>1. n \in 2..Len(E[i0])
        OBVIOUS
      <4>2. 1 + n - 1 \in 1..l /\ ~Whole(q[1 + n - 1])
        BY <1>1, <2>7, <4>1 DEF Listed, i0
      <4>3. 1 + n - 1 = n /\ n # 1
        BY <4>1
      <4>4. QED
        BY <1>2, <4>2, <4>3
    <3>10. \A m \in 1..N : m < cov => Count(sh2[m]) = Len(E[m])
      BY <3>2, <3>6, <3>7
    <3>11. \A m \in 1..N : \A n \in DOMAIN sh2[m].tempShape :
             n \in DOMAIN E[m] /\ sh2[m].tempShape[n].los = E[m][n]
      <4>1. SUFFICES ASSUME NEW m \in 1..N
                     PROVE  \A n \in DOMAIN sh2[m].tempShape :
                               n \in DOMAIN E[m] /\ sh2[m].tempShape[n].los = E[m][n]
        OBVIOUS
      <4>2. sh2[m].tempShape = sh[m].tempShape
        BY <3>2
      <4>3. \A n \in DOMAIN sh[m].tempShape :
               n \in DOMAIN E[m] /\ sh[m].tempShape[n].los = E[m][n]
        BY <3>3
      <4>4. QED
        BY <4>2, <4>3
    <3>12. DOMAIN sh2 = 1..N
      BY <1>3
    <3>13. QED
      BY <1>1, <3>7, <3>8, <3>9, <3>10, <3>11, <3>12 DEF Completes
  <2>8. QED
    BY <1>4, <1>9, <2>1, <2>4, <2>6, <2>7 DEF Tracks
<1>12. cov # 0
  BY <1>7
<1>13. QED
  <2>1. DOMAIN sh2 = 1..N /\ Len(sh2) = N
    BY <1>3 DEF N
  <2>2. Single(E) => /\ \A s \in DOMAIN r : Whole(r[s])
                     /\ \A m \in DOMAIN sh2 : sh2[m].tempShape = <<>>
    BY <1>1, <1>3, <2>1 DEF Decoded
  <2>3. QED
    BY <1>10, <1>11, <1>12, <2>1, <2>2 DEF Decoded, r, K

(* A relative section adds a part to the location at last. *)
LEMMA RelativeIsTaken ==
    ASSUME NEW E, Entries(E), NEW q \in Seq(Section), q # <<>>, ~Whole(q[1]),
           NEW sh \in Seq(Show), NEW last \in 1..Len(sh), Len(sh) <= Len(E), Decoded(q, E, sh, last),
           NEW sh2, DOMAIN sh2 = DOMAIN sh, Len(sh2) = Len(sh),
           \A m \in DOMAIN sh : m # last => sh2[m] = sh[m],
           sh2[last].los = sh[last].los,
           sh2[last].tempShape # <<>>,
           Len(sh2[last].tempShape) = Count(sh[last]) + 1,
           DOMAIN sh2[last].tempShape = 1..Count(sh[last]) + 1,
           sh2[last].tempShape[Count(sh[last]) + 1].los = q[1].los,
           sh[last].tempShape = <<>> => sh2[last].tempShape[1].los = sh[last].los,
           sh[last].tempShape # <<>> =>
              \A n \in 1..Count(sh[last]) : sh2[last].tempShape[n].los = sh[last].tempShape[n].los
    PROVE  Decoded(Tail(q), E, sh2, last)
<1> DEFINE l == Len(q)
           r == Tail(q)
           N == Len(sh)
           K == Len(E)
           old == sh[last].tempShape
           new == sh2[last].tempShape
           c == Count(sh[last])
<1>1. /\ l \in Nat \ {0} /\ DOMAIN q = 1..l /\ 1 \in 1..l /\ r \in Seq(Section) /\ DOMAIN r = 1..l - 1
      /\ \A s \in 1..l - 1 : r[s] = q[s + 1] /\ s + 1 \in 1..l
  BY TailOf
<1>2. \A s \in 1..l : s # 1 => s - 1 \in 1..l - 1 /\ r[s - 1] = q[s]
  BY TailOf
<1>3. N \in Nat /\ DOMAIN sh = 1..N /\ K \in Nat /\ DOMAIN E = 1..K /\ N <= K /\ last \in 1..N
  BY LenProperties DEF Entries
<1>4. /\ old = <<>> => c = 1
      /\ old # <<>> => c = Len(old) /\ DOMAIN old = 1..c
      /\ c \in Nat \ {0}
  <2>1. old \in Seq(Part)
    <3>1. sh[last] \in Show
      BY ElementOfSeq
    <3>2. QED
      BY <3>1 DEF Show
  <2>2. old # <<>> => Len(old) \in Nat \ {0} /\ DOMAIN old = 1..Len(old)
    BY <2>1, LenProperties, EmptySeq
  <2>3. QED
    BY <2>2 DEF Count
<1>5. /\ new # <<>> /\ Len(new) = c + 1 /\ DOMAIN new = 1..c + 1 /\ new[c + 1].los = q[1].los
      /\ old = <<>> => new[1].los = sh[last].los
      /\ old # <<>> => \A n \in 1..c : new[n].los = old[n].los
  OBVIOUS
<1>6. Count(sh2[last]) = c + 1
  BY <1>5 DEF Count
<1>7. \A m \in 1..N : m # last => sh2[m] = sh[m]
  BY <1>3
<1>8. \A m \in 1..N : sh2[m].los = sh[m].los
  BY <1>7
<1> HIDE DEF l, r, N, K, old, new, c
<1>9. ASSUME NEW k, Has(q, E, k)
      PROVE  Has(r, E, k)
  <2>1. PICK s \in 1..l : Whole(q[s]) /\ Item(q[s], E) = k
    BY <1>1, <1>9 DEF Has
  <2>2. s - 1 \in DOMAIN r /\ r[s - 1] = q[s]
    BY <1>1, <1>2, <2>1
  <2>3. QED
    BY <2>1, <2>2 DEF Has
<1>10. ASSUME NEW k, Behind(q, E, k)
       PROVE  Behind(r, E, k)
  BY <1>1, <1>10 DEF Behind
<1>11. ASSUME NEW k, Decides(q, E, k)
       PROVE  Decides(r, E, k)
  <2>1. PICK s \in 1..l : /\ Whole(q[s]) /\ Item(q[s], E) <= k /\ q[s].los = E[k][1]
                          /\ \A t \in 1..l : s < t /\ Whole(q[t]) => k < Item(q[t], E)
    BY <1>1, <1>11 DEF Decides
  <2>2. s - 1 \in 1..l - 1 /\ r[s - 1] = q[s]
    BY <1>2, <2>1
  <2>3. \A t \in 1..l - 1 : s - 1 < t => s < t + 1
    BY <1>1
  <2>4. \A t \in 1..l - 1 : s - 1 < t /\ Whole(r[t]) => k < Item(r[t], E)
    BY <1>1, <2>1, <2>3
  <2>5. QED
    BY <1>1, <2>1, <2>2, <2>4 DEF Decides
<1>12. ASSUME NEW s \in 1..l - 1, Run(r, s)
       PROVE  Run(q, s + 1) /\ s + 1 \in 1..l /\ r[s] = q[s + 1]
  <2>1. \A t \in 1..s + 1 : t # 1 => t - 1 \in 1..s /\ t \in 1..l
    BY <1>1
  <2>2. \A t \in 1..s + 1 : ~Whole(q[t])
    BY <1>2, <1>12, <2>1 DEF Run
  <2>3. QED
    BY <1>1, <2>2 DEF Run
<1>13. Run(q, 1)
  BY DEF Run
<1>14. \A m \in 1..N : \/ Decides(r, E, m + K - N)
                       \/ sh2[m].los = E[m + K - N][1] /\ Behind(r, E, m + K - N)
  <2>1. SUFFICES ASSUME NEW m \in 1..N
                 PROVE  \/ Decides(r, E, m + K - N)
                        \/ sh2[m].los = E[m + K - N][1] /\ Behind(r, E, m + K - N)
    OBVIOUS
  <2>2. \/ Decides(q, E, m + K - N)
        \/ sh[m].los = E[m + K - N][1] /\ Behind(q, E, m + K - N)
    BY <1>3 DEF Decoded, N, K
  <2>3. QED
    BY <1>8, <1>10, <1>11, <2>2
<1>15. ASSUME N = K
       PROVE  Tracks(r, E, sh2, last)
  <2>1. Tracks(q, E, sh, last)
    BY <1>15 DEF Decoded, N, K
  <2>2. last # 0 /\ Sends(last, E) /\ Behind(q, E, last)
    BY <1>3, <2>1 DEF Tracks
  <2>3. sh[last].los = E[last][1]
    <3>1. last + K - N = last
      BY <1>3, <1>15
    <3>2. Decides(q, E, last) \/ sh[last].los = E[last][1]
      BY <1>3, <3>1 DEF Decoded, N, K
    <3>3. ASSUME Decides(q, E, last)
          PROVE  FALSE
      <4>1. PICK s \in 1..l : Whole(q[s]) /\ Item(q[s], E) <= last
        BY <1>1, <3>3 DEF Decides
      <4>2. last < Item(q[s], E)
        BY <1>1, <2>2, <4>1 DEF Behind
      <4>3. Item(q[s], E) \in Int
        <5>1. q[s] \in Section
          BY <1>1, ElementOfSeq DEF l
        <5>2. QED
          BY <1>3, <5>1 DEF Section, Item, K
      <4>4. QED
        BY <1>3, <4>1, <4>2, <4>3
    <3>4. QED
      BY <3>2, <3>3
  <2>4. \A k \in DOMAIN E : last < k /\ Sends(k, E) => Has(r, E, k)
    BY <1>9, <2>1 DEF Tracks
  <2>5. Splits(r, E, sh2, last)
    <3>1. /\ \A m \in 1..N : sh[m].tempShape # <<>> =>
                /\ m <= last /\ Sends(m, E) /\ sh[m].tempShape[1].los = E[m][1]
                /\ \A n \in 2..Len(sh[m].tempShape) : sh[m].tempShape[n].los # E[m][1]
          /\ \A s \in 1..l : Run(q, s) => q[s].los # E[last][1]
      BY <1>1, <1>3, <2>1, <2>2 DEF Tracks, Splits
    <3>2. new[1].los = E[last][1] /\ \A n \in 2..Len(new) : new[n].los # E[last][1]
      <4>1. q[1].los # E[last][1]
        BY <1>1, <1>13, <3>1
      <4>2. CASE old = <<>>
        <5>1. \A n \in 2..c + 1 : n = c + 1
          BY <1>4, <4>2
        <5>2. QED
          BY <1>5, <2>3, <4>1, <4>2, <5>1
      <4>3. CASE old # <<>>
        <5>1. old[1].los = E[last][1] /\ \A n \in 2..c : old[n].los # E[last][1]
          BY <1>3, <1>4, <3>1, <4>3 DEF old
        <5>2. /\ 1 \in 1..c
              /\ \A n \in 2..c + 1 : n = c + 1 \/ (n \in 2..c /\ n \in 1..c)
          BY <1>4
        <5>3. QED
          BY <1>5, <4>1, <4>3, <5>1, <5>2
      <4>4. QED
        BY <4>2, <4>3
    <3>3. ASSUME NEW m \in 1..N, sh2[m].tempShape # <<>>
          PROVE  /\ m <= last /\ Sends(m, E) /\ sh2[m].tempShape[1].los = E[m][1]
                 /\ \A n \in 2..Len(sh2[m].tempShape) : sh2[m].tempShape[n].los # E[m][1]
      <4>1. CASE m = last
        BY <1>3, <2>2, <3>2, <4>1 DEF new
      <4>2. CASE m # last
        <5>1. sh2[m] = sh[m]
          BY <1>7, <4>2
        <5>2. QED
          BY <3>1, <3>3, <5>1
      <4>3. QED
        BY <4>1, <4>2
    <3>4. \A s \in 1..l - 1 : Run(r, s) => r[s].los # E[last][1]
      BY <1>12, <3>1
    <3>5. DOMAIN sh2 = 1..N
      BY <1>3
    <3>6. QED
      BY <1>1, <3>3, <3>4, <3>5 DEF Splits
  <2>6. ASSUME Express(E)
        PROVE  Completes(r, E, sh2, last)
    <3>1. Completes(q, E, sh, last)
      BY <2>1, <2>6 DEF Tracks
    <3>2. /\ \A s \in 1..l : Run(q, s) => c + s \in DOMAIN E[last] /\ q[s].los = E[last][c + s]
          /\ \A n \in c + 1..Len(E[last]) : n - c \in 1..l /\ ~Whole(q[n - c])
      BY <1>1, <2>2, <3>1 DEF Completes, c
    <3>3. \A n \in 1..c + 1 : n \in DOMAIN E[last] /\ new[n].los = E[last][n]
      <4>1. c + 1 \in DOMAIN E[last] /\ q[1].los = E[last][c + 1]
        BY <1>1, <1>13, <3>2
      <4>2. CASE old = <<>>
        <5>1. \A n \in 1..c + 1 : n = 1 \/ n = c + 1
          BY <1>4, <4>2
        <5>2. 1 \in DOMAIN E[last]
          <6>1. E[last] \in Seq(Los) /\ Len(E[last]) \in Nat \ {0}
            <7>1. last \in DOMAIN E /\ last \in 1..Len(E)
              BY <1>3 DEF K
            <7>2. QED
              BY <7>1, ElementOfSeq DEF Entries
          <6>2. DOMAIN E[last] = 1..Len(E[last])
            BY <6>1, LenProperties
          <6>3. QED
            BY <6>1, <6>2
        <5>3. QED
          BY <1>5, <2>3, <4>1, <4>2, <5>1, <5>2
      <4>3. CASE old # <<>>
        <5>1. \A n \in 1..c : n \in DOMAIN E[last] /\ old[n].los = E[last][n]
          BY <1>3, <1>4, <3>1, <4>3 DEF Completes, old
        <5>2. \A n \in 1..c + 1 : n = c + 1 \/ n \in 1..c
          BY <1>4
        <5>3. QED
          BY <1>5, <4>1, <4>3, <5>1, <5>2
      <4>4. QED
        BY <4>2, <4>3
    <3>4. ASSUME NEW m \in 1..N, NEW n \in DOMAIN sh2[m].tempShape
          PROVE  n \in DOMAIN E[m] /\ sh2[m].tempShape[n].los = E[m][n]
      <4>1. CASE m = last
        <5>1. n \in 1..c + 1
          BY <1>5, <3>4, <4>1 DEF new
        <5>2. n \in DOMAIN E[last] /\ new[n].los = E[last][n]
          BY <3>3, <5>1
        <5>3. QED
          BY <4>1, <5>2 DEF new
      <4>2. CASE m # last
        <5>1. sh2[m] = sh[m]
          BY <1>7, <4>2
        <5>2. \A i \in DOMAIN sh[m].tempShape : i \in DOMAIN E[m] /\ sh[m].tempShape[i].los = E[m][i]
          BY <1>3, <3>1 DEF Completes
        <5>3. QED
          BY <3>4, <5>1, <5>2
      <4>3. QED
        BY <4>1, <4>2
    <3>5. ASSUME NEW m \in 1..N, m < last
          PROVE  Count(sh2[m]) = Len(E[m])
      <4>1. sh2[m] = sh[m]
        BY <1>3, <1>7, <3>5
      <4>2. QED
        BY <1>3, <3>1, <3>5, <4>1 DEF Completes
    <3>6. ASSUME NEW s \in 1..l - 1, Run(r, s)
          PROVE  (c + 1) + s \in DOMAIN E[last] /\ r[s].los = E[last][(c + 1) + s]
      <4>1. Run(q, s + 1) /\ s + 1 \in 1..l /\ r[s] = q[s + 1]
        BY <1>12, <3>6
      <4>2. c + (s + 1) \in DOMAIN E[last] /\ q[s + 1].los = E[last][c + (s + 1)]
        BY <3>2, <4>1
      <4>3. c + (s + 1) = (c + 1) + s
        BY <1>4
      <4>4. QED
        BY <4>1, <4>2, <4>3
    <3>7. ASSUME NEW n \in (c + 1) + 1..Len(E[last])
          PROVE  n - (c + 1) \in 1..l - 1 /\ ~Whole(r[n - (c + 1)])
      <4>1. n \in c + 1..Len(E[last]) /\ n \in Int /\ n - c # 1
        BY <1>4
      <4>2. n - c \in 1..l /\ ~Whole(q[n - c])
        BY <3>2, <4>1
      <4>3. (n - c) - 1 \in 1..l - 1 /\ r[(n - c) - 1] = q[n - c]
        BY <1>2, <4>1, <4>2
      <4>4. (n - c) - 1 = n - (c + 1)
        BY <1>4, <4>1
      <4>5. QED
        BY <4>2, <4>3, <4>4
    <3>8. DOMAIN sh2 = 1..N
      BY <1>3
    <3>9. QED
      BY <1>1, <1>6, <3>4, <3>5, <3>6, <3>7, <3>8 DEF Completes
  <2>7. QED
    BY <1>10, <2>2, <2>4, <2>5, <2>6 DEF Tracks
<1>16. last # 0
  BY <1>3
<1>17. QED
  <2>1. DOMAIN sh2 = 1..N /\ Len(sh2) = N
    BY <1>3 DEF N
  <2>2. ~Single(E)
    BY <1>1 DEF Decoded
  <2>3. QED
    BY <1>14, <1>15, <1>16, <2>1, <2>2 DEF Decoded, r, K

(* What is shown for a location. *)
Given(ts) == IF ts.tempShape = <<>> THEN <<ts.los>> ELSE LosOf(ts.tempShape)

LEMMA DecodingEnds ==
    ASSUME NEW E, Entries(E), NEW sh \in Seq(Show), NEW last \in 0..Len(sh), Len(sh) <= Len(E),
           Decoded(<<>>, E, sh, last)
    PROVE  /\ \A m \in DOMAIN sh : sh[m].los = E[m + Len(E) - Len(sh)][1]
           /\ Len(sh) = Len(E) => ((\A m \in DOMAIN sh : Given(sh[m]) = E[m]) <=> Express(E))
           /\ Single(E) => \A m \in DOMAIN sh : sh[m].tempShape = <<>>
<1> DEFINE N == Len(sh)
           K == Len(E)
           none == <<>>
<1>1. N \in Nat /\ DOMAIN sh = 1..N /\ K \in Nat /\ DOMAIN E = 1..K /\ N <= K /\ last \in 0..N
  BY LenProperties DEF Entries
<1>2. DOMAIN none = {}
  OBVIOUS
<1>3. \A k : ~Decides(none, E, k) /\ ~Has(none, E, k)
  BY <1>2 DEF Decides, Has
<1>4. \A m \in 1..N : sh[m].los = E[m + K - N][1]
  <2>1. Decoded(none, E, sh, last)
    OBVIOUS
  <2> HIDE DEF none
  <2>2. QED
    BY <1>1, <1>3, <2>1 DEF Decoded
<1>5. \A m \in 1..N : sh[m].tempShape \in Seq(Part)
  <2>1. \A m \in 1..N : sh[m] \in Show
    BY ElementOfSeq
  <2>2. QED
    BY <2>1 DEF Show
<1>6. \A p \in Part : p.los \in Los
  BY DEF Part
<1>7. \A k \in 1..K : /\ E[k] \in Seq(Los) /\ Len(E[k]) \in Nat \ {0} /\ DOMAIN E[k] = 1..Len(E[k])
                      /\ \A n \in 1..Len(E[k]) - 1 : E[k][n] # E[k][n + 1]
  <2>1. \A k \in 1..K : /\ E[k] \in Seq(Los) /\ Len(E[k]) \in Nat \ {0}
                        /\ \A n \in 1..Len(E[k]) - 1 : E[k][n] # E[k][n + 1]
    BY <1>1, ElementOfSeq DEF Entries
  <2>2. QED
    BY <2>1, LenProperties
<1>8. ASSUME N = K
      PROVE  (\A m \in 1..N : Given(sh[m]) = E[m]) <=> Express(E)
  <2>1. Tracks(none, E, sh, last)
    BY <1>8 DEF Decoded
  <2>2. \A m \in 1..N : sh[m].los = E[m][1]
    <3>1. \A m \in 1..N : m + K - N = m
      BY <1>1, <1>8
    <3>2. QED
      BY <1>4, <3>1
  <2> HIDE DEF N, K, none
  <2>3. \A m \in 1..N : sh[m].tempShape # <<>> =>
           /\ m <= last /\ Sends(m, E) /\ sh[m].tempShape[1].los = E[m][1]
           /\ \A n \in 2..Len(sh[m].tempShape) : sh[m].tempShape[n].los # E[m][1]
    BY <1>1, <2>1 DEF Tracks, Splits
  <2>4. ASSUME NEW k \in 1..N, Given(sh[k]) = E[k]
        PROVE  /\ \A n \in 2..Len(E[k]) : E[k][n] # E[k][1]
               /\ Len(E[k]) > 1 /\ k > 1 => E[k][1] # E[k - 1][1]
    <3>1. CASE sh[k].tempShape = <<>>
      <4>1. E[k] = <<sh[k].los>>
        BY <2>4, <3>1 DEF Given
      <4>2. Len(E[k]) = 1
        BY <4>1
      <4> DEFINE n == Len(E[k])
      <4> HIDE DEF n
      <4>3. n = 1
        BY <4>2 DEF n
      <4>4. ~(n > 1) /\ 2..n = {}
        BY <4>3
      <4>5. QED
        BY <4>4 DEF n
    <3>2. CASE sh[k].tempShape # <<>>
      <4>1. E[k] = LosOf(sh[k].tempShape)
        BY <2>4, <3>2 DEF Given
      <4>2. \A n \in 2..Len(sh[k].tempShape) : sh[k].tempShape[n].los # sh[k].tempShape[1].los
        BY <2>3, <3>2
      <4>3. \A n \in 2..Len(LosOf(sh[k].tempShape)) :
               LosOf(sh[k].tempShape)[n] # LosOf(sh[k].tempShape)[1]
        BY <1>5, <1>6, <3>2, <4>2, LosOfFirst
      <4>4. Sends(k, E)
        BY <2>3, <3>2
      <4>5. k > 1 => E[k][1] # E[k - 1][1]
        BY <4>4 DEF Sends
      <4>6. QED
        BY <4>1, <4>3, <4>5
    <3>3. QED
      BY <3>1, <3>2
  <2>5. ASSUME \A m \in 1..N : Given(sh[m]) = E[m]
        PROVE  Express(E)
    BY <1>1, <1>8, <2>4, <2>5 DEF Express
  <2>6. ASSUME Express(E), NEW m \in 1..N
        PROVE  Given(sh[m]) = E[m]
    <3>1. Completes(none, E, sh, last)
      BY <2>1, <2>6 DEF Tracks
    <3>2. \A n \in DOMAIN sh[m].tempShape : n \in DOMAIN E[m] /\ sh[m].tempShape[n].los = E[m][n]
      BY <1>1, <3>1 DEF Completes
    <3>3. m \in DOMAIN E
      BY <1>1, <1>8
    <3>4. Count(sh[m]) \in 1..Len(E[m]) /\ (sh[m].tempShape # <<>> => DOMAIN sh[m].tempShape = 1..Count(sh[m]))
      BY <1>5, <3>2, <3>3, Counted
    <3>5. Count(sh[m]) = Len(E[m])
      <4>1. CASE m < last
        BY <1>1, <3>1, <4>1 DEF Completes
      <4>2. CASE m = last
        <5>1. last # 0
          BY <1>1, <4>2
        <5>2. \A n \in Count(sh[m]) + 1..Len(E[m]) : FALSE
          BY <1>2, <3>1, <4>2, <5>1 DEF Completes
        <5> DEFINE c == Count(sh[m])
                   e == Len(E[m])
        <5>3. c \in 1..e /\ e \in Nat
          BY <1>7, <3>3, <3>4, <1>1
        <5> HIDE DEF c, e
        <5>4. \A n \in c + 1..e : FALSE
          BY <5>2 DEF c, e
        <5>5. c = e
          <6>1. c < e => c + 1 \in c + 1..e
            BY <5>3
          <6>2. QED
            BY <5>3, <5>4, <6>1
        <5>6. QED
          BY <5>5 DEF c, e
      <4>3. CASE last < m
        <5>1. sh[m].tempShape = <<>>
          <6>1. sh[m].tempShape # <<>> => m <= last
            BY <2>3
          <6>2. QED
            BY <1>1, <4>3, <6>1
        <5>2. ~Sends(m, E)
          BY <1>3, <2>1, <3>3, <4>3 DEF Tracks
        <5>3. Len(E[m]) = 1
          BY <2>6, <3>3, <5>2, Silent
        <5>4. QED
          BY <5>1, <5>3 DEF Count
      <4>4. QED
        BY <1>1, <4>1, <4>2, <4>3
    <3>6. CASE sh[m].tempShape = <<>>
      <4>1. E[m] \in Seq(Los) /\ Len(E[m]) = 1 /\ E[m][1] = sh[m].los
        BY <1>1, <1>7, <2>2, <3>3, <3>5, <3>6 DEF Count
      <4> DEFINE e == E[m]
      <4> HIDE DEF e
      <4>2. e \in Seq(Los) /\ Len(e) = 1 /\ e[1] = sh[m].los
        BY <4>1 DEF e
      <4>3. e = <<sh[m].los>>
        BY <4>2
      <4>4. QED
        BY <3>6, <4>3 DEF Given, e
    <3>7. CASE sh[m].tempShape # <<>>
      <4> DEFINE p == sh[m].tempShape
                 e == E[m]
      <4>1. /\ p \in Seq(Part) /\ Len(p) = Len(e)
            /\ e \in Seq(Los) /\ \A n \in 1..Len(e) - 1 : e[n] # e[n + 1]
            /\ Len(e) \in Nat /\ DOMAIN p = 1..Len(p)
        BY <1>1, <1>5, <1>7, <3>3, <3>5, <3>7, LenProperties DEF Count
      <4>2. \A n \in DOMAIN p : p[n].los = e[n]
        BY <3>2
      <4>3. Given(sh[m]) = LosOf(p) /\ p # <<>>
        BY <3>7 DEF Given
      <4> HIDE DEF p, e
      <4>4. \A n \in 1..Len(p) - 1 : p[n].los # p[n + 1].los
        <5>1. \A n \in 1..Len(e) - 1 : n \in 1..Len(e) /\ n + 1 \in 1..Len(e)
          BY <4>1
        <5>2. QED
          BY <4>1, <4>2, <5>1
      <4>5. DOMAIN LosOf(p) = 1..Len(p) /\ \A i \in 1..Len(p) : LosOf(p)[i] = p[i].los
        BY <1>6, <4>1, <4>4, LosOfDistinct
      <4>6. LosOf(p) \in Seq(Los)
        BY <1>6, <4>1, <4>3, LosFacts
      <4> DEFINE o == LosOf(p)
      <4> HIDE DEF o
      <4>7. o \in Seq(Los) /\ DOMAIN o = DOMAIN e /\ \A i \in DOMAIN e : o[i] = e[i]
        <5>1. DOMAIN e = 1..Len(e)
          BY <4>1, LenProperties
        <5>2. QED
          BY <4>1, <4>2, <4>5, <4>6, <5>1 DEF o
      <4>8. o = e
        <5>1. o = [i \in DOMAIN o |-> o[i]] /\ e = [i \in DOMAIN e |-> e[i]]
          BY <4>1, <4>7, SeqDef
        <5>2. QED
          BY <4>7, <5>1
      <4>9. QED
        BY <4>3, <4>8 DEF o, e
    <3>8. QED
      BY <3>6, <3>7
  <2>7. QED
    BY <2>5, <2>6
<1>9. Single(E) => \A m \in DOMAIN sh : sh[m].tempShape = <<>>
  BY DEF Decoded
<1>10. QED
  BY <1>1, <1>4, <1>8, <1>9

-----------------------------------------------------------------------------
(* The parts of a location.                                                *)

LEMMA FrontAndLast ==
    ASSUME NEW S, NEW s \in Seq(S), s # <<>>
    PROVE  /\ Len(s) \in Nat \ {0} /\ DOMAIN s = 1..Len(s) /\ \A i \in 1..Len(s) : s[i] \in S
           /\ Front(s) \in Seq(S) /\ Len(Front(s)) = Len(s) - 1
           /\ \A i \in 1..Len(s) - 1 : Front(s)[i] = s[i]
           /\ Last(s) = s[Len(s)] /\ Head(s) = s[1]
<1>1. Len(s) \in Nat \ {0} /\ DOMAIN s = 1..Len(s) /\ \A i \in 1..Len(s) : s[i] \in S
  BY LenProperties, EmptySeq
<1>2. \A i \in 1..Len(s) - 1 : s[i] \in S
  BY <1>1
<1>3. /\ SubSeq(s, 1, Len(s) - 1) \in Seq(S)
      /\ Len(SubSeq(s, 1, Len(s) - 1)) = IF 1 <= Len(s) - 1 THEN Len(s) - 1 - 1 + 1 ELSE 0
      /\ \A i \in 1..Len(s) - 1 - 1 + 1 : SubSeq(s, 1, Len(s) - 1)[i] = s[1 + i - 1]
  BY <1>1, <1>2, SubSeqProperties
<1>4. Last(s) = s[Len(s)] /\ Head(s) = s[1]
  BY DEF Last
<1> DEFINE f == SubSeq(s, 1, Len(s) - 1)
           l == Len(s)
<1>5. Front(s) = f
  BY DEF Front
<1>6. f \in Seq(S) /\ Len(f) = (IF 1 <= l - 1 THEN l - 1 - 1 + 1 ELSE 0) /\ l \in Nat \ {0}
      /\ \A i \in 1..l - 1 - 1 + 1 : f[i] = s[1 + i - 1]
  BY <1>1, <1>3
<1> HIDE DEF f, l
<1>7. Len(f) = l - 1 /\ \A i \in 1..l - 1 : f[i] = s[i]
  BY <1>6
<1>8. QED
  BY <1>1, <1>4, <1>5, <1>6, <1>7 DEF l

Rising(line) == \A x, y \in DOMAIN line : x < y => line[x] <= line[y]

(* splitShape cuts a line in two that follow each other. *)
LEMMA LineIsSplit ==
    ASSUME NEW piece \in Part, piece.shape # <<>>, Rising(piece.shape), NEW distance \in Nat, NEW los \in Los
    PROVE  \E a, b \in Part :
              /\ splitShape(piece, distance, los) = <<a, b>>
              /\ a.los = piece.los /\ b.los = los
              /\ b.shape # <<>> /\ Last(b.shape) = Last(piece.shape)
              /\ Rising(a.shape) /\ Rising(b.shape)
              /\ Head(piece.shape) <= Head(b.shape)
              /\ a.shape # <<>> => Head(piece.shape) <= Head(a.shape) /\ Last(a.shape) <= Head(b.shape)
<1> DEFINE line == piece.shape
           L    == Len(line)
           end  == Last(line)
           n    == Beyond(line, distance)
           far  == SubSeq(line, 1, n)
           near == SubSeq(line, n + 1, Len(line))
           cut  == Last(far) + (distance - (end - Head(near)))
<1>1. line \in Seq(Nat) /\ piece.los \in Los /\ line # <<>> /\ Rising(line)
  BY DEF Part
<1>2. /\ L \in Nat \ {0} /\ DOMAIN line = 1..L /\ \A i \in 1..L : line[i] \in Nat
      /\ end = line[L] /\ Head(line) = line[1] /\ end \in Nat
  <2>1. /\ L \in Nat \ {0} /\ DOMAIN line = 1..L /\ \A i \in 1..L : line[i] \in Nat
        /\ end = line[L] /\ Head(line) = line[1]
    BY <1>1, FrontAndLast
  <2>2. L \in 1..L
    BY <2>1
  <2>3. QED
    BY <2>1, <2>2
<1>3. /\ n \in 0..L /\ n < L
      /\ n > 0 => end - line[n] > distance
  BY <1>1, BeyondStops
<1>4. \A i \in n + 1..L : end - line[i] <= distance
  BY <1>1, BeyondStops
<1>5. \A i, k \in 1..L : i <= k => line[i] <= line[k]
  <2>1. \A i, k \in 1..L : i < k => line[i] <= line[k]
    BY <1>1, <1>2 DEF Rising
  <2> HIDE DEF L, line
  <2>2. QED
    BY <1>2, <2>1
<1>6. splitShape(piece, distance, los) =
         IF far = <<>> THEN <<[piece EXCEPT !.shape = <<>>], [los |-> los, shape |-> near]>>
         ELSE <<[piece EXCEPT !.shape = Append(Front(far), cut)], [los |-> los, shape |-> <<cut>> \o near]>>
  BY DEF splitShape
<1>7. \A x \in Seq(Nat) : [piece EXCEPT !.shape = x] = [los |-> piece.los, shape |-> x]
  BY DEF Part
<1> HIDE DEF n, L, line, end
<1>8. far \in Seq(Nat) /\ Len(far) = n /\ \A i \in 1..n : far[i] = line[i]
  <2>1. \A i \in 1..n : line[i] \in Nat
    BY <1>2, <1>3
  <2>2. /\ far \in Seq(Nat) /\ Len(far) = (IF 1 <= n THEN n - 1 + 1 ELSE 0)
        /\ \A i \in 1..n - 1 + 1 : far[i] = line[1 + i - 1]
    BY <1>3, <2>1, SubSeqProperties
  <2> HIDE DEF far
  <2>3. QED
    BY <1>2, <1>3, <2>2
<1>9. near \in Seq(Nat) /\ Len(near) = L - n /\ \A i \in 1..L - n : near[i] = line[n + i]
  <2>1. \A i \in n + 1..L : line[i] \in Nat
    BY <1>2, <1>3
  <2>2. /\ SubSeq(line, n + 1, L) \in Seq(Nat)
        /\ Len(SubSeq(line, n + 1, L)) = (IF n + 1 <= L THEN L - (n + 1) + 1 ELSE 0)
        /\ \A i \in 1..L - (n + 1) + 1 : SubSeq(line, n + 1, L)[i] = line[n + 1 + i - 1]
    BY <1>2, <1>3, <2>1, SubSeqProperties
  <2>3. near = SubSeq(line, n + 1, L)
    BY DEF L
  <2> HIDE DEF near
  <2>4. QED
    BY <1>2, <1>3, <2>2, <2>3
<1>10. near # <<>> /\ Head(near) = line[n + 1] /\ Last(near) = end /\ DOMAIN near = 1..L - n
  <2>1. Len(near) \in Nat \ {0}
    BY <1>2, <1>3, <1>9
  <2>2. near # <<>>
    <3> HIDE DEF near
    <3>1. QED
      BY <2>1, EmptySeq
  <2>3. Last(near) = near[L - n] /\ Head(near) = near[1] /\ DOMAIN near = 1..L - n
    BY <1>9, <2>2, FrontAndLast
  <2>4. 1 \in 1..L - n /\ L - n \in 1..L - n /\ n + (L - n) = L
    BY <1>2, <1>3
  <2>5. QED
    BY <1>2, <1>9, <2>2, <2>3, <2>4
<1> HIDE DEF far, near
<1>11. \A i \in 1..L - n : n + i \in 1..L
  BY <1>2, <1>3
<1>12. CASE n = 0
  <2> DEFINE a == [los |-> piece.los, shape |-> <<>>]
             b == [los |-> los, shape |-> near]
  <2>1. far = <<>>
    BY <1>8, <1>12, EmptySeq
  <2>2. splitShape(piece, distance, los) = <<a, b>> /\ a \in Part /\ b \in Part
    BY <1>1, <1>6, <1>7, <1>9, <2>1 DEF Part
  <2>3. Rising(near)
    BY <1>2, <1>5, <1>9, <1>10, <1>12 DEF Rising
  <2>4. Rising(<<>>)
    BY DEF Rising
  <2>5. Head(line) <= Head(near)
    BY <1>2, <1>3, <1>10, <1>12
  <2>6. b.shape = near /\ a.shape = <<>> /\ a.los = piece.los /\ b.los = los
    OBVIOUS
  <2> HIDE DEF a, b
  <2>7. QED
    BY <1>10, <2>2, <2>3, <2>4, <2>5, <2>6 DEF line, end
<1>13. CASE n # 0
  <2> DEFINE front == Append(Front(far), cut)
             back  == <<cut>> \o near
             a == [los |-> piece.los, shape |-> front]
             b == [los |-> los, shape |-> back]
  <2>1. far # <<>> /\ n \in 1..L /\ n + 1 \in 1..L /\ n \in Nat
    BY <1>2, <1>3, <1>8, <1>13, EmptySeq
  <2>2. /\ Last(far) = line[n] /\ Front(far) \in Seq(Nat) /\ Len(Front(far)) = n - 1
        /\ \A i \in 1..n - 1 : Front(far)[i] = line[i]
    <3>1. /\ Last(far) = far[n] /\ Front(far) \in Seq(Nat) /\ Len(Front(far)) = n - 1
          /\ \A i \in 1..n - 1 : Front(far)[i] = far[i]
      BY <1>8, <2>1, FrontAndLast
    <3>2. n \in 1..n /\ \A i \in 1..n - 1 : i \in 1..n
      BY <2>1
    <3>3. QED
      BY <1>8, <3>1, <3>2
  <2>3. /\ cut = line[n] + (distance - (end - line[n + 1]))
        /\ cut \in Nat /\ line[n] <= cut /\ cut <= line[n + 1]
    <3>1. cut = line[n] + (distance - (end - line[n + 1]))
      BY <1>10, <2>2
    <3>2. /\ line[n] \in Nat /\ line[n + 1] \in Nat /\ end - line[n + 1] <= distance
          /\ end - line[n] > distance
      BY <1>2, <1>3, <1>4, <2>1
    <3>3. QED
      BY <1>2, <3>1, <3>2
  <2> HIDE DEF cut
  <2>4. /\ front \in Seq(Nat) /\ Len(front) = n /\ \A i \in 1..n - 1 : front[i] = line[i]
        /\ front[n] = cut /\ front # <<>>
    <3>1. /\ front \in Seq(Nat) /\ front # <<>> /\ Len(front) = Len(Front(far)) + 1
          /\ \A i \in 1..Len(Front(far)) : front[i] = Front(far)[i]
          /\ front[Len(Front(far)) + 1] = cut
      BY <2>2, <2>3, AppendProperties
    <3> HIDE DEF front
    <3>2. QED
      BY <2>1, <2>2, <3>1
  <2>5. /\ back \in Seq(Nat) /\ Len(back) = L - n + 1 /\ back[1] = cut
        /\ \A i \in 2..L - n + 1 : back[i] = line[n + i - 1]
    <3>1. <<cut>> \in Seq(Nat) /\ Len(<<cut>>) = 1 /\ <<cut>>[1] = cut
      BY <2>3
    <3>2. /\ back \in Seq(Nat) /\ Len(back) = Len(<<cut>>) + Len(near)
          /\ \A i \in 1..Len(<<cut>>) + Len(near) :
                back[i] = IF i <= Len(<<cut>>) THEN <<cut>>[i] ELSE near[i - Len(<<cut>>)]
      BY <1>9, <3>1, ConcatProperties
    <3> DEFINE one == <<cut>>
    <3> HIDE DEF back, one
    <3>3. Len(back) = 1 + (L - n) /\ 1 \in 1..1 + (L - n)
      BY <1>2, <1>3, <1>9, <3>1, <3>2 DEF one
    <3>4. back[1] = cut
      BY <1>9, <3>1, <3>2, <3>3 DEF one
    <3>5. \A i \in 2..L - n + 1 : i - 1 \in 1..L - n /\ i \in 1..1 + (L - n) /\ ~(i <= 1) /\ n + (i - 1) = n + i - 1
      BY <1>2, <2>1
    <3>6. \A i \in 1..1 + (L - n) : back[i] = IF i <= 1 THEN one[i] ELSE near[i - 1]
      BY <1>9, <3>1, <3>2 DEF one
    <3>7. \A i \in 2..L - n + 1 : back[i] = line[n + i - 1]
      BY <1>9, <3>5, <3>6
    <3>8. back \in Seq(Nat) /\ 1 + (L - n) = L - n + 1
      BY <1>2, <2>1, <3>2
    <3>9. QED
      BY <3>3, <3>4, <3>7, <3>8
  <2> HIDE DEF front, back
  <2>6. splitShape(piece, distance, los) = <<a, b>> /\ a \in Part /\ b \in Part
    <3>1. splitShape(piece, distance, los) = <<[piece EXCEPT !.shape = front], b>>
      BY <1>6, <2>1 DEF front, back
    <3>2. QED
      BY <1>1, <1>7, <2>4, <2>5, <3>1 DEF Part
  <2>7. back # <<>> /\ Last(back) = end /\ Head(back) = cut /\ DOMAIN back = 1..L - n + 1
    <3>1. L - n + 1 \in 2..L - n + 1 /\ n + (L - n + 1) - 1 = L
      BY <1>2, <1>3, <2>1
    <3>2. back # <<>>
      BY <2>5, <3>1, EmptySeq
    <3>3. Last(back) = back[L - n + 1] /\ Head(back) = back[1] /\ DOMAIN back = 1..L - n + 1
      BY <2>5, <3>2, FrontAndLast
    <3>4. QED
      BY <1>2, <2>5, <3>1, <3>2, <3>3
  <2>8. Last(front) = cut /\ DOMAIN front = 1..n /\ Head(line) <= Head(front)
    <3>1. Last(front) = front[n] /\ Head(front) = front[1] /\ DOMAIN front = 1..n
      BY <2>4, FrontAndLast
    <3>2. line[1] <= front[1]
      <4>1. CASE n = 1
        BY <1>2, <2>1, <2>3, <2>4, <4>1
      <4>2. CASE n # 1
        <5>1. 1 \in 1..n - 1 /\ 1 \in 1..L
          BY <1>2, <2>1, <4>2
        <5>2. QED
          BY <1>2, <2>4, <5>1
      <4>3. QED
        BY <4>1, <4>2
    <3>3. QED
      BY <1>2, <2>4, <3>1, <3>2
  <2>9. Rising(front)
    <3>1. SUFFICES ASSUME NEW x \in 1..n, NEW y \in 1..n, x < y
                   PROVE  front[x] <= front[y]
      BY <2>8 DEF Rising
    <3>2. x \in 1..n - 1 /\ front[x] = line[x] /\ x \in 1..L
      BY <1>2, <2>1, <2>4, <3>1
    <3>3. CASE y = n
      BY <1>2, <1>5, <2>1, <2>3, <2>4, <3>1, <3>2, <3>3
    <3>4. CASE y # n
      <4>1. y \in 1..n - 1 /\ front[y] = line[y] /\ y \in 1..L
        BY <1>2, <2>1, <2>4, <3>4
      <4>2. QED
        BY <1>5, <3>1, <3>2, <4>1
    <3>5. QED
      BY <3>3, <3>4
  <2>10. Rising(back)
    <3>1. SUFFICES ASSUME NEW x \in 1..L - n + 1, NEW y \in 1..L - n + 1, x < y
                   PROVE  back[x] <= back[y]
      BY <2>7 DEF Rising
    <3>2. /\ y \in 2..L - n + 1 /\ n + y - 1 \in 1..L /\ n + 1 <= n + y - 1
      BY <1>2, <2>1, <3>1
    <3>3. back[y] = line[n + y - 1]
      BY <2>5, <3>2
    <3>4. CASE x = 1
      BY <1>2, <1>5, <2>1, <2>3, <2>5, <3>2, <3>3, <3>4
    <3>5. CASE x # 1
      <4>1. x \in 2..L - n + 1 /\ n + x - 1 \in 1..L /\ n + x - 1 <= n + y - 1
        BY <1>2, <2>1, <3>1, <3>5
      <4>2. back[x] = line[n + x - 1]
        BY <2>5, <4>1
      <4>3. QED
        BY <1>5, <3>2, <3>3, <4>1, <4>2
    <3>6. QED
      BY <3>4, <3>5
  <2>11. Head(line) <= Head(back)
    BY <1>2, <1>5, <2>1, <2>3, <2>7
  <2>12. b.shape = back /\ a.shape = front /\ a.los = piece.los /\ b.los = los
    OBVIOUS
  <2>13. cut <= cut
    BY <2>3
  <2> HIDE DEF a, b
  <2>14. QED
    BY <2>6, <2>7, <2>8, <2>9, <2>10, <2>11, <2>12, <2>13 DEF line, end
<1>14. QED
  BY <1>12, <1>13

(* What PartsInOrder says of one location. *)
Drawn(part) == part.shape # <<>>

Ordered(id, parts) ==
    /\ \A m, n \in DOMAIN parts : m < n /\ Drawn(parts[m]) /\ Drawn(parts[n]) =>
          Last(parts[m].shape) <= Head(parts[n].shape)
    /\ parts # <<>> =>
          IF Unlinked(id) THEN \A n \in DOMAIN parts : ~Drawn(parts[n])
          ELSE Drawn(parts[Len(parts)]) /\ Last(parts[Len(parts)].shape) = Last(Shape)
    /\ \A n \in DOMAIN parts : Rising(parts[n].shape)

\* PartsInOrder, of any list
PartsFollow(sh) ==
    \A k \in DOMAIN sh :
        LET parts == sh[k].tempShape
            drawn == {n \in DOMAIN parts : parts[n].shape # <<>>}
        IN /\ \A m, n \in drawn : m < n => Last(parts[m].shape) <= Head(parts[n].shape)
           /\ parts # <<>> => IF Unlinked(sh[k].id) THEN drawn = {}
                              ELSE Len(parts) \in drawn /\ Last(Last(parts).shape) = Last(Shape)
           /\ \A n \in drawn : \A x, y \in DOMAIN parts[n].shape :
                 x < y => parts[n].shape[x] <= parts[n].shape[y]

LEMMA PartsAreOrdered ==
    ASSUME NEW sh \in Seq(Show)
    PROVE  PartsFollow(sh) <=> \A k \in DOMAIN sh : Ordered(sh[k].id, sh[k].tempShape)
<1>1. ASSUME NEW k \in DOMAIN sh
      PROVE  /\ DOMAIN sh[k].tempShape = 1..Len(sh[k].tempShape)
             /\ sh[k].tempShape # <<>> =>
                   /\ Len(sh[k].tempShape) \in DOMAIN sh[k].tempShape
                   /\ Last(sh[k].tempShape) = sh[k].tempShape[Len(sh[k].tempShape)]
  <2>1. sh[k] \in Show
    BY <1>1, LenProperties, ElementOfSeq
  <2>2. sh[k].tempShape \in Seq(Part)
    BY <2>1 DEF Show
  <2> DEFINE p == sh[k].tempShape
  <2> HIDE DEF p
  <2>3. p \in Seq(Part)
    BY <2>2 DEF p
  <2>4. DOMAIN p = 1..Len(p)
    BY <2>3, LenProperties
  <2>5. p # <<>> => Len(p) \in 1..Len(p) /\ Last(p) = p[Len(p)]
    <3>1. p # <<>> => Len(p) \in Nat \ {0} /\ Last(p) = p[Len(p)]
      BY <2>3, FrontAndLast
    <3>2. QED
      BY <3>1
  <2>6. QED
    BY <2>4, <2>5 DEF p
<1>2. ASSUME PartsFollow(sh), NEW k \in DOMAIN sh
      PROVE  Ordered(sh[k].id, sh[k].tempShape)
  <2> DEFINE p == sh[k].tempShape
             drawn == {n \in DOMAIN p : p[n].shape # <<>>}
  <2>1. /\ \A m, n \in drawn : m < n => Last(p[m].shape) <= Head(p[n].shape)
        /\ p # <<>> => IF Unlinked(sh[k].id) THEN drawn = {}
                       ELSE Len(p) \in drawn /\ Last(Last(p).shape) = Last(Shape)
        /\ \A n \in drawn : \A x, y \in DOMAIN p[n].shape :
              x < y => p[n].shape[x] <= p[n].shape[y]
    BY <1>2, Zenon DEF PartsFollow
  <2>2. p # <<>> => Last(p) = p[Len(p)]
    BY <1>1, <1>2
  <2> HIDE DEF p
  <2>3. \A m, n \in DOMAIN p : m < n /\ Drawn(p[m]) /\ Drawn(p[n]) =>
           Last(p[m].shape) <= Head(p[n].shape)
    BY <2>1 DEF Drawn
  <2>4. p # <<>> => IF Unlinked(sh[k].id) THEN \A n \in DOMAIN p : ~Drawn(p[n])
                    ELSE Drawn(p[Len(p)]) /\ Last(p[Len(p)].shape) = Last(Shape)
    BY <2>1, <2>2 DEF Drawn
  <2>5. \A n \in DOMAIN p : Rising(p[n].shape)
    <3>1. ASSUME NEW n \in DOMAIN p
          PROVE  Rising(p[n].shape)
      <4>1. CASE p[n].shape # <<>>
        BY <2>1, <3>1, <4>1 DEF Rising
      <4>2. CASE p[n].shape = <<>>
        BY <4>2 DEF Rising
      <4>3. QED
        BY <4>1, <4>2
    <3>2. QED
      BY <3>1
  <2>6. QED
    BY <2>3, <2>4, <2>5 DEF Ordered, p
<1>3. ASSUME \A k \in DOMAIN sh : Ordered(sh[k].id, sh[k].tempShape)
      PROVE  PartsFollow(sh)
  <2>1. ASSUME NEW k \in DOMAIN sh
        PROVE  LET parts == sh[k].tempShape
                   drawn == {n \in DOMAIN parts : parts[n].shape # <<>>}
               IN /\ \A m, n \in drawn : m < n => Last(parts[m].shape) <= Head(parts[n].shape)
                  /\ parts # <<>> => IF Unlinked(sh[k].id) THEN drawn = {}
                                     ELSE Len(parts) \in drawn /\ Last(Last(parts).shape) = Last(Shape)
                  /\ \A n \in drawn : \A x, y \in DOMAIN parts[n].shape :
                        x < y => parts[n].shape[x] <= parts[n].shape[y]
    <3> DEFINE p == sh[k].tempShape
               drawn == {n \in DOMAIN p : p[n].shape # <<>>}
    <3>1. Ordered(sh[k].id, p)
      BY <1>3, <2>1
    <3>2. p # <<>> => Len(p) \in DOMAIN p /\ Last(p) = p[Len(p)]
      BY <1>1, <2>1
    <3> HIDE DEF p
    <3>3. \A m, n \in drawn : m < n => Last(p[m].shape) <= Head(p[n].shape)
      BY <3>1 DEF Ordered, Drawn
    <3>4. p # <<>> => IF Unlinked(sh[k].id) THEN drawn = {}
                      ELSE Len(p) \in drawn /\ Last(Last(p).shape) = Last(Shape)
      BY <3>1, <3>2 DEF Ordered, Drawn
    <3>5. \A n \in drawn : \A x, y \in DOMAIN p[n].shape : x < y => p[n].shape[x] <= p[n].shape[y]
      BY <3>1 DEF Ordered, Rising
    <3>6. QED
      BY <3>3, <3>4, <3>5, Zenon DEF p
  <2>2. QED
    BY <2>1, Zenon DEF PartsFollow
<1>4. QED
  BY <1>2, <1>3

(* The shape of a location is one. *)
LEMMA ShapeRises ==
    /\ Shape \in Seq(Nat) /\ Shape # <<>> /\ Rising(Shape)
<1>1. Shape \in Seq(Nat) /\ Shape # <<>> /\ \A i, k \in DOMAIN Shape : i < k => Shape[i] < Shape[k]
  <2>1. Len(Shape) > 1 /\ Len(<<>>) = 0
    BY RowsAssumption
  <2>2. Shape # <<>>
    BY <2>1
  <2>3. QED
    BY <2>2, RowsAssumption
<1>2. \A i \in DOMAIN Shape : Shape[i] \in Nat
  BY <1>1, LenProperties, ElementOfSeq
<1>3. QED
  BY <1>1, <1>2 DEF Rising

(* Of a part without positions come two. *)
LEMMA NothingIsSplit ==
    ASSUME NEW piece \in Part, piece.shape = <<>>, NEW distance \in Nat, NEW los \in Los
    PROVE  \E a, b \in Part :
              /\ splitShape(piece, distance, los) = <<a, b>>
              /\ a.los = piece.los /\ b.los = los
              /\ a.shape = <<>> /\ b.shape = <<>>
<1> DEFINE line == piece.shape
           n    == Beyond(line, distance)
           far  == SubSeq(line, 1, n)
           near == SubSeq(line, n + 1, Len(line))
           a    == [piece EXCEPT !.shape = <<>>]
           b    == [los |-> los, shape |-> near]
<1>1. line \in Seq(Nat) /\ Len(line) = 0
  BY DEF Part
<1>2. n = 0
  <2>1. n \in 0..Len(line)
    BY <1>1, BeyondStops
  <2>2. QED
    BY <1>1, <2>1
<1>3. far = <<>> /\ near = <<>>
  BY <1>1, <1>2
<1>4. splitShape(piece, distance, los) = <<a, b>>
  BY <1>3 DEF splitShape
<1>5. a = [los |-> piece.los, shape |-> <<>>] /\ b = [los |-> los, shape |-> <<>>] /\ piece.los \in Los
  BY <1>3 DEF Part
<1>6. a \in Part /\ b \in Part /\ a.los = piece.los /\ b.los = los /\ a.shape = <<>> /\ b.shape = <<>>
  BY <1>5 DEF Part
<1>7. QED
  BY <1>4, <1>6

LEMMA LocationIsSplit ==
    ASSUME NEW ts \in Show, Ordered(ts.id, ts.tempShape), NEW distance \in Nat, NEW los \in Los,
           NEW new, new = doLengthSpatialResolution(ts, distance, los)
    PROVE  /\ new \in Show /\ new.id = ts.id /\ new.los = ts.los
           /\ new.tempShape # <<>>
           /\ Len(new.tempShape) = Count(ts) + 1 /\ DOMAIN new.tempShape = 1..Count(ts) + 1
           /\ new.tempShape[Count(ts) + 1].los = los
           /\ ts.tempShape = <<>> => new.tempShape[1].los = ts.los
           /\ ts.tempShape # <<>> => \A n \in 1..Count(ts) : new.tempShape[n].los = ts.tempShape[n].los
           /\ Ordered(new.id, new.tempShape)
<1> DEFINE p == ts.tempShape
           c == Count(ts)
           empty == Unlinked(ts.id)
           piece == IF p = <<>> THEN [los |-> ts.los, shape |-> Links(ts.id)] ELSE Last(p)
           front == IF p = <<>> THEN <<>> ELSE Front(p)
<1>1. ts.id \in 1..Start /\ ts.los \in Los /\ p \in Seq(Part)
  BY DEF Show
<1>2. /\ piece \in Part /\ Rising(piece.shape)
      /\ empty => piece.shape = <<>>
      /\ ~empty => piece.shape # <<>> /\ Last(piece.shape) = Last(Shape)
      /\ front \in Seq(Part) /\ Len(front) = c - 1 /\ c \in Nat \ {0}
      /\ \A n \in 1..c - 1 : front[n] \in Part /\ Rising(front[n].shape) /\ (empty => ~Drawn(front[n]))
      /\ ~empty => \A n \in 1..c - 1 : Drawn(front[n]) => Last(front[n].shape) <= Head(piece.shape)
      /\ \A m, n \in 1..c - 1 : m < n /\ Drawn(front[m]) /\ Drawn(front[n]) =>
            Last(front[m].shape) <= Head(front[n].shape)
      /\ p = <<>> => c = 1 /\ piece.los = ts.los
      /\ p # <<>> => piece.los = p[c].los /\ \A n \in 1..c - 1 : front[n].los = p[n].los
  <2>1. CASE p = <<>>
    <3>1. piece = [los |-> ts.los, shape |-> Links(ts.id)] /\ front = <<>> /\ c = 1
      BY <2>1 DEF Count
    <3>2. piece.shape = Links(ts.id) /\ piece.los = ts.los
      BY <3>1
    <3>3. empty => Links(ts.id) = <<>>
      BY DEF Links
    <3>4. ~empty => Links(ts.id) = Shape
      BY DEF Links
    <3>5. Rising(<<>>) /\ <<>> \in Seq(Nat)
      BY DEF Rising
    <3>6. piece \in Part /\ Rising(piece.shape)
      <4>1. Links(ts.id) \in Seq(Nat) /\ Rising(Links(ts.id))
        BY <3>3, <3>4, <3>5, ShapeRises
      <4>2. QED
        BY <1>1, <3>1, <4>1 DEF Part
    <3>7. front \in Seq(Part) /\ Len(front) = 0
      <4> HIDE DEF front
      <4>1. QED
        BY <3>1, EmptySeq
    <3> HIDE DEF piece, front, c, empty
    <3>8. 1..c - 1 = {} /\ c - 1 = 0
      BY <3>1
    <3>9. QED
      BY <2>1, <3>1, <3>2, <3>3, <3>4, <3>6, <3>7, <3>8, ShapeRises
  <2>2. CASE p # <<>>
    <3>1. piece = Last(p) /\ front = Front(p) /\ c = Len(p)
      BY <2>2 DEF Count
    <3> HIDE DEF piece, front, c
    <3>2. /\ c \in Nat \ {0} /\ DOMAIN p = 1..c /\ \A i \in 1..c : p[i] \in Part
          /\ front \in Seq(Part) /\ Len(front) = c - 1
          /\ \A i \in 1..c - 1 : front[i] = p[i]
          /\ piece = p[c]
      BY <1>1, <2>2, <3>1, FrontAndLast
    <3>3. /\ \A m, n \in 1..c : m < n /\ Drawn(p[m]) /\ Drawn(p[n]) =>
                Last(p[m].shape) <= Head(p[n].shape)
          /\ empty => \A n \in 1..c : ~Drawn(p[n])
          /\ ~empty => Drawn(p[c]) /\ Last(p[c].shape) = Last(Shape)
          /\ \A n \in 1..c : Rising(p[n].shape)
      BY <2>2, <3>1, <3>2 DEF Ordered
    <3> HIDE DEF p, empty
    <3>4. c \in 1..c /\ \A n \in 1..c - 1 : n \in 1..c /\ n < c
      BY <3>2
    <3>5. /\ piece \in Part /\ Rising(piece.shape)
          /\ empty => piece.shape = <<>>
          /\ ~empty => piece.shape # <<>> /\ Last(piece.shape) = Last(Shape)
      BY <3>2, <3>3, <3>4 DEF Drawn
    <3>6. \A n \in 1..c - 1 : front[n] \in Part /\ Rising(front[n].shape) /\ (empty => ~Drawn(front[n]))
      BY <3>2, <3>3, <3>4
    <3>7. ~empty => \A n \in 1..c - 1 : Drawn(front[n]) => Last(front[n].shape) <= Head(piece.shape)
      BY <3>2, <3>3, <3>4
    <3>8. \A m, n \in 1..c - 1 : m < n /\ Drawn(front[m]) /\ Drawn(front[n]) =>
             Last(front[m].shape) <= Head(front[n].shape)
      BY <3>2, <3>3, <3>4
    <3>9. piece.los = p[c].los /\ \A n \in 1..c - 1 : front[n].los = p[n].los
      BY <3>2
    <3>10. QED
      BY <2>2, <3>2, <3>5, <3>6, <3>7, <3>8, <3>9
  <2>3. QED
    BY <2>1, <2>2
<1> HIDE DEF piece, front, p, c, empty
<1>3. PICK a, b \in Part :
         /\ splitShape(piece, distance, los) = <<a, b>>
         /\ a.los = piece.los /\ b.los = los
         /\ Rising(a.shape) /\ Rising(b.shape)
         /\ empty => a.shape = <<>> /\ b.shape = <<>>
         /\ ~empty =>
               /\ b.shape # <<>> /\ Last(b.shape) = Last(piece.shape)
               /\ Head(piece.shape) <= Head(b.shape)
               /\ a.shape # <<>> => Head(piece.shape) <= Head(a.shape) /\ Last(a.shape) <= Head(b.shape)
  <2>1. CASE empty
    <3>1. PICK a, b \in Part :
             /\ splitShape(piece, distance, los) = <<a, b>>
             /\ a.los = piece.los /\ b.los = los
             /\ a.shape = <<>> /\ b.shape = <<>>
      BY <1>2, <2>1, NothingIsSplit
    <3>2. Rising(a.shape) /\ Rising(b.shape)
      BY <3>1 DEF Rising
    <3>3. QED
      BY <2>1, <3>1, <3>2
  <2>2. CASE ~empty
    BY <1>2, <2>2, LineIsSplit
  <2>3. QED
    BY <2>1, <2>2
<1>4. new = [ts EXCEPT !.tempShape = front \o splitShape(piece, distance, los)]
  <2>1. CASE p = <<>>
    <3>1. new = [ts EXCEPT !.tempShape = splitShape(piece, distance, los)]
      BY <2>1 DEF doLengthSpatialResolution, piece, p
    <3>2. <<>> \o <<a, b>> = <<a, b>> /\ front = <<>>
      BY <2>1 DEF front
    <3>3. QED
      BY <1>3, <3>1, <3>2
  <2>2. CASE p # <<>>
    BY <2>2 DEF doLengthSpatialResolution, piece, front, p
  <2>3. QED
    BY <2>1, <2>2
<1> DEFINE t == front \o <<a, b>>
<1>5. /\ t \in Seq(Part) /\ Len(t) = c + 1 /\ DOMAIN t = 1..c + 1
      /\ \A n \in 1..c - 1 : t[n] = front[n]
      /\ t[c] = a /\ t[c + 1] = b
  <2> DEFINE two == <<a, b>>
  <2>1. two \in Seq(Part) /\ Len(two) = 2 /\ two[1] = a /\ two[2] = b
    OBVIOUS
  <2> HIDE DEF two
  <2>2. /\ front \o two \in Seq(Part)
        /\ Len(front \o two) = Len(front) + Len(two)
        /\ \A n \in 1..Len(front) + Len(two) :
              (front \o two)[n] = IF n <= Len(front) THEN front[n] ELSE two[n - Len(front)]
    BY <1>2, <2>1, ConcatProperties
  <2>3. t = front \o two
    BY DEF two
  <2> HIDE DEF t
  <2>4. /\ t \in Seq(Part) /\ Len(t) = (c - 1) + 2
        /\ \A n \in 1..(c - 1) + 2 : t[n] = IF n <= c - 1 THEN front[n] ELSE two[n - (c - 1)]
    BY <1>2, <2>1, <2>2, <2>3
  <2>5. /\ (c - 1) + 2 = c + 1 /\ c \in 1..c + 1 /\ c + 1 \in 1..c + 1 /\ ~(c <= c - 1) /\ ~(c + 1 <= c - 1)
        /\ c - (c - 1) = 1 /\ (c + 1) - (c - 1) = 2 /\ \A n \in 1..c - 1 : n \in 1..c + 1 /\ n <= c - 1
    BY <1>2
  <2>6. /\ Len(t) = c + 1
        /\ \A n \in 1..c + 1 : t[n] = IF n <= c - 1 THEN front[n] ELSE two[n - (c - 1)]
    BY <2>4, <2>5
  <2>7. t[c] = a /\ t[c + 1] = b
    BY <2>1, <2>5, <2>6
  <2>8. DOMAIN t = 1..c + 1
    BY <2>4, <2>6, LenProperties
  <2>9. QED
    BY <2>4, <2>5, <2>6, <2>7, <2>8
<1> HIDE DEF t
<1>6. new = [id |-> ts.id, los |-> ts.los, tempShape |-> t]
  BY <1>4, <1>3 DEF Show, t
<1>7. new.tempShape = t /\ new.id = ts.id /\ new.los = ts.los /\ new \in Show
  BY <1>1, <1>5, <1>6 DEF Show
<1>8. t # <<>>
  BY <1>2, <1>5, EmptySeq
<1>9. \A n \in 1..c + 1 : n \in 1..c - 1 \/ n = c \/ n = c + 1
  BY <1>2
<1>10. p # <<>> => \A n \in 1..c : t[n].los = p[n].los
  <2>1. \A n \in 1..c : n \in 1..c - 1 \/ n = c
    BY <1>2
  <2>2. QED
    BY <1>2, <1>3, <1>5, <2>1
<1>11. p = <<>> => t[1].los = ts.los
  BY <1>2, <1>3, <1>5
<1>12. Ordered(ts.id, t)
  <2>1. \A n \in 1..c + 1 : Rising(t[n].shape)
    BY <1>2, <1>3, <1>5, <1>9
  <2>2. IF empty THEN \A n \in 1..c + 1 : ~Drawn(t[n])
                 ELSE Drawn(t[c + 1]) /\ Last(t[c + 1].shape) = Last(Shape)
    BY <1>2, <1>3, <1>5, <1>9 DEF Drawn
  <2>3. ASSUME NEW m \in 1..c + 1, NEW n \in 1..c + 1, m < n, Drawn(t[m]), Drawn(t[n])
        PROVE  Last(t[m].shape) <= Head(t[n].shape)
    <3>0. /\ piece.shape # <<>> /\ Last(piece.shape) = Last(Shape)
          /\ \A i \in 1..c - 1 : Drawn(front[i]) => Last(front[i].shape) <= Head(piece.shape)
          /\ b.shape # <<>> /\ Head(piece.shape) <= Head(b.shape)
          /\ a.shape # <<>> => Head(piece.shape) <= Head(a.shape) /\ Last(a.shape) <= Head(b.shape)
      BY <1>2, <1>3, <2>2, <2>3
    <3>1. \A x \in Part : x.shape # <<>> => Last(x.shape) \in Nat /\ Head(x.shape) \in Nat
      <4>1. SUFFICES ASSUME NEW x \in Part, x.shape # <<>>
                     PROVE  Last(x.shape) \in Nat /\ Head(x.shape) \in Nat
        OBVIOUS
      <4> DEFINE line == x.shape
      <4>2. line \in Seq(Nat) /\ line # <<>>
        BY <4>1 DEF Part
      <4> HIDE DEF line
      <4>3. /\ Len(line) \in Nat \ {0} /\ \A i \in 1..Len(line) : line[i] \in Nat
            /\ Last(line) = line[Len(line)] /\ Head(line) = line[1]
        BY <4>2, FrontAndLast
      <4>4. 1 \in 1..Len(line) /\ Len(line) \in 1..Len(line)
        BY <4>3
      <4>5. QED
        BY <4>3, <4>4 DEF line
    <3>2. /\ t[m] \in Part /\ t[n] \in Part /\ Last(t[m].shape) \in Nat /\ Head(t[n].shape) \in Nat
          /\ Head(piece.shape) \in Nat
      <4>1. t[m] \in Part /\ t[n] \in Part
        BY <1>5, ElementOfSeq
      <4>2. QED
        BY <3>0, <1>2, <2>3, <3>1, <4>1 DEF Drawn
    <3>3. m \in 1..c - 1 \/ m = c
      BY <3>0, <1>2, <2>3
    <3>4. CASE n \in 1..c - 1
      <4>1. m \in 1..c - 1
        BY <3>0, <1>2, <2>3, <3>4
      <4>2. t[m] = front[m] /\ t[n] = front[n]
        BY <1>5, <3>4, <4>1
      <4>3. QED
        BY <3>0, <1>2, <2>3, <3>4, <4>1, <4>2
    <3>5. CASE n = c
      <4>1. m \in 1..c - 1 /\ t[m] = front[m] /\ t[n] = a
        BY <3>0, <1>2, <1>5, <2>3, <3>5, <3>3
      <4>2. Last(t[m].shape) <= Head(piece.shape)
        BY <3>0, <1>2, <2>3, <4>1
      <4>3. Head(piece.shape) <= Head(t[n].shape)
        BY <3>0, <1>3, <2>3, <4>1 DEF Drawn
      <4>4. QED
        BY <3>2, <4>2, <4>3
    <3>6. CASE n = c + 1
      <4>1. t[n] = b
        BY <1>5, <3>6
      <4>2. CASE m \in 1..c - 1
        <5>1. t[m] = front[m]
          BY <1>5, <4>2
        <5>2. Last(t[m].shape) <= Head(piece.shape)
          BY <3>0, <1>2, <2>3, <4>2, <5>1
        <5>3. Head(piece.shape) <= Head(t[n].shape)
          BY <3>0, <1>3, <4>1
        <5>4. QED
          BY <3>2, <5>2, <5>3
      <4>3. CASE m = c
        BY <3>0, <1>3, <1>5, <2>3, <4>1, <4>3 DEF Drawn
      <4>4. QED
        BY <3>3, <4>2, <4>3
    <3>7. QED
      BY <1>9, <3>4, <3>5, <3>6
  <2>4. QED
    BY <1>5, <2>1, <2>2, <2>3 DEF Ordered, empty
<1>13. t[c + 1].los = los
  BY <1>3, <1>5
<1>14. QED
  BY <1>5, <1>7, <1>8, <1>10, <1>11, <1>12, <1>13 DEF p, c

-----------------------------------------------------------------------------
(* The road.                                                               *)

LEMMA RoadFacts ==
    ASSUME RoadInv
    PROVE  /\ Points \in Nat \ {0} /\ Start = Points + 1 /\ Len(tmcs) = Start
           /\ \A i \in 1..Start : tmcs[i] \in 1..Start
           /\ known = tmcs => Len(known) = Start
           /\ known = Tail(tmcs) => Len(known) = Points /\ \A i \in 1..Points : known[i] = tmcs[i + 1]
           /\ known = tmcs \/ (~isLoopRoad /\ known = Tail(tmcs))
           /\ known # <<>>
<1>1. Points \in Nat \ {0} /\ Start = Points + 1
  BY RowsAssumption DEF Start
<1>2. tmcs \in Seq(1..Start) /\ Len(tmcs) = Start
  BY DEF RoadInv
<1>3. \A i \in 1..Start : tmcs[i] \in 1..Start
  BY <1>2, ElementOfSeq
<1>4. tmcs # <<>>
  <2>1. Len(tmcs) # 0
    BY <1>1, <1>2
  <2>2. QED
    BY <2>1, EmptySeq
<1>5. /\ Tail(tmcs) \in Seq(1..Start) /\ Len(Tail(tmcs)) = Len(tmcs) - 1
      /\ \A i \in 1..Len(Tail(tmcs)) : Tail(tmcs)[i] = tmcs[i + 1]
  BY <1>2, <1>4, HeadTailProperties
<1>6. Len(Tail(tmcs)) = Points
  BY <1>1, <1>2, <1>5
<1>7. known = Tail(tmcs) => Len(known) = Points /\ known # <<>>
  <2>1. Len(<<>>) = 0
    OBVIOUS
  <2>2. QED
    BY <1>1, <1>6, <2>1
<1>8. known = Tail(tmcs) => \A i \in 1..Points : known[i] = tmcs[i + 1]
  <2> DEFINE t == Tail(tmcs)
  <2> HIDE DEF t
  <2>1. \A i \in 1..Points : t[i] = tmcs[i + 1]
    BY <1>5, <1>6 DEF t
  <2>2. QED
    BY <2>1 DEF t
<1>9. QED
  BY <1>1, <1>2, <1>3, <1>4, <1>7, <1>8 DEF RoadInv

(* Where a point is found. *)
LEMMA PointIsFound ==
    ASSUME RoadInv, NEW x \in 1..Points
    PROVE  \E i \in 2..Start :
              /\ tmcs[i] = x /\ \A k \in 2..Start : tmcs[k] = x => k = i
              /\ known = tmcs => getIndex(x) = i - 1
              /\ known = Tail(tmcs) => getIndex(x) = IF i > 2 THEN i - 2 ELSE -1
<1>1. /\ Points \in Nat \ {0} /\ Start = Points + 1
      /\ known = tmcs => Len(known) = Start
      /\ known = Tail(tmcs) => Len(known) = Points /\ \A i \in 1..Points : known[i] = tmcs[i + 1]
  BY RoadFacts
<1>2. PICK i \in 2..Start : tmcs[i] = x
  BY DEF RoadInv
<1>3. \A k \in 2..Start : tmcs[k] = x => k = i
  BY <1>2 DEF RoadInv
<1> DEFINE found == {n \in 2..Len(known) : known[n] = x}
<1>4. getIndex(x) = IF found = {} THEN -1 ELSE (CHOOSE n \in found : \A k \in found : n <= k) - 1
  BY DEF getIndex
<1>5. ASSUME NEW a \in Int, found = {a}
      PROVE  getIndex(x) = a - 1
  <2>1. a <= a
    BY <1>5
  <2> HIDE DEF found
  <2> DEFINE First(n) == \A k \in found : n <= k
  <2>2. \A n \in found : n = a
    BY <1>5
  <2>3. a \in found /\ First(a)
    BY <1>5, <2>1
  <2> HIDE DEF First
  <2>4. (CHOOSE n \in found : First(n)) = a
    BY <2>2, <2>3
  <2>5. (CHOOSE n \in found : \A k \in found : n <= k) = a
    BY <2>4 DEF First
  <2>6. QED
    BY <1>4, <2>3, <2>5
<1>6. ASSUME known = tmcs
      PROVE  getIndex(x) = i - 1
  <2>1. found = {i}
    BY <1>1, <1>2, <1>3, <1>6
  <2> HIDE DEF found
  <2>2. i \in Int
    BY <1>1
  <2>3. QED
    BY <1>5, <2>1, <2>2
<1>7. ASSUME known = Tail(tmcs)
      PROVE  getIndex(x) = IF i > 2 THEN i - 2 ELSE -1
  <2>1. \A n \in found : n + 1 = i
    <3>1. SUFFICES ASSUME NEW n \in 2..Points, known[n] = x
                   PROVE  n + 1 = i
      BY <1>1, <1>7
    <3>2. n \in 1..Points /\ n + 1 \in 2..Start
      BY <1>1
    <3>3. tmcs[n + 1] = x
      BY <1>1, <1>7, <3>1, <3>2
    <3>4. QED
      BY <1>3, <3>2, <3>3
  <2>2. CASE i > 2
    <3>1. i - 1 \in 2..Points /\ i - 1 \in 1..Points /\ (i - 1) + 1 = i /\ i - 1 \in Int
      BY <1>1, <2>2
    <3>2. known[i - 1] = x
      <4>1. known[i - 1] = tmcs[(i - 1) + 1]
        BY <1>1, <1>7, <3>1
      <4>2. QED
        BY <1>2, <3>1, <4>1
    <3>3. i - 1 \in found
      BY <1>1, <1>7, <3>1, <3>2
    <3>4. \A n \in found : n \in Int
      BY <1>1, <1>7
    <3> HIDE DEF found
    <3>5. found = {i - 1}
      BY <2>1, <3>1, <3>3, <3>4
    <3>6. getIndex(x) = (i - 1) - 1
      BY <1>5, <3>1, <3>5
    <3>7. QED
      BY <2>2, <3>1, <3>6
  <2>3. CASE ~(i > 2)
    <3>1. i = 2
      BY <1>1, <2>3
    <3>2. \A n \in found : n >= 2 /\ n \in Int
      BY <1>1, <1>7
    <3> HIDE DEF found
    <3>3. found = {}
      BY <2>1, <3>1, <3>2
    <3>4. QED
      BY <1>4, <3>1, <3>3
  <2>4. QED
    BY <2>2, <2>3
<1>8. QED
  BY <1>2, <1>3, <1>6, <1>7

(* Items in driving order stand one behind the other up to the last one. *)
LEMMA ItemsStandInLine ==
    ASSUME RoadInv, PageInv, ItemsInv, roaditems # <<>>, InOrder, NEW p \in 2..Start, tmcs[p] = LocID
    PROVE  \A d \in 0..Extent - 1 :
              /\ p - d >= 2 => tmcs[p - d] = roaditems[Extent - d]
              /\ p - d < 2 => isLoopRoad /\ tmcs[p - d + Points] = roaditems[Extent - d]
<1>1. /\ Points \in Nat \ {0} /\ Start = Points + 1 /\ Len(tmcs) = Start
      /\ \A i \in 1..Start : tmcs[i] \in 1..Start
  BY RoadFacts
<1>2. /\ \A i \in 2..Start : tmcs[i] \in 1..Points
      /\ \A i, k \in 2..Start : tmcs[i] = tmcs[k] => i = k
      /\ isLoopRoad => tmcs[1] = tmcs[2]
      /\ ~isLoopRoad => tmcs[1] = Start
  BY DEF RoadInv
<1>3. Extent \in Nat \ {0} /\ Extent <= Points /\ DOMAIN roaditems = 1..Extent
  BY LenProperties, EmptySeq DEF ItemsInv, Extent
<1>4. /\ \A k \in 1..Extent : roaditems[k] \in 1..Points
      /\ \A k \in 1..Extent - 1 : roaditems[k] < roaditems[k + 1]
  <2>1. \A k \in 1..Extent : roaditems[k] \in DOMAIN message
    BY ElementOfSeq DEF ItemsInv, Extent
  <2>2. \A k \in 1..Extent - 1 : k \in 1..Extent /\ k + 1 \in 1..Extent /\ k < k + 1
    BY <1>3
  <2>3. QED
    BY <1>3, <2>1, <2>2 DEF PageInv, ItemsInv, Ascends
<1>5. \A k \in 1..Extent - 1 : \E i \in 1..Start :
         /\ tmcs[i] = roaditems[k]
         /\ roaditems[k + 1] = IF i < Start THEN tmcs[i + 1] ELSE IF isLoopRoad THEN tmcs[2] ELSE 0
  BY <1>1 DEF InOrder, Extent
<1>6. tmcs[p] = roaditems[Extent] /\ p \in 2..Start
  BY DEF LocID, Last, Extent
<1> HIDE DEF Extent, Start
<1> DEFINE Stands(d) == /\ p - d >= 2 => tmcs[p - d] = roaditems[Extent - d]
                        /\ p - d < 2 => isLoopRoad /\ tmcs[p - d + Points] = roaditems[Extent - d]
           T == {d \in Nat : d < Extent => Stands(d)}
<1>7. 0 \in T
  <2>1. p - 0 = p /\ Extent - 0 = Extent /\ p >= 2
    BY <1>1, <1>3, <1>6
  <2>2. Stands(0)
    BY <1>1, <1>6, <2>1
  <2>3. QED
    BY <2>2
<1>8. ASSUME NEW d \in Nat, d < Extent => Stands(d), d + 1 < Extent
      PROVE  Stands(d + 1)
  <2> DEFINE k == Extent - (d + 1)
             q == IF p - d >= 2 THEN p - d ELSE p - d + Points
  <2>1. k \in 1..Extent - 1 /\ k + 1 = Extent - d /\ k \in 1..Extent /\ k + 1 \in 1..Extent /\ d < Extent
    BY <1>3, <1>8
  <2>2. q \in 2..Start /\ tmcs[q] = roaditems[k + 1] /\ (p - d < 2 => isLoopRoad)
    <3>1. Stands(d)
      BY <1>8, <2>1
    <3>2. CASE p - d >= 2
      <4>1. q = p - d /\ q \in 2..Start
        BY <1>1, <1>6, <1>8, <3>2
      <4>2. QED
        BY <1>6, <1>8, <2>1, <3>1, <3>2, <4>1
    <3>3. CASE p - d < 2
      <4>1. q = p - d + Points /\ q \in 2..Start
        BY <1>1, <1>3, <1>6, <1>8, <2>1, <3>3
      <4>2. QED
        BY <2>1, <3>1, <3>3, <4>1
    <3>4. QED
      BY <1>6, <1>8, <3>2, <3>3
  <2>3. PICK i \in 1..Start :
           /\ tmcs[i] = roaditems[k]
           /\ roaditems[k + 1] = IF i < Start THEN tmcs[i + 1] ELSE IF isLoopRoad THEN tmcs[2] ELSE 0
    BY <1>5, <2>1
  <2>4. roaditems[k] \in 1..Points /\ roaditems[k + 1] \in 1..Points /\ roaditems[k] < roaditems[k + 1]
    BY <1>4, <2>1
  <2>5. i # 1
    <3>1. SUFFICES ASSUME i = 1
                   PROVE  FALSE
      OBVIOUS
    <3>2. isLoopRoad
      BY <1>1, <1>2, <2>3, <2>4, <3>1
    <3>3. tmcs[1 + 1] = roaditems[k + 1]
      BY <1>1, <2>3, <3>1
    <3>4. QED
      BY <1>2, <2>3, <2>4, <3>1, <3>2, <3>3
  <2>6. i \in 2..Start
    BY <1>1, <2>5
  <2>7. CASE i < Start
    <3>1. i + 1 \in 2..Start /\ tmcs[i + 1] = tmcs[q]
      BY <1>1, <2>2, <2>3, <2>6, <2>7
    <3>2. i + 1 = q
      BY <1>2, <2>2, <3>1
    <3>3. CASE p - d >= 2
      <4>1. p - (d + 1) = i /\ p - (d + 1) >= 2
        BY <1>1, <1>6, <2>6, <3>2, <3>3
      <4>2. QED
        BY <2>3, <4>1
    <3>4. CASE p - d < 2
      <4>1. p - (d + 1) < 2 /\ p - (d + 1) + Points = i
        BY <1>1, <1>6, <2>6, <3>2, <3>4
      <4>2. QED
        BY <1>6, <2>2, <2>3, <3>4, <4>1
    <3>5. QED
      BY <1>1, <1>6, <3>3, <3>4
  <2>8. CASE i = Start
    <3>1. isLoopRoad /\ tmcs[2] = tmcs[q]
      BY <1>1, <2>2, <2>3, <2>4, <2>8
    <3>2. q = 2
      <4>1. 2 \in 2..Start
        BY <1>1
      <4>2. QED
        BY <1>2, <2>2, <3>1, <4>1
    <3>3. p - d = 2
      BY <1>1, <1>3, <1>6, <2>1, <3>2
    <3>4. p - (d + 1) < 2 /\ p - (d + 1) + Points = Start
      BY <1>1, <1>6, <3>3
    <3>5. QED
      BY <2>3, <2>8, <3>1, <3>4
  <2>9. QED
    BY <1>1, <2>6, <2>7, <2>8
<1> HIDE DEF Stands
<1>9. \A d \in T : d + 1 \in T
  <2>1. SUFFICES ASSUME NEW d \in T
                 PROVE  d + 1 \in Nat /\ (d + 1 < Extent => Stands(d + 1))
    OBVIOUS
  <2>2. d \in Nat /\ (d < Extent => Stands(d))
    OBVIOUS
  <2>3. QED
    BY <1>8, <2>2
<1>10. T = Nat
  <2>1. T \in SUBSET Nat
    OBVIOUS
  <2> HIDE DEF T
  <2>2. QED
    BY <1>7, <1>9, <2>1, AllNumbers
<1>11. ASSUME NEW d \in 0..Extent - 1
       PROVE  Stands(d)
  <2>1. d \in Nat /\ d < Extent
    BY <1>3
  <2>2. QED
    BY <1>10, <2>1
<1>12. QED
  BY <1>11 DEF Stands

(* The location reference is a point of the road. *)
LEMMA LocIDIsPoint ==
    ASSUME PageInv, ItemsInv, roaditems # <<>>
    PROVE  LocID \in 1..Points
<1>1. Extent \in Nat \ {0}
  BY LenProperties, EmptySeq DEF ItemsInv, Extent
<1>2. LocID = roaditems[Extent] /\ Extent \in 1..Extent
  BY <1>1 DEF LocID, Last, Extent
<1>3. roaditems[Extent] \in DOMAIN message
  BY <1>2, ElementOfSeq DEF ItemsInv, Extent
<1>4. QED
  BY <1>2, <1>3 DEF PageInv

(* The walk back along the road. *)
LEMMA WalkFindsItems ==
    ASSUME RoadInv, PageInv, ItemsInv, roaditems # <<>>, getIndex(LocID) > 0
    PROVE  /\ alloffset \in 1..Extent /\ alloffset = Min2(Extent, Len(known) - 1) /\ Len(known) \in Nat
           /\ known = tmcs => alloffset = Extent
           /\ isLoopRoad \/ (\A i \in walked : i >= 0) =>
                 /\ \A k \in 1..alloffset : entry(getIndex(LocID) - alloffset + k) \in 1..Start
                 /\ InOrder => \A k \in 1..alloffset :
                       entry(getIndex(LocID) - alloffset + k) = roaditems[k + Extent - alloffset]
           /\ InOrder /\ known = tmcs /\ ~isLoopRoad => \A i \in walked : i >= 0
<1>1. /\ Points \in Nat \ {0} /\ Start = Points + 1
      /\ \A i \in 1..Start : tmcs[i] \in 1..Start
      /\ known = tmcs => Len(known) = Start
      /\ known = Tail(tmcs) => Len(known) = Points /\ \A i \in 1..Points : known[i] = tmcs[i + 1]
      /\ known = tmcs \/ (~isLoopRoad /\ known = Tail(tmcs))
  BY RoadFacts
<1>2. Extent \in Nat \ {0} /\ Extent <= Points
  BY LenProperties, EmptySeq DEF ItemsInv, Extent
<1>3. LocID \in 1..Points
  BY LocIDIsPoint
<1>4. PICK p \in 2..Start :
         /\ tmcs[p] = LocID
         /\ known = tmcs => getIndex(LocID) = p - 1
         /\ known = Tail(tmcs) => getIndex(LocID) = IF p > 2 THEN p - 2 ELSE -1
  BY <1>3, PointIsFound
<1>5. InOrder => \A d \in 0..Extent - 1 :
              /\ p - d >= 2 => tmcs[p - d] = roaditems[Extent - d]
              /\ p - d < 2 => isLoopRoad /\ tmcs[p - d + Points] = roaditems[Extent - d]
  BY <1>4, ItemsStandInLine
<1>6. alloffset = IF Extent < Len(known) - 1 THEN Extent ELSE Len(known) - 1
  BY DEF alloffset, Min2
<1> DEFINE N == alloffset
           g == getIndex(LocID)
<1>7. walked = g - N + 1..g
  BY DEF walked
<1>8. \A i : entry(i) = known[IF isLoopRoad /\ i < 1 THEN Len(known) + i ELSE i + 1]
  BY DEF entry
<1>9. g > 0 /\ N = (IF Extent < Len(known) - 1 THEN Extent ELSE Len(known) - 1)
  BY <1>6
<1> HIDE DEF N, g, Start
<1>10. p \in Int /\ 2 <= p /\ p <= Points + 1
  BY <1>1
<1>11. CASE known = tmcs
  <2>1. g = p - 1 /\ N = Extent /\ Len(known) = Points + 1
    BY <1>1, <1>2, <1>4, <1>9, <1>11 DEF g
  <2>2. ASSUME NEW d \in 0..Extent - 1, isLoopRoad \/ g - d >= 0
        PROVE  /\ entry(g - d) \in 1..Start
               /\ InOrder => entry(g - d) = roaditems[Extent - d]
    <3>1. CASE isLoopRoad /\ g - d < 1
      <4>1. Len(known) + (g - d) = p - d + Points /\ p - d + Points \in 1..Start /\ p - d < 2
        BY <1>1, <1>2, <1>10, <2>1, <3>1
      <4>2. entry(g - d) = tmcs[p - d + Points]
        BY <1>8, <1>11, <3>1, <4>1
      <4>3. QED
        BY <1>1, <1>5, <4>1, <4>2
    <3>2. CASE ~(isLoopRoad /\ g - d < 1)
      <4>1. (g - d) + 1 = p - d /\ p - d \in 1..Start
        BY <1>1, <1>2, <1>10, <2>1, <2>2, <3>2
      <4>2. entry(g - d) = tmcs[p - d]
        BY <1>8, <1>11, <3>2, <4>1
      <4>3. p - d < 2 => ~isLoopRoad
        BY <1>10, <2>1, <3>2
      <4>4. p - d >= 2 \/ p - d < 2
        BY <1>10
      <4>5. QED
        BY <1>1, <1>5, <4>1, <4>2, <4>3, <4>4
    <3>3. QED
      BY <3>1, <3>2
  <2>3. \A k \in 1..N : N - k \in 0..Extent - 1 /\ g - N + k = g - (N - k) /\ Extent - (N - k) = k + Extent - N
                        /\ g - (N - k) \in g - N + 1..g
    BY <1>2, <1>10, <2>1
  <2>4. ASSUME isLoopRoad \/ (\A i \in walked : i >= 0), NEW k \in 1..N
        PROVE  /\ entry(g - N + k) \in 1..Start
               /\ InOrder => entry(g - N + k) = roaditems[k + Extent - N]
    <3>1. isLoopRoad \/ g - (N - k) >= 0
      BY <1>7, <2>3, <2>4
    <3>2. /\ entry(g - (N - k)) \in 1..Start
          /\ InOrder => entry(g - (N - k)) = roaditems[Extent - (N - k)]
      BY <2>2, <2>3, <3>1
    <3>3. QED
      BY <2>3, <3>2
  <2>5. ASSUME InOrder, ~isLoopRoad, NEW i \in walked
        PROVE  i >= 0
    <3>1. i \in g - N + 1..g
      BY <1>7
    <3>2. g - i \in 0..Extent - 1 /\ p - (g - i) = i + 1
      BY <1>2, <1>10, <2>1, <3>1
    <3>3. ~(p - (g - i) < 2)
      BY <1>5, <2>5, <3>2
    <3>4. QED
      BY <1>10, <2>1, <3>1, <3>2, <3>3
  <2>6. N \in 1..Extent /\ Len(known) \in Nat
    BY <1>1, <1>2, <2>1
  <2>7. QED
    BY <2>1, <2>4, <2>5, <2>6 DEF N, g, alloffset
<1>12. CASE known # tmcs
  <2>1. known = Tail(tmcs) /\ ~isLoopRoad /\ Len(known) = Points /\ \A i \in 1..Points : known[i] = tmcs[i + 1]
    BY <1>1, <1>12
  <2>2. p > 2 /\ g = p - 2
    BY <1>4, <1>9, <2>1 DEF g
  <2>3. N \in 1..Extent /\ N <= Points - 1 /\ Len(known) \in Nat
    BY <1>1, <1>2, <1>9, <1>10, <2>1, <2>2
  <2>4. ASSUME isLoopRoad \/ (\A i \in walked : i >= 0), NEW k \in 1..N
        PROVE  /\ entry(g - N + k) \in 1..Start
               /\ InOrder => entry(g - N + k) = roaditems[k + Extent - N]
    <3> DEFINE i == g - N + k
    <3>1. i \in g - N + 1..g /\ i \in Int
      BY <1>10, <2>2, <2>3
    <3>2. i >= 0
      BY <1>7, <2>1, <2>4, <3>1
    <3>3. i + 1 \in 1..Points /\ (i + 1) + 1 \in 1..Start /\ (i + 1) + 1 = p - (N - k)
      BY <1>1, <1>10, <2>2, <2>3, <3>1, <3>2
    <3>4. entry(i) = tmcs[p - (N - k)]
      <4>1. entry(i) = known[i + 1]
        BY <1>8, <2>1
      <4>2. known[i + 1] = tmcs[(i + 1) + 1]
        BY <2>1, <3>3
      <4>3. QED
        BY <3>3, <4>1, <4>2
    <3>5. N - k \in 0..Extent - 1 /\ Extent - (N - k) = k + Extent - N /\ p - (N - k) >= 2
      BY <1>2, <1>10, <2>2, <2>3, <3>1, <3>2
    <3>6. InOrder => tmcs[p - (N - k)] = roaditems[Extent - (N - k)]
      BY <1>5, <3>5
    <3>7. QED
      BY <1>1, <3>3, <3>4, <3>5, <3>6
  <2>5. QED
    BY <1>12, <2>3, <2>4 DEF N, g, alloffset
<1>13. QED
  BY <1>11, <1>12

-----------------------------------------------------------------------------
(* The invariant holds at first and is kept by every step.                 *)

LEMMA NoSections ==
    ASSUME NEW E
    PROVE  Listed(<<>>, E)
<1> DEFINE none == <<>>
<1>1. DOMAIN none = {}
  OBVIOUS
<1> HIDE DEF none
<1>2. Listed(none, E)
  BY <1>1 DEF Listed
<1>3. QED
  BY <1>2 DEF none

LEMMA InitHolds == Init => IInv
<1> SUFFICES ASSUME Init
             PROVE  IInv
  OBVIOUS
<1>1. Points \in Nat \ {0} /\ Start = Points + 1
  BY RowsAssumption DEF Start
<1>2. PICK ids \in SetToSeqs(1..Points) :
         tmcs = <<IF isLoopRoad THEN Head(ids) ELSE Start>> \o ids
  BY DEF Init
<1>3. ids \in [1..Points -> 1..Points] /\ \A i, k \in 1..Points : ids[i] = ids[k] => i = k
  <2>1. Cardinality(1..Points) = Points
    BY <1>1, FS_Interval
  <2>2. ids \in {f \in [1..Cardinality(1..Points) -> 1..Points] :
                   \A i, k \in 1..Cardinality(1..Points) : i # k => f[i] # f[k]}
    BY <1>2, Zenon DEF SetToSeqs
  <2>3. ids \in {f \in [1..Points -> 1..Points] : \A i, k \in 1..Points : i # k => f[i] # f[k]}
    BY <2>1, <2>2
  <2>4. QED
    BY <2>3
<1>4. \A x \in 1..Points : \E i \in 1..Points : ids[i] = x
  <2>1. ids \in Injection(1..Points, 1..Points)
    BY <1>3 DEF Injection, IsInjective
  <2>2. IsFiniteSet(1..Points)
    BY <1>1, FS_Interval
  <2>3. ids \in Surjection(1..Points, 1..Points)
    BY <2>1, <2>2, FS_Injection
  <2>4. QED
    BY <2>3 DEF Surjection
<1>5. ids \in Seq(1..Points) /\ Len(ids) = Points /\ ids # <<>> /\ Head(ids) = ids[1]
  <2>1. ids \in Seq(1..Points) /\ Len(ids) = Points
    BY <1>1, <1>3, SeqDef
  <2>2. ids # <<>>
    BY <1>1, <2>1, EmptySeq
  <2>3. QED
    BY <2>1, <2>2, FrontAndLast
<1> DEFINE h == IF isLoopRoad THEN Head(ids) ELSE Start
           first == <<h>>
<1>6. h \in 1..Start /\ ids \in Seq(1..Start) /\ Len(first) = 1 /\ first[1] = h /\ first \in Seq(1..Start)
  <2>1. 1..Points \subseteq 1..Start /\ Start \in 1..Start /\ 1 \in 1..Points
    BY <1>1
  <2>2. \A i \in 1..Points : ids[i] \in 1..Start
    BY <1>3, <2>1
  <2>3. ids[1] \in 1..Start
    BY <2>1, <2>2
  <2>4. h \in 1..Start
    BY <1>5, <2>1, <2>3
  <2>5. ids \in Seq(1..Start)
    BY <1>1, <1>3, <1>5, <2>2, SeqDef
  <2> HIDE DEF h
  <2>6. QED
    BY <2>4, <2>5
<1>7. tmcs = first \o ids
  BY <1>2
<1> HIDE DEF first, Start
<1>8. /\ tmcs \in Seq(1..Start) /\ Len(tmcs) = Len(first) + Len(ids)
      /\ \A i \in 1..Len(first) + Len(ids) :
            tmcs[i] = IF i <= Len(first) THEN first[i] ELSE ids[i - Len(first)]
  BY <1>6, <1>7, ConcatProperties
<1>9. /\ Len(tmcs) = Start /\ tmcs[1] = h
      /\ \A i \in 2..Start : i - 1 \in 1..Points /\ tmcs[i] = ids[i - 1]
  <2>1. Len(first) + Len(ids) = Start
    BY <1>1, <1>5, <1>6
  <2>2. 1 \in 1..Start /\ \A i \in 2..Start : i \in 1..Start /\ ~(i <= 1) /\ i - 1 \in 1..Points
    BY <1>1
  <2> HIDE DEF h
  <2>3. Len(tmcs) = Start /\ \A i \in 1..Start : tmcs[i] = IF i <= 1 THEN first[i] ELSE ids[i - 1]
    BY <1>6, <1>8, <2>1
  <2>4. QED
    BY <1>6, <2>2, <2>3
<1>10. RoadInv
  <2>1. isLoopRoad \in BOOLEAN /\ (known = tmcs \/ (~isLoopRoad /\ known = Tail(tmcs)))
    BY DEF Init
  <2>2. \A i \in 2..Start : tmcs[i] \in 1..Points
    BY <1>3, <1>9
  <2>3. \A i, k \in 2..Start : tmcs[i] = tmcs[k] => i = k
    <3>1. SUFFICES ASSUME NEW i \in 2..Start, NEW k \in 2..Start, tmcs[i] = tmcs[k]
                   PROVE  i = k
      OBVIOUS
    <3>2. i - 1 = k - 1
      BY <1>3, <1>9, <3>1
    <3>3. QED
      BY <1>1, <3>2
  <2>4. \A x \in 1..Points : \E i \in 2..Start : tmcs[i] = x
    <3>1. SUFFICES ASSUME NEW x \in 1..Points
                   PROVE  \E i \in 2..Start : tmcs[i] = x
      OBVIOUS
    <3>2. PICK i \in 1..Points : ids[i] = x
      BY <1>4
    <3>3. i + 1 \in 2..Start /\ (i + 1) - 1 = i
      BY <1>1
    <3>4. QED
      BY <1>9, <3>2, <3>3
  <2>5. tmcs[1] = IF isLoopRoad THEN tmcs[2] ELSE Start
    <3>1. 2 \in 2..Start /\ 2 - 1 = 1
      BY <1>1
    <3>2. QED
      BY <1>5, <1>9, <3>1
  <2>6. QED
    BY <1>8, <1>9, <2>1, <2>2, <2>3, <2>4, <2>5 DEF RoadInv
<1>11. /\ pc = "edit" /\ message = <<>> /\ roaditems = <<>> /\ j = 1 /\ lastLos = -1 /\ sections = <<>>
       /\ shows = <<>> /\ lastTMCIndex = 0 /\ outcome = "none"
  BY DEF Init
<1>12. \A S : <<>> \in Seq(S)
  OBVIOUS
<1>13. PageInv
  BY <1>11 DEF PageInv
<1>14. ItemsInv
  <2>1. Extent = 0
    BY <1>11 DEF Extent
  <2>2. Ascends(roaditems)
    BY <1>11 DEF Ascends
  <2>3. QED
    BY <1>1, <1>11, <1>12, <2>1, <2>2 DEF ItemsInv
<1>15. EncodeInv
  BY <1>11, <1>12 DEF EncodeInv
<1>16. DecodeInv
  BY <1>11, <1>12 DEF DecodeInv
<1>17. OutcomeInv
  BY <1>11 DEF OutcomeInv
<1>18. PartsInOrder
  BY <1>11 DEF PartsInOrder
<1>19. QED
  BY <1>10, <1>13, <1>14, <1>15, <1>16, <1>17, <1>18 DEF IInv

LEMMA RoadIsKept ==
    ASSUME RoadInv, UNCHANGED <<isLoopRoad, tmcs, known>>
    PROVE  RoadInv'
BY DEF RoadInv

(* The items and what was entered for them do not change once they are     *)
(* posted.                                                                 *)
LEMMA ItemsAreKept ==
    ASSUME RoadInv, PageInv, UNCHANGED <<page, roaditems>>
    PROVE  /\ RoadInv' /\ PageInv' /\ Entered' = Entered /\ Extent' = Extent /\ (InOrder' <=> InOrder)
           /\ alloffset' = alloffset /\ (known = tmcs <=> (known = tmcs)')
<1>1. UNCHANGED <<isLoopRoad, tmcs, known, message, roaditems>>
  BY DEF page
<1>2. RoadInv'
  BY <1>1, RoadIsKept
<1>3. PageInv'
  BY <1>1 DEF PageInv
<1>4. Entered' = Entered
  BY <1>1 DEF Entered
<1>5. Extent' = Extent /\ (InOrder' <=> InOrder)
  BY <1>1 DEF Extent, InOrder
<1>6. alloffset' = alloffset
  BY <1>1, <1>5 DEF alloffset
<1>7. QED
  BY <1>1, <1>2, <1>3, <1>4, <1>5, <1>6

(* An edit leaves all but the rows entered alone. *)
LEMMA EditKeeps ==
    ASSUME IInv, pc = "edit", NEW id \in 1..Points, NEW rows \in Rows,
           message' = store(id, Cut(rows).losshape),
           UNCHANGED <<isLoopRoad, tmcs, known, encoder, decoder, pc>>
    PROVE  IInv'
<1>1. UNCHANGED <<isLoopRoad, tmcs, known, roaditems, j, lastLos, sections, shows, lastTMCIndex, outcome, pc>>
  BY DEF encoder, decoder
<1>2. /\ RoadInv /\ PageInv /\ ItemsInv /\ EncodeInv /\ DecodeInv /\ OutcomeInv /\ PartsInOrder
  BY DEF IInv
<1>3. RoadInv'
  BY <1>1, <1>2, RoadIsKept
<1> DEFINE c == Cut(rows).losshape
<1>4. c \in Seq(Losshape) \ {<<>>}
  BY RowsAreCut
<1> HIDE DEF c
<1>5. message' = [x \in DOMAIN message \union {id} |-> IF x = id THEN c ELSE message[x]]
  BY DEF store, c
<1>6. DOMAIN message' \subseteq 1..Points
  BY <1>2, <1>5 DEF PageInv
<1>7. \A x \in DOMAIN message : message[x] \in Seq(Losshape) \ {<<>>}
  BY <1>2 DEF PageInv
<1>8. message' \in [DOMAIN message' -> Seq(Losshape) \ {<<>>}]
  BY <1>4, <1>5, <1>7
<1>9. PageInv'
  BY <1>6, <1>8 DEF PageInv
<1>10. roaditems = <<>> /\ j = 1 /\ sections = <<>> /\ shows = <<>> /\ lastTMCIndex = 0 /\ outcome = "none"
       /\ lastLos = -1
  BY <1>2 DEF ItemsInv, EncodeInv, DecodeInv, OutcomeInv
<1>11. ItemsInv'
  <2>1. Extent' = 0 /\ Points \in Nat
    BY <1>1, <1>10, RowsAssumption DEF Extent
  <2>2. Ascends(roaditems)'
    BY <1>1, <1>10 DEF Ascends
  <2>3. QED
    BY <1>1, <1>10, <2>1, <2>2 DEF ItemsInv
<1>12. EncodeInv'
  BY <1>1, <1>10 DEF EncodeInv
<1>13. DecodeInv'
  BY <1>1, <1>10 DEF DecodeInv
<1>14. OutcomeInv'
  BY <1>1, <1>10 DEF OutcomeInv
<1>15. PartsInOrder'
  BY <1>1, <1>10 DEF PartsInOrder
<1>16. QED
  BY <1>3, <1>9, <1>11, <1>12, <1>13, <1>14, <1>15 DEF IInv

LEMMA CreateKeeps ==
    ASSUME IInv, Create
    PROVE  IInv'
<1>1. /\ pc = "edit" /\ message # <<>> /\ roaditems' = Ascending(DOMAIN message) /\ pc' = "encode"
      /\ UNCHANGED <<isLoopRoad, tmcs, known, message, j, lastLos, sections, shows, lastTMCIndex, outcome>>
  BY DEF Create, page, decoder
<1>2. /\ RoadInv /\ PageInv /\ ItemsInv /\ EncodeInv /\ DecodeInv /\ OutcomeInv /\ PartsInOrder
  BY DEF IInv
<1>3. RoadInv' /\ PageInv'
  BY <1>1, <1>2, RoadIsKept DEF PageInv
<1>4. roaditems = <<>> /\ j = 1 /\ sections = <<>> /\ shows = <<>> /\ lastTMCIndex = 0 /\ outcome = "none"
      /\ lastLos = -1
  BY <1>1, <1>2 DEF ItemsInv, EncodeInv, DecodeInv, OutcomeInv
<1> DEFINE S == DOMAIN message
<1>5. Points \in Nat /\ S \in SUBSET (1..Points)
  BY <1>2, RowsAssumption DEF PageInv
<1>6. S # {}
  BY <1>1, <1>2 DEF PageInv
<1> HIDE DEF S
<1>7. /\ Ascending(S) \in Seq(S) /\ Len(Ascending(S)) = Cardinality(S) /\ Ascends(Ascending(S))
      /\ Len(Ascending(S)) \in Nat \ {0}
  BY <1>5, <1>6, AscendingList
<1>8. Cardinality(S) <= Points
  <2>1. IsFiniteSet(1..Points) /\ Cardinality(1..Points) = Points
    BY <1>5, FS_Interval
  <2>2. QED
    BY <1>5, <2>1, FS_Subset
<1>9. Extent' = Len(Ascending(S))
  BY <1>1 DEF Extent, S
<1> DEFINE r == Ascending(S)
<1>10. roaditems' = r
  BY <1>1 DEF S
<1> HIDE DEF r
<1>11. r \in Seq(S) /\ Ascends(r) /\ Len(r) \in Nat \ {0} /\ Len(r) <= Points /\ r # <<>> /\ Extent' = Len(r)
  <2>1. r \in Seq(S) /\ Ascends(r) /\ Len(r) \in Nat \ {0} /\ Len(r) <= Points /\ Extent' = Len(r)
    BY <1>7, <1>8, <1>9 DEF r
  <2>2. QED
    BY <2>1, EmptySeq
<1>12. ItemsInv'
  <2>1. Ascends(roaditems)'
    BY <1>10, <1>11 DEF Ascends
  <2>2. roaditems' \in Seq(DOMAIN message')
    BY <1>1, <1>10, <1>11 DEF S
  <2>3. /\ j' = 1 /\ lastLos' = -1 /\ pc' = "encode" /\ j' \in 1..Extent' + 1 /\ roaditems' # <<>>
        /\ Extent' <= Points
    BY <1>1, <1>4, <1>10, <1>11
  <2>4. QED
    BY <2>1, <2>2, <2>3 DEF ItemsInv
<1>13. EncodeInv'
  <2>1. sections' = <<>> /\ j' = 1 /\ pc' = "encode" /\ 1..1 - 1 = {}
    BY <1>1, <1>4
  <2>2. Listed(sections', Entered')
    BY <2>1, NoSections
  <2>3. QED
    BY <2>1, <2>2 DEF EncodeInv
<1>14. DecodeInv'
  BY <1>1, <1>4 DEF DecodeInv
<1>15. OutcomeInv'
  BY <1>1, <1>4 DEF OutcomeInv
<1>16. PartsInOrder'
  BY <1>1, <1>4 DEF PartsInOrder
<1>17. QED
  BY <1>3, <1>12, <1>13, <1>14, <1>15, <1>16 DEF IInv

LEMMA structSectionKeeps ==
    ASSUME IInv, structSection
    PROVE  IInv'
<1>1. /\ pc = "encode" /\ j <= Len(roaditems) /\ j' = j + 1
      /\ UNCHANGED <<page, roaditems, shows, lastTMCIndex, outcome, pc>>
  BY DEF structSection, decoder
<1>2. /\ RoadInv /\ PageInv /\ ItemsInv /\ EncodeInv /\ DecodeInv /\ OutcomeInv /\ PartsInOrder
  BY DEF IInv
<1>3. /\ RoadInv' /\ PageInv' /\ Entered' = Entered /\ Extent' = Extent /\ (InOrder' <=> InOrder)
  BY <1>1, <1>2, ItemsAreKept
<1>4. /\ Entries(Entered) /\ Len(Entered) = Extent /\ Extent \in Nat /\ DOMAIN Entered = 1..Extent
  BY <1>2, EnteredIs DEF ItemsInv
<1>5. j \in 1..Extent
  BY <1>1, <1>2, <1>4 DEF ItemsInv, Extent
<1>6. Block(sections, sections', Entered, j) /\ lastLos' = Entered[j][1]
  BY <1>2, BlockIsWritten DEF EncodeInv
<1>7. Encoded(sections, Entered, j)
  BY <1>1, <1>2 DEF EncodeInv, Encoded
<1>8. Encoded(sections', Entered, j + 1)
  BY <1>2, <1>4, <1>5, <1>6, <1>7, BlockIsListed DEF EncodeInv
<1>9. sections' \in Seq(Section)
  BY <1>6 DEF Block
<1>10. (j + 1) - 1 = j /\ j + 1 # 1 /\ j + 1 \in 1..Extent + 1
  BY <1>4, <1>5
<1>11. ItemsInv'
  <2>1. /\ roaditems \in Seq(DOMAIN message) /\ Ascends(roaditems) /\ Extent <= Points /\ roaditems # <<>>
    BY <1>1, <1>2 DEF ItemsInv
  <2>2. /\ roaditems' \in Seq(DOMAIN message') /\ Ascends(roaditems)'
    BY <1>1, <2>1 DEF page, Ascends
  <2>3. /\ j' = j + 1 /\ pc' = "encode" /\ roaditems' # <<>> /\ Extent' <= Points /\ j' \in 1..Extent' + 1
    BY <1>1, <1>3, <1>10, <2>1
  <2>4. lastLos' = IF j' = 1 THEN -1 ELSE Entered'[j' - 1][1]
    BY <1>1, <1>3, <1>6, <1>10
  <2>5. QED
    BY <2>2, <2>3, <2>4 DEF ItemsInv
<1>12. EncodeInv'
  BY <1>1, <1>3, <1>8, <1>9 DEF EncodeInv, Encoded
<1>13. shows = <<>> /\ lastTMCIndex = 0 /\ outcome = "none"
  BY <1>1, <1>2 DEF DecodeInv, OutcomeInv
<1>14. DecodeInv'
  BY <1>1, <1>13 DEF DecodeInv
<1>15. OutcomeInv'
  BY <1>1, <1>13 DEF OutcomeInv
<1>16. PartsInOrder'
  BY <1>1, <1>13 DEF PartsInOrder
<1>17. QED
  BY <1>3, <1>11, <1>12, <1>14, <1>15, <1>16 DEF IInv

(* All items are written, and stay as they are. *)
LEMMA PostedAreKept ==
    ASSUME RoadInv, PageInv, ItemsInv, UNCHANGED <<page, roaditems, j, lastLos>>,
           j = Extent + 1, pc # "edit", pc' \in {"match", "sections", "done"}
    PROVE  ItemsInv'
<1>1. /\ Entered' = Entered /\ Extent' = Extent
  BY ItemsAreKept
<1>2. /\ roaditems' = roaditems /\ message' = message /\ j' = j /\ lastLos' = lastLos
  BY DEF page
<1>3. /\ roaditems \in Seq(DOMAIN message) /\ Ascends(roaditems) /\ Extent <= Points /\ roaditems # <<>>
      /\ lastLos = (IF j = 1 THEN -1 ELSE Entered[j - 1][1]) /\ j \in 1..Extent + 1
  BY DEF ItemsInv
<1>4. /\ roaditems' \in Seq(DOMAIN message') /\ Ascends(roaditems)' /\ Extent' <= Points /\ roaditems' # <<>>
      /\ j' \in 1..Extent' + 1 /\ j' = Extent' + 1
  BY <1>1, <1>2, <1>3 DEF Ascends
<1>5. lastLos' = (IF j' = 1 THEN -1 ELSE Entered'[j' - 1][1])
  BY <1>1, <1>2, <1>3
<1>6. QED
  BY <1>4, <1>5 DEF ItemsInv

LEMMA SaveKeeps ==
    ASSUME IInv, Save
    PROVE  IInv'
<1>1. /\ pc = "encode" /\ j > Len(roaditems) /\ pc' = "match"
      /\ UNCHANGED <<page, roaditems, j, lastLos, sections, shows, lastTMCIndex, outcome>>
  BY DEF Save, encoder, decoder
<1>2. /\ RoadInv /\ PageInv /\ ItemsInv /\ EncodeInv /\ DecodeInv /\ OutcomeInv /\ PartsInOrder
  BY DEF IInv
<1>3. /\ RoadInv' /\ PageInv' /\ Entered' = Entered /\ Extent' = Extent
  BY <1>1, <1>2, ItemsAreKept
<1>4. j = Extent + 1
  <2>1. Extent \in Nat
    BY <1>2, EnteredIs DEF ItemsInv
  <2>2. j \in 1..Extent + 1 /\ j > Extent
    BY <1>1, <1>2 DEF ItemsInv, Extent
  <2>3. QED
    BY <2>1, <2>2
<1>5. ItemsInv'
  BY <1>1, <1>2, <1>4, PostedAreKept
<1>6. EncodeInv'
  BY <1>1, <1>2, <1>3 DEF EncodeInv
<1>7. shows = <<>> /\ lastTMCIndex = 0 /\ outcome = "none"
  BY <1>1, <1>2 DEF DecodeInv, OutcomeInv
<1>8. DecodeInv'
  BY <1>1, <1>7 DEF DecodeInv
<1>9. OutcomeInv'
  BY <1>1, <1>7 DEF OutcomeInv
<1>10. PartsInOrder'
  BY <1>1, <1>7 DEF PartsInOrder
<1>11. QED
  BY <1>3, <1>5, <1>6, <1>8, <1>9, <1>10 DEF IInv

(* The matcher gives up: on a version without the location, or on one that *)
(* is shorter, or if the items are not in order.                           *)
LEMMA GivingUpKeeps ==
    ASSUME IInv, NotLocated \/ WalkThrows
    PROVE  IInv'
<1>1. /\ pc = "match" /\ pc' = "done" /\ outcome' \in {"unlocated", "thrown"}
      /\ UNCHANGED <<page, roaditems, j, lastLos, sections, shows, lastTMCIndex>>
  BY DEF NotLocated, WalkThrows, encoder
<1>2. /\ RoadInv /\ PageInv /\ ItemsInv /\ EncodeInv /\ DecodeInv /\ OutcomeInv /\ PartsInOrder
  BY DEF IInv
<1>3. /\ RoadInv' /\ PageInv' /\ (InOrder' <=> InOrder) /\ (known = tmcs <=> (known = tmcs)')
  BY <1>1, <1>2, ItemsAreKept
<1>4. ItemsInv'
  <2>1. j = Extent + 1
    BY <1>1, <1>2 DEF ItemsInv
  <2>2. QED
    BY <1>1, <1>2, <2>1, PostedAreKept
<1>5. EncodeInv'
  BY <1>1, <1>2 DEF EncodeInv
<1>6. shows = <<>> /\ lastTMCIndex = 0
  BY <1>1, <1>2 DEF DecodeInv
<1>7. DecodeInv'
  BY <1>1, <1>6 DEF DecodeInv
<1>8. ~(InOrder /\ known = tmcs)
  <2>1. SUFFICES ASSUME InOrder, known = tmcs
                 PROVE  FALSE
    OBVIOUS
  <2>2. roaditems # <<>>
    BY <1>1, <1>2 DEF ItemsInv
  <2>3. getIndex(LocID) > 0
    <3>1. PICK i \in 2..Start : known = tmcs => getIndex(LocID) = i - 1
      BY <1>2, <2>2, LocIDIsPoint, PointIsFound
    <3>2. QED
      BY <2>1, <3>1
  <2>4. CASE NotLocated
    <3>1. getIndex(LocID) <= 0
      BY <2>4 DEF NotLocated
    <3>2. PICK i \in 2..Start : getIndex(LocID) = i - 1
      BY <1>2, <2>1, <2>2, LocIDIsPoint, PointIsFound
    <3>3. QED
      BY <3>1, <3>2
  <2>5. CASE WalkThrows
    <3>1. ~isLoopRoad /\ \E i \in walked : i < 0
      BY <2>5 DEF WalkThrows
    <3>2. \A i \in walked : i >= 0
      BY <1>2, <2>1, <2>2, <2>3, <3>1, WalkFindsItems
    <3>3. \A i \in walked : i \in Int
      <4>1. \A a, b : \A i \in a..b : i \in Int
        OBVIOUS
      <4>2. QED
        BY <4>1 DEF walked
    <3>4. QED
      BY <3>1, <3>2, <3>3
  <2>6. QED
    BY <2>4, <2>5
<1>9. OutcomeInv'
  BY <1>1, <1>3, <1>8 DEF OutcomeInv
<1>10. PartsInOrder'
  BY <1>1, <1>6 DEF PartsInOrder
<1>11. QED
  BY <1>3, <1>4, <1>5, <1>7, <1>9, <1>10 DEF IInv

LEMMA WalkKeeps ==
    ASSUME IInv, Walk
    PROVE  IInv'
<1> DEFINE g == getIndex(LocID)
           N == alloffset
<1>1. /\ pc = "match" /\ pc' = "sections" /\ g > 0 /\ (isLoopRoad \/ \A i \in walked : i >= 0)
      /\ shows' = [k \in 1..N |-> [id |-> entry(g - N + k), los |-> 1, tempShape |-> <<>>]]
      /\ UNCHANGED <<page, roaditems, j, lastLos, sections, lastTMCIndex, outcome>>
  BY DEF Walk, encoder
<1>2. /\ RoadInv /\ PageInv /\ ItemsInv /\ EncodeInv /\ DecodeInv /\ OutcomeInv /\ PartsInOrder
  BY DEF IInv
<1>3. /\ RoadInv' /\ PageInv' /\ Entered' = Entered /\ Extent' = Extent /\ (InOrder' <=> InOrder)
      /\ alloffset' = alloffset
  BY <1>1, <1>2, ItemsAreKept
<1>4. roaditems # <<>> /\ j = Extent + 1
  BY <1>1, <1>2 DEF ItemsInv
<1>5. ItemsInv'
  BY <1>1, <1>2, <1>4, PostedAreKept
<1>6. /\ N \in 1..Extent
      /\ \A k \in 1..N : entry(g - N + k) \in 1..Start
      /\ InOrder => \A k \in 1..N : entry(g - N + k) = roaditems[k + Extent - N]
  BY <1>1, <1>2, <1>4, WalkFindsItems
<1>7. /\ Entries(Entered) /\ Len(Entered) = Extent /\ Extent \in Nat
  BY <1>2, EnteredIs DEF ItemsInv
<1> HIDE DEF g, N
<1>8. DOMAIN shows' = 1..N /\ \A k \in 1..N : shows'[k].id = entry(g - N + k) /\ shows'[k].tempShape = <<>>
  BY <1>1
<1>9. shows' \in Seq(Show) /\ Len(shows') = N
  <2>1. \A k \in 1..N : [id |-> entry(g - N + k), los |-> 1, tempShape |-> <<>>] \in Show
    BY <1>6 DEF Show, Los
  <2>2. shows' \in [1..N -> Show]
    BY <1>1, <2>1
  <2>3. N \in Nat
    BY <1>6, <1>7
  <2>4. QED
    BY <1>8, <2>2, <2>3, SeqDef
<1>10. lastTMCIndex' = 0 /\ outcome' = "none"
  BY <1>1, <1>2 DEF DecodeInv, OutcomeInv
<1>11. EncodeInv'
  BY <1>1, <1>2, <1>3 DEF EncodeInv
<1>12. Encoded(sections, Entered, Len(Entered) + 1)
  BY <1>1, <1>2, <1>4, <1>7 DEF EncodeInv, Encoded
<1>13. Decoded(sections', Entered', shows', 0)
  <2>1. sections \in Seq(Section) /\ sections' = sections
    BY <1>1, <1>2 DEF EncodeInv
  <2> DEFINE sh == shows'
  <2>2. Len(sh) \in 1..Len(Entered) /\ DOMAIN sh = 1..Len(sh) /\ \A m \in 1..Len(sh) : sh[m].tempShape = <<>>
    BY <1>6, <1>7, <1>8, <1>9
  <2> HIDE DEF sh
  <2>3. Decoded(sections, Entered, sh, 0)
    BY <1>7, <1>12, <2>1, <2>2, DecodingBegins
  <2>4. QED
    BY <1>3, <2>1, <2>3 DEF sh
<1>14. DecodeInv'
  <2>1. \A m \in DOMAIN shows' : InOrder => shows'[m].id = roaditems[m + Extent - Len(shows')]
    BY <1>6, <1>8, <1>9
  <2>2. InOrder' => \A m \in DOMAIN shows' : shows'[m].id = roaditems'[m + Extent' - Len(shows')]
    BY <1>1, <1>3, <2>1
  <2>3. lastTMCIndex' \in 0..Len(shows')
    BY <1>6, <1>7, <1>9, <1>10
  <2>4. Len(shows') = alloffset' /\ 0 < alloffset'
    BY <1>3, <1>6, <1>7, <1>9 DEF N
  <2>5. pc' = "sections"
    BY <1>1
  <2>6. QED
    BY <1>9, <1>10, <1>13, <2>2, <2>3, <2>4, <2>5 DEF DecodeInv
<1>15. OutcomeInv'
  BY <1>1, <1>10 DEF OutcomeInv
<1>16. PartsInOrder'
  BY <1>8 DEF PartsInOrder
<1>17. QED
  BY <1>3, <1>5, <1>11, <1>14, <1>15, <1>16 DEF IInv

(* The locations that a section of whole locations covers are those of the *)
(* items from its own on.                                                  *)
LEMMA CoveredFrom ==
    ASSUME NEW K \in Nat, NEW n \in Nat, NEW N \in Nat, N = Min2(K, n), 0 < N,
           NEW offset \in Nat, K - offset + 1 \in 1..K,
           NEW cov, cov = N - Min2(offset, n) + 1
    PROVE  /\ cov \in 1..N
           /\ \A m \in 1..N : cov <= m <=> K - offset + 1 <= m + K - N
BY DEF Min2

LEMMA SectionTMCKeeps ==
    ASSUME IInv, SectionTMC
    PROVE  IInv'
<1> DEFINE q == sections
           E == Entered
           N == Len(shows)
           cov == covered
<1>1. /\ pc = "sections" /\ q # <<>> /\ section.resolution = "TMCLocations" /\ sections' = Tail(q)
      /\ UNCHANGED <<page, roaditems, j, lastLos>>
      /\ ~(cov < 1) => /\ shows' = [k \in DOMAIN shows |->
                                      IF k >= cov THEN [shows[k] EXCEPT !.los = section.los] ELSE shows[k]]
                       /\ lastTMCIndex' = cov /\ UNCHANGED <<outcome, pc>>
  BY DEF SectionTMC
<1>2. /\ RoadInv /\ PageInv /\ ItemsInv /\ EncodeInv /\ DecodeInv /\ OutcomeInv /\ PartsInOrder
  BY DEF IInv
<1>3. /\ RoadInv' /\ PageInv' /\ Entered' = Entered /\ Extent' = Extent /\ (InOrder' <=> InOrder)
      /\ alloffset' = alloffset
  BY <1>1, <1>2, ItemsAreKept
<1>4. /\ q \in Seq(Section) /\ Listed(q, E)
  BY <1>1, <1>2 DEF EncodeInv
<1>5. /\ shows \in Seq(Show) /\ lastTMCIndex \in 0..N /\ N = alloffset /\ 0 < N
      /\ Decoded(q, E, shows, lastTMCIndex)
  BY <1>1, <1>2 DEF DecodeInv
<1>6. /\ Entries(E) /\ Len(E) = Extent /\ Extent \in Nat /\ DOMAIN E = 1..Extent
  BY <1>2, EnteredIs DEF ItemsInv
<1>7. /\ section = q[1] /\ q[1] \in Section /\ Whole(q[1]) /\ Item(q[1], E) \in 1..Extent
      /\ Item(q[1], E) = Extent - q[1].offset + 1 /\ q[1].offset \in Nat /\ q[1].los \in Los
  <2>1. section = q[1] /\ q[1] \in Section /\ 1 \in DOMAIN q
    BY <1>1, <1>4, TailOf DEF section
  <2>2. Whole(q[1])
    BY <1>1, <2>1 DEF Whole
  <2>3. Item(q[1], E) \in DOMAIN E
    BY <1>4, <2>1, <2>2 DEF Listed
  <2>4. QED
    BY <1>6, <2>1, <2>2, <2>3 DEF Item, Section
<1>8. N \in Nat /\ DOMAIN shows = 1..N /\ \A m \in 1..N : shows[m] \in Show
  BY <1>5, LenProperties, ElementOfSeq
<1>9. Len(known) - 1 \in Nat
  BY <1>2, RoadFacts
<1>10. cov = N - Min2(q[1].offset, Len(known) - 1) + 1 /\ N = Min2(Extent, Len(known) - 1)
  BY <1>5, <1>7 DEF covered, alloffset
<1> DEFINE i0 == Item(q[1], E)
<1>11. /\ cov \in 1..N
       /\ \A m \in 1..N : cov <= m <=> i0 <= m + Extent - N
  <2> DEFINE n == Len(known) - 1
             o == q[1].offset
             K == Extent
  <2>1. /\ K \in Nat /\ n \in Nat /\ N \in Nat /\ N = Min2(K, n) /\ 0 < N
        /\ o \in Nat /\ K - o + 1 \in 1..K /\ cov = N - Min2(o, n) + 1 /\ i0 = K - o + 1
    BY <1>5, <1>6, <1>7, <1>8, <1>9, <1>10
  <2> HIDE DEF n, o, K, N, cov, i0
  <2>2. /\ cov \in 1..N
        /\ \A m \in 1..N : cov <= m <=> K - o + 1 <= m + K - N
    BY <2>1, CoveredFrom
  <2>3. QED
    BY <2>1, <2>2 DEF K
<1>12. N <= Extent
  BY <1>6, <1>8, <1>9, <1>10 DEF Min2
<1> HIDE DEF N, cov, i0
<1>13. /\ shows' = [k \in 1..N |-> IF k >= cov THEN [shows[k] EXCEPT !.los = section.los] ELSE shows[k]]
       /\ lastTMCIndex' = cov /\ UNCHANGED <<outcome, pc>>
  BY <1>1, <1>8, <1>11
<1> DEFINE sh == shows'
<1>14. \A m \in 1..N : /\ sh[m] \in Show /\ sh[m].id = shows[m].id
                       /\ sh[m].tempShape = shows[m].tempShape
                       /\ sh[m].los = IF cov <= m THEN q[1].los ELSE shows[m].los
  <2>1. SUFFICES ASSUME NEW m \in 1..N
                 PROVE  /\ sh[m] \in Show /\ sh[m].id = shows[m].id
                        /\ sh[m].tempShape = shows[m].tempShape
                        /\ sh[m].los = IF cov <= m THEN q[1].los ELSE shows[m].los
    OBVIOUS
  <2>2. sh[m] = IF m >= cov THEN [shows[m] EXCEPT !.los = q[1].los] ELSE shows[m]
    BY <1>7, <1>13
  <2>3. shows[m] \in Show /\ q[1].los \in Los /\ (m >= cov <=> cov <= m)
    BY <1>7, <1>8, <1>11
  <2> HIDE DEF sh
  <2>4. QED
    BY <2>2, <2>3 DEF Show
<1>15. DOMAIN sh = 1..N /\ sh \in Seq(Show) /\ Len(sh) = N
  <2>1. DOMAIN sh = 1..N /\ sh = [k \in 1..N |-> sh[k]]
    BY <1>13
  <2> HIDE DEF sh
  <2>2. sh \in [1..N -> Show]
    BY <1>14, <2>1
  <2>3. QED
    BY <1>8, <2>1, <2>2, SeqDef
<1> HIDE DEF sh
<1>16. Decoded(Tail(q), E, sh, cov)
  <2>1. /\ N = Len(shows) /\ Len(sh) = Len(shows) /\ DOMAIN sh = DOMAIN shows
        /\ cov \in 1..Len(shows) /\ Len(shows) <= Len(E)
    BY <1>6, <1>8, <1>11, <1>12, <1>15 DEF N
  <2>2. \A m \in 1..Len(shows) : cov <= m <=> Item(q[1], E) <= m + Len(E) - Len(shows)
    BY <1>6, <1>11, <2>1 DEF i0
  <2>3. lastTMCIndex \in 0..Len(shows)
    BY <1>5, <2>1
  <2>4. \A m \in DOMAIN shows : /\ sh[m].tempShape = shows[m].tempShape
                                /\ sh[m].los = IF cov <= m THEN q[1].los ELSE shows[m].los
    BY <1>8, <1>14
  <2> HIDE DEF E, q
  <2>5. QED
    <3>1. /\ Entries(E) /\ q \in Seq(Section) /\ q # <<>> /\ Listed(q, E) /\ Whole(q[1]) /\ shows \in Seq(Show)
          /\ Decoded(q, E, shows, lastTMCIndex)
      BY <1>1, <1>4, <1>5, <1>6, <1>7
    <3>2. QED
      BY <2>1, <2>2, <2>3, <2>4, <3>1, WholeIsTaken
<1>17. Listed(Tail(q), E) /\ Tail(q) \in Seq(Section)
  BY <1>1, <1>4, TailOf, TailIsListed
<1>18. ItemsInv'
  <2>1. j = Extent + 1 /\ pc' = "sections"
    BY <1>1, <1>2, <1>13 DEF ItemsInv
  <2>2. QED
    BY <1>1, <1>2, <2>1, PostedAreKept
<1>19. EncodeInv'
  BY <1>1, <1>3, <1>13, <1>17 DEF EncodeInv
<1>20. DecodeInv'
  <2>1. InOrder' => \A m \in DOMAIN shows' : shows'[m].id = roaditems'[m + Extent' - Len(shows')]
    <3>1. InOrder => \A m \in 1..N : shows[m].id = roaditems[m + Extent - N]
      BY <1>2, <1>8 DEF DecodeInv, N
    <3>2. DOMAIN shows' = 1..N /\ Len(shows') = N /\ \A m \in 1..N : shows'[m].id = shows[m].id
      BY <1>14, <1>15 DEF sh
    <3>3. QED
      BY <1>1, <1>3, <3>1, <3>2
  <2>2. shows' \in Seq(Show) /\ Len(shows') = N /\ lastTMCIndex' \in 0..Len(shows')
    BY <1>8, <1>11, <1>13, <1>15 DEF sh
  <2>3. Len(shows') = alloffset' /\ 0 < alloffset'
    BY <1>3, <1>5, <2>2 DEF N
  <2>4. Decoded(sections', Entered', shows', lastTMCIndex')
    BY <1>1, <1>3, <1>13, <1>16 DEF sh
  <2>5. QED
    BY <1>1, <1>13, <2>1, <2>2, <2>3, <2>4 DEF DecodeInv
<1>21. OutcomeInv'
  BY <1>1, <1>2, <1>13 DEF OutcomeInv
<1>22. PartsInOrder'
  <2>1. PartsFollow(shows)
    BY <1>2 DEF PartsInOrder, PartsFollow
  <2>2. \A m \in DOMAIN shows : Ordered(shows[m].id, shows[m].tempShape)
    BY <1>5, <2>1, PartsAreOrdered
  <2>3. \A m \in DOMAIN sh : Ordered(sh[m].id, sh[m].tempShape)
    BY <1>8, <1>14, <1>15, <2>2
  <2>4. PartsFollow(sh)
    BY <1>15, <2>3, PartsAreOrdered
  <2>5. QED
    BY <1>1, <2>4 DEF PartsInOrder, PartsFollow, Unlinked, page, sh
<1>23. QED
  BY <1>3, <1>18, <1>19, <1>20, <1>21, <1>22 DEF IInv

LEMMA SectionRelativeKeeps ==
    ASSUME IInv, SectionRelative
    PROVE  IInv'
<1> DEFINE q == sections
           E == Entered
           N == Len(shows)
           last == lastTMCIndex
<1>1. /\ pc = "sections" /\ q # <<>> /\ section.resolution = "RELATIVE100M" /\ sections' = Tail(q)
      /\ UNCHANGED <<page, roaditems, j, lastLos, lastTMCIndex>>
      /\ last # 0 => /\ shows' = [shows EXCEPT ![last] =
                           doLengthSpatialResolution(@, section.offset * Hundred, section.los)]
                     /\ UNCHANGED <<outcome, pc>>
  BY DEF SectionRelative
<1>2. /\ RoadInv /\ PageInv /\ ItemsInv /\ EncodeInv /\ DecodeInv /\ OutcomeInv /\ PartsInOrder
  BY DEF IInv
<1>3. /\ RoadInv' /\ PageInv' /\ Entered' = Entered /\ Extent' = Extent /\ (InOrder' <=> InOrder)
      /\ alloffset' = alloffset
  BY <1>1, <1>2, ItemsAreKept
<1>4. /\ q \in Seq(Section) /\ Listed(q, E)
  BY <1>1, <1>2 DEF EncodeInv
<1>5. /\ shows \in Seq(Show) /\ last \in 0..N /\ N = alloffset /\ 0 < N
      /\ Decoded(q, E, shows, last)
  BY <1>1, <1>2 DEF DecodeInv
<1>6. /\ Entries(E) /\ Len(E) = Extent /\ Extent \in Nat /\ DOMAIN E = 1..Extent
  BY <1>2, EnteredIs DEF ItemsInv
<1>7. /\ section = q[1] /\ ~Whole(q[1]) /\ q[1].offset \in Nat /\ q[1].los \in Los
  <2>1. section = q[1] /\ q[1] \in Section
    BY <1>1, <1>4, TailOf DEF section
  <2>2. QED
    BY <1>1, <2>1 DEF Whole, Section
<1>8. N \in Nat /\ DOMAIN shows = 1..N /\ \A m \in 1..N : shows[m] \in Show
  BY <1>5, LenProperties, ElementOfSeq
<1>9. N <= Extent
  <2>1. Len(known) - 1 \in Nat
    BY <1>2, RoadFacts
  <2>2. QED
    BY <1>5, <1>6, <2>1 DEF alloffset, Min2
<1>10. last \in 1..N
  <2>1. last # 0
    BY <1>1, <1>5, <1>7 DEF Decoded
  <2>2. QED
    BY <1>5, <1>8, <2>1
<1> HIDE DEF N
<1> DEFINE ts == shows[last]
           new == doLengthSpatialResolution(ts, q[1].offset * Hundred, q[1].los)
           sh == shows'
<1>11. /\ sh = [shows EXCEPT ![last] = new] /\ UNCHANGED <<outcome, pc>>
  <2>1. last # 0
    BY <1>8, <1>10
  <2>2. QED
    BY <1>1, <1>7, <2>1
<1>12. \A m \in DOMAIN shows : Ordered(shows[m].id, shows[m].tempShape)
  <2>1. PartsFollow(shows)
    BY <1>2 DEF PartsInOrder, PartsFollow
  <2>2. QED
    BY <1>5, <2>1, PartsAreOrdered
<1>13. ts \in Show /\ Ordered(ts.id, ts.tempShape)
  BY <1>8, <1>10, <1>12
<1>14. q[1].offset * Hundred \in Nat
  BY <1>7, RowsAssumption
<1> DEFINE d == q[1].offset * Hundred
           los == q[1].los
<1>15. new = doLengthSpatialResolution(ts, d, los) /\ d \in Nat /\ los \in Los
  BY <1>7, <1>14
<1> HIDE DEF ts, new, d, los
<1>16. /\ new \in Show /\ new.id = ts.id /\ new.los = ts.los
       /\ new.tempShape # <<>>
       /\ Len(new.tempShape) = Count(ts) + 1 /\ DOMAIN new.tempShape = 1..Count(ts) + 1
       /\ new.tempShape[Count(ts) + 1].los = los
       /\ ts.tempShape = <<>> => new.tempShape[1].los = ts.los
       /\ ts.tempShape # <<>> => \A n \in 1..Count(ts) : new.tempShape[n].los = ts.tempShape[n].los
       /\ Ordered(new.id, new.tempShape)
  BY <1>13, <1>15, LocationIsSplit
<1> HIDE DEF sh
<1>17. /\ sh \in Seq(Show) /\ Len(sh) = N /\ DOMAIN sh = 1..N
       /\ \A m \in 1..N : sh[m] = IF m = last THEN new ELSE shows[m]
  <2>1. /\ [shows EXCEPT ![last] = new] \in Seq(Show)
        /\ Len([shows EXCEPT ![last] = new]) = Len(shows)
        /\ \A m \in 1..Len(shows) : [shows EXCEPT ![last] = new][m] = IF m = last THEN new ELSE shows[m]
    BY <1>5, <1>10, <1>16, ExceptSeq DEF N
  <2>2. sh \in Seq(Show) /\ Len(sh) = N /\ \A m \in 1..N : sh[m] = IF m = last THEN new ELSE shows[m]
    BY <1>11, <2>1 DEF N
  <2>3. QED
    BY <2>2, LenProperties
<1>18. \A m \in 1..N : sh[m].id = shows[m].id
  BY <1>16, <1>17 DEF ts
<1>19. Decoded(Tail(q), E, sh, last)
  <2>1. sh[last] = new /\ last \in 1..Len(shows) /\ Len(shows) <= Len(E) /\ DOMAIN sh = DOMAIN shows
        /\ Len(sh) = Len(shows) /\ \A m \in DOMAIN shows : m # last => sh[m] = shows[m]
    BY <1>6, <1>8, <1>9, <1>10, <1>17 DEF N
  <2>2. /\ sh[last].los = shows[last].los
        /\ sh[last].tempShape # <<>>
        /\ Len(sh[last].tempShape) = Count(shows[last]) + 1
        /\ DOMAIN sh[last].tempShape = 1..Count(shows[last]) + 1
        /\ sh[last].tempShape[Count(shows[last]) + 1].los = q[1].los
        /\ shows[last].tempShape = <<>> => sh[last].tempShape[1].los = shows[last].los
        /\ shows[last].tempShape # <<>> =>
              \A n \in 1..Count(shows[last]) : sh[last].tempShape[n].los = shows[last].tempShape[n].los
    BY <1>16, <2>1 DEF ts, los
  <2>3. /\ Entries(E) /\ q \in Seq(Section) /\ q # <<>> /\ ~Whole(q[1]) /\ shows \in Seq(Show)
        /\ Decoded(q, E, shows, last)
    BY <1>1, <1>4, <1>5, <1>6, <1>7
  <2> HIDE DEF E, q, last
  <2>4. QED
    BY <2>1, <2>2, <2>3, RelativeIsTaken
<1>20. Listed(Tail(q), E) /\ Tail(q) \in Seq(Section)
  BY <1>1, <1>4, TailOf, TailIsListed
<1>21. ItemsInv'
  <2>1. j = Extent + 1 /\ pc' = "sections"
    BY <1>1, <1>2, <1>11 DEF ItemsInv
  <2>2. QED
    BY <1>1, <1>2, <2>1, PostedAreKept
<1>22. EncodeInv'
  BY <1>1, <1>3, <1>11, <1>20 DEF EncodeInv
<1>23. DecodeInv'
  <2>1. InOrder' => \A m \in DOMAIN shows' : shows'[m].id = roaditems'[m + Extent' - Len(shows')]
    <3>1. InOrder => \A m \in 1..N : shows[m].id = roaditems[m + Extent - N]
      BY <1>2, <1>8 DEF DecodeInv, N
    <3>2. DOMAIN shows' = 1..N /\ Len(shows') = N /\ \A m \in 1..N : shows'[m].id = shows[m].id
      BY <1>17, <1>18 DEF sh
    <3>3. QED
      BY <1>1, <1>3, <3>1, <3>2
  <2>2. shows' \in Seq(Show) /\ Len(shows') = N /\ lastTMCIndex' \in 0..Len(shows')
    BY <1>1, <1>5, <1>17 DEF sh, N
  <2>3. Len(shows') = alloffset' /\ 0 < alloffset'
    BY <1>3, <1>5, <2>2 DEF N
  <2>4. Decoded(sections', Entered', shows', lastTMCIndex')
    BY <1>1, <1>3, <1>19 DEF sh
  <2>5. QED
    BY <1>1, <1>11, <2>1, <2>2, <2>3, <2>4 DEF DecodeInv
<1>24. OutcomeInv'
  BY <1>1, <1>2, <1>11 DEF OutcomeInv
<1>25. PartsInOrder'
  <2>1. \A m \in DOMAIN sh : Ordered(sh[m].id, sh[m].tempShape)
    BY <1>8, <1>12, <1>16, <1>17
  <2>2. PartsFollow(sh)
    BY <1>17, <2>1, PartsAreOrdered
  <2>3. QED
    BY <1>1, <2>2 DEF PartsInOrder, PartsFollow, Unlinked, page, sh
<1>26. QED
  BY <1>3, <1>21, <1>22, <1>23, <1>24, <1>25 DEF IInv

(* Of a message in driving order, opened with its version, no location is   *)
(* the beginning of the road.                                              *)
LEMMA LinkedAreItems ==
    ASSUME RoadInv, PageInv, ItemsInv, DecodeInv, pc = "sections", InOrder, known = tmcs, NullDrawn
    PROVE  FALSE
<1>1. PICK m \in DOMAIN shows : Unlinked(shows[m].id)
  BY DEF NullDrawn
<1>2. shows[m].id = Start
  <2>1. tmcs # <<>> /\ Head(tmcs) = tmcs[1]
    <3>1. tmcs \in Seq(1..Start) /\ Len(tmcs) # 0
      BY RowsAssumption DEF RoadInv, Start
    <3>2. QED
      BY <3>1
  <2>2. QED
    BY <1>1, <2>1 DEF Unlinked, RoadInv
<1>3. /\ shows \in Seq(Show) /\ Len(shows) = alloffset /\ 0 < alloffset
      /\ shows[m].id = roaditems[m + Extent - Len(shows)]
  BY <1>1 DEF DecodeInv
<1>4. /\ DOMAIN roaditems = 1..Extent /\ Extent \in Nat
      /\ \A i \in 1..Extent : roaditems[i] \in 1..Points
  <2>1. roaditems \in Seq(DOMAIN message) /\ DOMAIN message \subseteq 1..Points
    BY DEF ItemsInv, PageInv
  <2>2. /\ DOMAIN roaditems = 1..Len(roaditems) /\ Len(roaditems) \in Nat
        /\ \A i \in 1..Len(roaditems) : roaditems[i] \in DOMAIN message
    BY <2>1, LenProperties, ElementOfSeq
  <2>3. QED
    BY <2>1, <2>2 DEF Extent
<1>5. Len(shows) <= Extent /\ Len(shows) \in Nat /\ m \in 1..Len(shows)
  <2>1. Len(known) - 1 \in Nat
    BY RoadFacts
  <2>2. QED
    BY <1>1, <1>3, <1>4, <2>1, LenProperties DEF alloffset, Min2
<1>6. m + Extent - Len(shows) \in 1..Extent
  BY <1>4, <1>5
<1>7. shows[m].id \in 1..Points
  BY <1>3, <1>4, <1>6
<1>8. Points \in Nat /\ Start = Points + 1
  BY RowsAssumption DEF Start
<1>9. QED
  BY <1>2, <1>7, <1>8

LEMMA ShowResultsKeeps ==
    ASSUME IInv, ShowResults
    PROVE  IInv'
<1>1. /\ pc = "sections" /\ pc' = "done" /\ sections = <<>>
      /\ outcome' = "shown" \/ (NullDrawn /\ outcome' = "error")
      /\ UNCHANGED <<page, roaditems, j, lastLos, sections, shows, lastTMCIndex>>
  BY DEF ShowResults, encoder
<1>2. /\ RoadInv /\ PageInv /\ ItemsInv /\ EncodeInv /\ DecodeInv /\ OutcomeInv /\ PartsInOrder
  BY DEF IInv
<1>3. /\ RoadInv' /\ PageInv' /\ Entered' = Entered /\ Extent' = Extent /\ (InOrder' <=> InOrder)
      /\ alloffset' = alloffset
  BY <1>1, <1>2, ItemsAreKept
<1>4. ItemsInv'
  <2>1. j = Extent + 1
    BY <1>1, <1>2 DEF ItemsInv
  <2>2. QED
    BY <1>1, <1>2, <2>1, PostedAreKept
<1>5. EncodeInv'
  BY <1>1, <1>2 DEF EncodeInv
<1>6. DecodeInv'
  <2>1. /\ shows \in Seq(Show) /\ lastTMCIndex \in 0..Len(shows) /\ Len(shows) = alloffset /\ 0 < alloffset
        /\ Decoded(sections, Entered, shows, lastTMCIndex)
        /\ InOrder => \A m \in DOMAIN shows : shows[m].id = roaditems[m + Extent - Len(shows)]
    BY <1>1, <1>2 DEF DecodeInv
  <2>2. QED
    BY <1>1, <1>3, <2>1 DEF DecodeInv
<1>7. NullDrawn => ~(InOrder /\ known = tmcs)
  BY <1>1, <1>2, LinkedAreItems
<1>8. (InOrder /\ known = tmcs)' => InOrder /\ known = tmcs
  BY <1>2, <1>1, ItemsAreKept
<1>9. NullDrawn' <=> NullDrawn
  BY <1>1 DEF NullDrawn, Unlinked, page
<1>10. OutcomeInv'
  BY <1>1, <1>7, <1>8, <1>9 DEF OutcomeInv
<1>11. PartsInOrder'
  BY <1>1, <1>2 DEF PartsInOrder, Unlinked, page
<1>12. QED
  BY <1>3, <1>4, <1>5, <1>6, <1>10, <1>11 DEF IInv

LEMMA StutterKeeps ==
    ASSUME IInv, UNCHANGED vars
    PROVE  IInv'
<1>1. /\ UNCHANGED <<page, roaditems, j, lastLos, sections, shows, lastTMCIndex, outcome, pc>>
  BY DEF vars, encoder, decoder
<1>2. /\ RoadInv /\ PageInv /\ ItemsInv /\ EncodeInv /\ DecodeInv /\ OutcomeInv /\ PartsInOrder
  BY DEF IInv
<1>3. /\ RoadInv' /\ PageInv' /\ Entered' = Entered /\ Extent' = Extent /\ (InOrder' <=> InOrder)
      /\ alloffset' = alloffset /\ (known = tmcs <=> (known = tmcs)')
  BY <1>1, <1>2, ItemsAreKept
<1>4. DOMAIN message' = DOMAIN message
  BY <1>1 DEF page
<1>5. ItemsInv'
  BY <1>1, <1>2, <1>3, <1>4 DEF ItemsInv, Ascends
<1>6. EncodeInv'
  BY <1>1, <1>2, <1>3 DEF EncodeInv
<1>7. DecodeInv'
  BY <1>1, <1>2, <1>3 DEF DecodeInv
<1>8. OutcomeInv'
  BY <1>1, <1>2, <1>3 DEF OutcomeInv, NullDrawn, Unlinked, page
<1>9. PartsInOrder'
  BY <1>1, <1>2 DEF PartsInOrder, Unlinked, page
<1>10. QED
  BY <1>3, <1>5, <1>6, <1>7, <1>8, <1>9 DEF IInv

LEMMA StepKeeps ==
    ASSUME IInv, [Next]_vars
    PROVE  IInv'
<1>1. ASSUME NEW id \in 1..Points, NEW rows \in Rows, Submit(id, rows) \/ SubmitThrows(id, rows)
      PROVE  IInv'
  <2>1. /\ pc = "edit" /\ message' = store(id, Cut(rows).losshape)
        /\ UNCHANGED <<isLoopRoad, tmcs, known, encoder, decoder, pc>>
    BY <1>1 DEF Submit, SubmitThrows
  <2>2. QED
    BY <2>1, EditKeeps
<1>2. CASE Create
  BY <1>2, CreateKeeps
<1>3. CASE structSection
  BY <1>3, structSectionKeeps
<1>4. CASE Save
  BY <1>4, SaveKeeps
<1>5. CASE NotLocated \/ WalkThrows
  BY <1>5, GivingUpKeeps
<1>6. CASE Walk
  BY <1>6, WalkKeeps
<1>7. CASE SectionTMC
  BY <1>7, SectionTMCKeeps
<1>8. CASE SectionRelative
  BY <1>8, SectionRelativeKeeps
<1>9. CASE ShowResults
  BY <1>9, ShowResultsKeeps
<1>10. CASE UNCHANGED vars
  BY <1>10, StutterKeeps
<1>11. QED
  BY <1>1, <1>2, <1>3, <1>4, <1>5, <1>6, <1>7, <1>8, <1>9, <1>10 DEF Next

-----------------------------------------------------------------------------
(* The theorems.                                                           *)

LEMMA InvariantHolds == Spec => []IInv
<1>1. Init => IInv
  BY InitHolds
<1>2. IInv /\ [Next]_vars => IInv'
  BY StepKeeps
<1>3. QED
  BY <1>1, <1>2, PTL DEF Spec

(* Every variable keeps its range: what the page posts are rows with shapes *)
(* of vertices, no section has an offset below nothing, and the parts of a  *)
(* location are lines again however often splitShape cuts them.             *)
THEOREM TypeCorrect == Spec => []TypeOK
<1>1. ASSUME IInv
      PROVE  TypeOK
  <2>1. /\ RoadInv /\ PageInv /\ ItemsInv /\ EncodeInv /\ DecodeInv /\ OutcomeInv
    BY <1>1 DEF IInv
  <2>2. isLoopRoad \in BOOLEAN /\ tmcs \in Seq(1..Start) /\ known \in {tmcs, Tail(tmcs)}
    BY <2>1 DEF RoadInv
  <2>3. DOMAIN message \subseteq 1..Points /\ \A id \in DOMAIN message : message[id] \in Seq(Losshape) \ {<<>>}
    BY <2>1 DEF PageInv
  <2>4. /\ pc \in {"edit", "encode", "match", "sections", "done"}
        /\ roaditems \in Seq(DOMAIN message) /\ j \in 1..(Len(roaditems) + 1)
    BY <2>1 DEF ItemsInv, Extent
  <2>5. lastLos \in Los \union {-1}
    <3>1. /\ Entries(Entered) /\ DOMAIN Entered = 1..Extent /\ Extent \in Nat /\ Len(Entered) = Extent
      BY <2>1, EnteredIs DEF ItemsInv
    <3>2. CASE j = 1
      BY <2>1, <3>2 DEF ItemsInv
    <3>3. CASE j # 1
      <4>1. lastLos = Entered[j - 1][1] /\ j - 1 \in 1..Extent
        BY <2>1, <3>1, <3>3 DEF ItemsInv
      <4> DEFINE e == Entered[j - 1]
      <4>2. e \in Seq(Los) /\ Len(e) \in Nat \ {0}
        BY <3>1, <4>1, ElementOfSeq DEF Entries
      <4> HIDE DEF e
      <4>3. 1 \in 1..Len(e)
        BY <4>2
      <4>4. e[1] \in Los
        BY <4>2, <4>3, ElementOfSeq
      <4>5. QED
        BY <4>1, <4>4 DEF e
    <3>4. QED
      BY <3>2, <3>3
  <2>6. sections \in Seq([resolution : {"TMCLocations", "RELATIVE100M"}, offset : Nat, los : Los])
    BY <2>1 DEF EncodeInv, Section
  <2>7. /\ shows \in Seq([id : 1..Start, los : Los,
                          tempShape : Seq([los : Los, shape : Seq(Nat)])])
        /\ lastTMCIndex \in 0..Len(shows)
    BY <2>1 DEF DecodeInv, Show, Part
  <2>8. outcome \in {"none", "shown", "unlocated", "error", "thrown"}
    BY <2>1 DEF OutcomeInv
  <2>9. QED
    BY <2>2, <2>3, <2>4, <2>5, <2>6, <2>7, <2>8 DEF TypeOK
<1>2. QED
  BY <1>1, InvariantHolds, PTL

(* No section of a posted message has an offset that the decoder's list     *)
(* does not have, relative sections come behind one of whole locations, and *)
(* a message in driving order is always located on the road it was made on. *)
THEOREM AlwaysEncodedIsDecodable == Spec => []EncodedIsDecodable
<1>1. ASSUME IInv
      PROVE  EncodedIsDecodable
  <2>1. OutcomeInv
    BY <1>1 DEF IInv
  <2>2. QED
    BY <2>1 DEF OutcomeInv, EncodedIsDecodable
<1>2. QED
  BY <1>1, InvariantHolds, PTL

(* The parts splitShape cuts of a location never overlap, rise along the    *)
(* links, and end where the links end.                                      *)
THEOREM AlwaysPartsInOrder == Spec => []PartsInOrder
<1>1. IInv => PartsInOrder
  BY DEF IInv
<1>2. QED
  BY <1>1, InvariantHolds, PTL

(* What there is when the results are shown. *)
LEMMA ShownFacts ==
    ASSUME IInv, outcome = "shown"
    PROVE  /\ Entries(Entered) /\ Len(Entered) = Extent /\ Extent \in Nat
           /\ DOMAIN roaditems = 1..Extent /\ DOMAIN Entered = 1..Extent
           /\ DOMAIN shows = 1..Len(shows) /\ Len(shows) \in Nat /\ Len(shows) <= Extent
           /\ known = tmcs => Len(shows) = Extent
           /\ Authored = [k \in 1..Extent |-> <<roaditems[k], Entered[k]>>]
           /\ Shown = [k \in 1..Len(shows) |-> <<shows[k].id, Given(shows[k])>>]
           /\ \A k \in 1..Len(shows) : shows[k].los = Entered[k + Extent - Len(shows)][1]
           /\ Len(shows) = Extent => ((\A k \in 1..Extent : Given(shows[k]) = Entered[k]) <=> Express(Entered))
           /\ Single(Entered) => \A k \in 1..Len(shows) : shows[k].tempShape = <<>>
           /\ InOrder => \A k \in 1..Len(shows) : shows[k].id = roaditems[k + Extent - Len(shows)]
<1>1. /\ RoadInv /\ PageInv /\ ItemsInv /\ EncodeInv /\ DecodeInv /\ OutcomeInv
  BY DEF IInv
<1>2. /\ Entries(Entered) /\ Len(Entered) = Extent /\ Extent \in Nat
      /\ DOMAIN Entered = 1..Extent /\ DOMAIN roaditems = 1..Extent
      /\ \A k \in 1..Extent : Entered[k] = LosOf(message[roaditems[k]])
  BY <1>1, EnteredIs DEF ItemsInv
<1>3. /\ shows \in Seq(Show) /\ lastTMCIndex \in 0..Len(shows) /\ Len(shows) = alloffset
      /\ Decoded(sections, Entered, shows, lastTMCIndex) /\ sections = <<>>
  BY <1>1 DEF DecodeInv, OutcomeInv
<1>4. DOMAIN shows = 1..Len(shows) /\ Len(shows) \in Nat
  BY <1>3, LenProperties
<1>5. Len(shows) <= Extent /\ (known = tmcs => Len(shows) = Extent)
  <2>1. Len(known) - 1 \in Nat /\ Points \in Nat /\ (known = tmcs => Len(known) - 1 = Points)
    BY <1>1, RoadFacts
  <2>2. Extent <= Points
    BY <1>1 DEF ItemsInv
  <2>3. QED
    BY <1>2, <1>3, <2>1, <2>2 DEF alloffset, Min2
<1>6. /\ \A k \in DOMAIN shows : shows[k].los = Entered[k + Len(Entered) - Len(shows)][1]
      /\ Len(shows) = Len(Entered) =>
            ((\A k \in DOMAIN shows : Given(shows[k]) = Entered[k]) <=> Express(Entered))
      /\ Single(Entered) => \A k \in DOMAIN shows : shows[k].tempShape = <<>>
  <2>1. Len(shows) <= Len(Entered) /\ Decoded(<<>>, Entered, shows, lastTMCIndex)
    BY <1>2, <1>3, <1>5
  <2>2. QED
    BY <1>2, <1>3, <2>1, DecodingEnds
<1>7. \A k \in 1..Len(shows) : shows[k].los = Entered[k + Extent - Len(shows)][1]
  BY <1>2, <1>4, <1>6
<1>8. Len(shows) = Extent => ((\A k \in 1..Extent : Given(shows[k]) = Entered[k]) <=> Express(Entered))
  BY <1>2, <1>4, <1>6
<1>9. Single(Entered) => \A k \in 1..Len(shows) : shows[k].tempShape = <<>>
  BY <1>4, <1>6
<1>10. InOrder => \A k \in 1..Len(shows) : shows[k].id = roaditems[k + Extent - Len(shows)]
  BY <1>1, <1>4 DEF DecodeInv
<1>11. Authored = [k \in 1..Extent |-> <<roaditems[k], Entered[k]>>]
  BY <1>2 DEF Authored
<1>12. Shown = [k \in 1..Len(shows) |-> <<shows[k].id, Given(shows[k])>>]
  BY <1>4 DEF Shown, Given
<1>13. QED
  BY <1>2, <1>4, <1>5, <1>7, <1>8, <1>9, <1>10, <1>11, <1>12

(* A version that lacks the beginning of the road shows the end of the      *)
(* message, each location with what was entered for it.                     *)
THEOREM AlwaysShorterRoadShowsSuffix == Spec => []ShorterRoadShowsSuffix
<1>1. ASSUME IInv
      PROVE  ShorterRoadShowsSuffix
  <2>1. SUFFICES ASSUME outcome = "shown", InOrder, \A k \in DOMAIN roaditems : Len(message[roaditems[k]]) = 1
                 PROVE  \A k \in DOMAIN Shown : Shown[k] \in Range(Authored)
    BY DEF ShorterRoadShowsSuffix
  <2> DEFINE N == Len(shows)
             K == Extent
  <2>2. /\ Entries(Entered) /\ Len(Entered) = K /\ K \in Nat
        /\ DOMAIN roaditems = 1..K /\ DOMAIN Entered = 1..K
        /\ N \in Nat /\ N <= K
        /\ Authored = [k \in 1..K |-> <<roaditems[k], Entered[k]>>]
        /\ Shown = [k \in 1..N |-> <<shows[k].id, Given(shows[k])>>]
        /\ \A k \in 1..N : shows[k].los = Entered[k + K - N][1]
        /\ Single(Entered) => \A k \in 1..N : shows[k].tempShape = <<>>
        /\ \A k \in 1..N : shows[k].id = roaditems[k + K - N]
    BY <1>1, <2>1, ShownFacts
  <2>3. \A k \in 1..K : Entered[k] \in Seq(Los) /\ Len(Entered[k]) = 1
    <3>1. SUFFICES ASSUME NEW k \in 1..K
                   PROVE  Entered[k] \in Seq(Los) /\ Len(Entered[k]) = 1
      OBVIOUS
    <3>2. Entered[k] \in Seq(Los)
      BY <2>2, ElementOfSeq DEF Entries
    <3> DEFINE m == message[roaditems[k]]
    <3>3. m \in Seq(Losshape) /\ Entered[k] = LosOf(m)
      BY <1>1, <2>2, EnteredIs DEF IInv, ItemsInv
    <3>4. Len(m) = 1
      BY <2>1, <2>2
    <3> HIDE DEF m
    <3>5. \A i \in 1..Len(m) - 1 : m[i].los # m[i + 1].los
      BY <3>4
    <3>6. \A p \in Losshape : p.los \in Los
      BY DEF Losshape
    <3>7. DOMAIN LosOf(m) = 1..Len(m)
      BY <3>3, <3>5, <3>6, LosOfDistinct
    <3> DEFINE e == Entered[k]
    <3>8. e \in Seq(Los) /\ DOMAIN e = 1..1
      BY <3>2, <3>3, <3>4, <3>7
    <3> HIDE DEF e
    <3>9. Len(e) = 1
      <4>1. Len(e) \in Nat /\ DOMAIN e = 1..Len(e)
        BY <3>8, LenProperties
      <4>2. 1..Len(e) = 1..1
        BY <3>8, <4>1
      <4>3. QED
        <5> DEFINE l == Len(e)
        <5> HIDE DEF l
        <5>1. l \in Nat /\ 1..l = 1..1
          BY <4>1, <4>2 DEF l
        <5>2. 1 \in 1..l /\ l \in 1..l
          <6>1. 1 \in 1..1
            OBVIOUS
          <6>2. 1 \in 1..l
            BY <5>1, <6>1
          <6>3. QED
            BY <5>1, <6>2
        <5>3. l \in 1..1
          BY <5>1, <5>2
        <5>4. QED
          BY <5>3 DEF l
    <3>10. QED
      BY <3>2, <3>9 DEF e
  <2>4. Single(Entered)
    BY <2>2, <2>3 DEF Single
  <2> HIDE DEF N, K
  <2>5. ASSUME NEW k \in 1..N
        PROVE  Shown[k] \in Range(Authored)
    <3> DEFINE i == k + K - N
    <3>1. i \in 1..K
      BY <2>2
    <3>2. Given(shows[k]) = <<Entered[i][1]>>
      BY <2>2, <2>4 DEF Given
    <3> DEFINE e == Entered[i]
    <3>3. e \in Seq(Los) /\ Len(e) = 1
      BY <2>3, <3>1
    <3> HIDE DEF e
    <3>4. <<e[1]>> = e
      BY <3>3
    <3>5. Shown[k] = <<roaditems[i], Entered[i]>>
      BY <2>2, <3>2, <3>4 DEF e
    <3>6. Shown[k] = Authored[i] /\ i \in DOMAIN Authored
      BY <2>2, <3>1, <3>5
    <3>7. QED
      BY <3>6, Zenon DEF Range
  <2>6. QED
    BY <2>2, <2>5
<1>2. QED
  BY <1>1, InvariantHolds, PTL

(* The whole way: of the messages in driving order, opened with the version *)
(* they were made with, exactly the Expressible ones are shown as they were *)
(* entered.                                                                 *)
THEOREM AlwaysShownAsAuthored == Spec => []ShownAsAuthored
<1>1. ASSUME IInv
      PROVE  ShownAsAuthored
  <2>1. SUFFICES ASSUME pc = "done", InOrder, known = tmcs
                 PROVE  outcome = "shown" /\ Shown = Authored <=> Expressible
    BY DEF ShownAsAuthored
  <2>2. outcome = "shown"
    <3>1. OutcomeInv
      BY <1>1 DEF IInv
    <3>2. QED
      BY <2>1, <3>1 DEF OutcomeInv
  <2> DEFINE K == Extent
  <2>3. /\ K \in Nat /\ DOMAIN roaditems = 1..K /\ DOMAIN Entered = 1..K /\ Len(shows) = K
        /\ Authored = [k \in 1..K |-> <<roaditems[k], Entered[k]>>]
        /\ Shown = [k \in 1..K |-> <<shows[k].id, Given(shows[k])>>]
        /\ (\A k \in 1..K : Given(shows[k]) = Entered[k]) <=> Express(Entered)
    BY <1>1, <2>1, <2>2, ShownFacts
  <2>4. \A k \in 1..K : shows[k].id = roaditems[k]
    <3>1. \A k \in 1..K : shows[k].id = roaditems[k + K - K]
      BY <1>1, <2>1, <2>2, <2>3, ShownFacts
    <3> HIDE DEF K
    <3>2. \A k \in 1..K : k + K - K = k
      BY <2>3
    <3>3. QED
      BY <3>1, <3>2
  <2> HIDE DEF K
  <2>5. Shown = Authored <=> \A k \in 1..K : Given(shows[k]) = Entered[k]
    <3>1. ASSUME Shown = Authored, NEW k \in 1..K
          PROVE  Given(shows[k]) = Entered[k]
      <4>1. Shown[k] = <<shows[k].id, Given(shows[k])>> /\ Authored[k] = <<roaditems[k], Entered[k]>>
        BY <2>3
      <4>2. <<shows[k].id, Given(shows[k])>> = <<roaditems[k], Entered[k]>>
        BY <3>1, <4>1
      <4>3. QED
        BY <4>2
    <3>2. ASSUME \A k \in 1..K : Given(shows[k]) = Entered[k]
          PROVE  Shown = Authored
      <4>1. \A k \in 1..K : <<shows[k].id, Given(shows[k])>> = <<roaditems[k], Entered[k]>>
        BY <2>4, <3>2
      <4>2. QED
        BY <2>3, <4>1
    <3>3. QED
      BY <3>1, <3>2
  <2>6. Expressible <=> Express(Entered)
    <3>1. \A k \in 1..K : Authored[k][2] = Entered[k]
      BY <2>3
    <3>2. Expressible <=>
             \A k \in 1..K : /\ \A n \in 2..Len(Authored[k][2]) : Authored[k][2][n] # Authored[k][2][1]
                             /\ Len(Authored[k][2]) > 1 /\ k > 1 => Authored[k][2][1] # Authored[k - 1][2][1]
      BY <2>3 DEF Expressible
    <3>3. Express(Entered) <=>
             \A k \in 1..K : /\ \A n \in 2..Len(Entered[k]) : Entered[k][n] # Entered[k][1]
                             /\ Len(Entered[k]) > 1 /\ k > 1 => Entered[k][1] # Entered[k - 1][1]
      BY <2>3 DEF Express
    <3> HIDE DEF Authored, Entered
    <3>4. ASSUME NEW k \in 1..K
          PROVE  (/\ \A n \in 2..Len(Authored[k][2]) : Authored[k][2][n] # Authored[k][2][1]
                  /\ Len(Authored[k][2]) > 1 /\ k > 1 => Authored[k][2][1] # Authored[k - 1][2][1])
                 <=> (/\ \A n \in 2..Len(Entered[k]) : Entered[k][n] # Entered[k][1]
                      /\ Len(Entered[k]) > 1 /\ k > 1 => Entered[k][1] # Entered[k - 1][1])
      <4>1. Authored[k][2] = Entered[k]
        BY <3>1
      <4>2. k > 1 => Authored[k - 1][2] = Entered[k - 1]
        <5>1. k > 1 => k - 1 \in 1..K
          BY <2>3
        <5>2. QED
          BY <3>1, <5>1
      <4>3. QED
        BY <4>1, <4>2
    <3>5. QED
      BY <3>2, <3>3, <3>4
  <2>7. QED
    BY <2>2, <2>3, <2>5, <2>6
<1>2. QED
  BY <1>1, InvariantHolds, PTL
=============================================================================
