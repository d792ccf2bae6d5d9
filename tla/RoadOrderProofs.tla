-------------------------- MODULE RoadOrderProofs --------------------------
(***************************************************************************)
(* Proofs about RoadOrder, for roads and rings of any length, with any     *)
(* part of their points in the table and in any order: the forward road is *)
(* a longest stretch of the file's road, and the backward one mirrors it.  *)
(***************************************************************************)
EXTENDS RoadOrder, FiniteSetTheorems, SequenceTheorems, TLAPS

-----------------------------------------------------------------------------
(* The inductive invariant.                                                *)

(* The k-th point of the stretch that begins at a, and how many points it  *)
(* has up to b.                                                            *)
At(a, k)   == IF a + k - 1 <= size THEN a + k - 1 ELSE a + k - 1 - size
Span(a, b) == IF a <= b THEN b - a + 1 ELSE size - a + 1 + b

(* Every row has a next one in the table: only then is the road a loop.    *)
Loop == \A i \in lpMap : ~Ends(i)

(* The point that both directions are sorted from. *)
IsFirst(f) ==
    /\ f \in lpMap
    /\ IF \E i \in lpMap : nextPt(i) = 0 THEN nextPt(f) = 0
       ELSE IF Loop THEN f = Head(order) ELSE FirstEnd(f)

(* The walk from f back to a met points of the table only, and ends at a. *)
Within(a, f) == /\ a \in lpMap /\ f \in lpMap
                /\ ring \/ a <= f
                /\ \A k \in 1..Span(a, f) : At(a, k) \in lpMap
Stops(a, f)  == prevPt(a) \in {0, f} \/ prevPt(a) \notin lpMap

(* The list is built from either end; a loop gets its first entry twice.   *)
InDirection(d, s) == IF d THEN s ELSE Reverse(s)
Closed(s)         == IF Loop THEN <<Head(s)>> \o s ELSE s

(* The road of a direction, once it is put. *)
Sorted(d) == \E a, f \in lpMap : /\ IsFirst(f) /\ Within(a, f) /\ Stops(a, f)
                                 /\ roads[d] = Closed(InDirection(d, Stretch(a, f)))

Table == size \in Nat \ {0} /\ ring \in BOOLEAN /\ order \in Seq(1..size) /\ order # <<>>

(* Half-way through the walk the list is what has been met. *)
Walking == /\ IsFirst(oriHead) /\ Within(head, oriHead)
           /\ isLoopRoad <=> Loop
           /\ sortedList = InDirection(posDir, Stretch(head, oriHead))

IInv == /\ Table
        /\ TypeOK
        /\ pc = "group" => oriHead = 0
        /\ pc = "first" => /\ ~isLoopRoad
                           /\ \/ oriHead \in lpMap /\ nextPt(oriHead) = 0
                              \/ oriHead = 0 /\ \A i \in lpMap : nextPt(i) # 0
        /\ pc = "walk" => Walking
        /\ pc \in {"clean", "done"} => ~posDir /\ Sorted(FALSE)
        /\ ~posDir => Sorted(TRUE)

-----------------------------------------------------------------------------
(* Points and stretches.                                                   *)

(* The rows of the table are points of the road. *)
LEMMA TableHasPoints ==
    ASSUME Table
    PROVE  /\ lpMap \subseteq 1..size /\ IsFiniteSet(lpMap) /\ 0 \notin lpMap
           /\ Head(order) \in lpMap
<1>1. \A k \in DOMAIN order : order[k] \in 1..size
  BY DEF Table
<1>2. lpMap \subseteq 1..size
  BY <1>1 DEF lpMap, Range
<1>3. IsFiniteSet(1..size)
  BY FS_Interval DEF Table
<1>4. Head(order) = order[1] /\ 1 \in DOMAIN order
  BY DEF Table
<1>5. QED
  BY <1>2, <1>3, <1>4, FS_Subset DEF Table, lpMap, Range

(* Neighbours are points of the road, and each other's. *)
LEMMA Neighbours ==
    ASSUME Table, NEW i \in 1..size
    PROVE  /\ nextPt(i) \in 0..size /\ prevPt(i) \in 0..size
           /\ nextPt(i) # 0 => prevPt(nextPt(i)) = i
           /\ prevPt(i) # 0 => nextPt(prevPt(i)) = i
  BY DEF Table, nextPt, prevPt

(* A stretch has its span's points, from a to b. *)
LEMMA StretchPoints ==
    ASSUME Table, NEW a \in 1..size, NEW b \in 1..size
    PROVE  /\ Span(a, b) \in 1..size
           /\ Stretch(a, b) \in Seq(1..size) /\ Len(Stretch(a, b)) = Span(a, b)
           /\ \A k \in 1..Span(a, b) : At(a, k) \in 1..size /\ Stretch(a, b)[k] = At(a, k)
           /\ At(a, 1) = a /\ At(a, Span(a, b)) = b
<1>1. /\ Span(a, b) \in 1..size /\ At(a, 1) = a /\ At(a, Span(a, b)) = b
      /\ \A k \in 1..Span(a, b) : At(a, k) \in 1..size
  BY DEF Table, Span, At
<1>2. Stretch(a, b) = [k \in 1..Span(a, b) |-> At(a, k)]
  <2>1. CASE a <= b
    <3>1. \A k \in 1..(b - a + 1) : At(a, k) = a + k - 1
      BY <2>1 DEF Table, At
    <3>2. QED
      BY <2>1, <3>1 DEF Stretch, Span
  <2>2. CASE ~(a <= b)
    BY <2>2 DEF Stretch, Span, At
  <2>3. QED
    BY <2>1, <2>2
<1> DEFINE n == Span(a, b)
           f == [k \in 1..n |-> At(a, k)]
<1>3. n \in Nat /\ \A k \in 1..n : At(a, k) \in 1..size
  BY <1>1 DEF Table
<1>4. Stretch(a, b) = f
  BY <1>2
<1> HIDE DEF n
<1>5. f \in [1..n -> 1..size]
  BY <1>3
<1>6. f \in Seq(1..size) /\ Len(f) = n
  BY <1>3, <1>5
<1>7. \A k \in 1..n : f[k] = At(a, k)
  OBVIOUS
<1> HIDE DEF f
<1>8. QED
  BY <1>1, <1>4, <1>6, <1>7 DEF n

(* One step of the walk puts the previous point in front of a stretch. *)
LEMMA StretchGrows ==
    ASSUME Table, NEW a \in 1..size, NEW b \in 1..size, ring \/ a <= b,
           prevPt(a) # 0, prevPt(a) # b
    PROVE  /\ prevPt(a) \in 1..size /\ (ring \/ prevPt(a) <= b)
           /\ Span(prevPt(a), b) = Span(a, b) + 1
           /\ \A k \in 1..Span(a, b) : At(prevPt(a), k + 1) = At(a, k)
           /\ Stretch(prevPt(a), b) = <<prevPt(a)>> \o Stretch(a, b)
<1> DEFINE p == prevPt(a)
<1>1. p \in 1..size /\ (ring \/ p <= b) /\ Span(p, b) = Span(a, b) + 1
  BY DEF Table, prevPt, Span
<1>2. \A k \in 1..Span(a, b) : At(p, k + 1) = At(a, k)
  BY DEF Table, prevPt, Span, At
<1> HIDE DEF p
<1>3. Stretch(p, b) = <<p>> \o Stretch(a, b)
  <2> DEFINE s == Stretch(a, b)
             t == Stretch(p, b)
  <2>1. /\ t \in Seq(1..size) /\ Len(t) = Span(p, b)
        /\ \A k \in 1..Span(p, b) : t[k] = At(p, k)
        /\ At(p, 1) = p
    BY <1>1, StretchPoints
  <2>2. /\ s \in Seq(1..size) /\ Len(s) = Span(a, b) /\ Span(a, b) \in 1..size
        /\ \A k \in 1..Span(a, b) : s[k] = At(a, k)
    BY StretchPoints
  <2> HIDE DEF s, t
  <2>3. <<p>> \o s \in Seq(1..size) /\ Len(<<p>> \o s) = Len(s) + 1
    BY <1>1, <2>2
  <2>4. \A k \in 1..Len(t) : t[k] = (<<p>> \o s)[k]
    <3>1. ASSUME NEW k \in 1..Len(t)
          PROVE  t[k] = (<<p>> \o s)[k]
      <4>1. CASE k = 1
        BY <1>1, <2>1, <2>2, <4>1
      <4>2. CASE k # 1
        <5>1. k - 1 \in 1..Span(a, b) /\ k = (k - 1) + 1
          BY <1>1, <2>1, <2>2, <4>2
        <5>2. t[k] = At(a, k - 1)
          BY <1>2, <2>1, <5>1
        <5>3. (<<p>> \o s)[k] = s[k - 1]
          BY <2>2, <4>2, <5>1
        <5>4. QED
          BY <2>2, <5>1, <5>2, <5>3
      <4>3. QED
        BY <4>1, <4>2
    <3>2. QED
      BY <3>1
  <2>5. t = <<p>> \o s
    BY <1>1, <2>1, <2>2, <2>3, <2>4, SeqEqual
  <2>6. QED
    BY <2>5 DEF s, t
<1>4. QED
  BY <1>1, <1>2, <1>3 DEF p

(* A stretch of one point. *)
LEMMA StretchOfOne ==
    ASSUME Table, NEW f \in 1..size
    PROVE  Span(f, f) = 1 /\ At(f, 1) = f /\ Stretch(f, f) = <<f>>
<1>1. Span(f, f) = 1 /\ At(f, 1) = f
  BY DEF Table, Span, At
<1> DEFINE s == Stretch(f, f)
<1>2. /\ s \in Seq(1..size) /\ Len(s) = Span(f, f)
      /\ \A k \in 1..Span(f, f) : s[k] = At(f, k)
  BY StretchPoints
<1> HIDE DEF s
<1>3. s \in Seq(1..size) /\ Len(s) = 1 /\ s[1] = f
  BY <1>1, <1>2
<1>4. s = <<f>>
  BY <1>3
<1>5. QED
  BY <1>1, <1>4 DEF s

(* What Reverse returns. *)
LEMMA ReverseIs ==
    ASSUME NEW S, NEW s \in Seq(S)
    PROVE  /\ Reverse(s) \in Seq(S) /\ Len(Reverse(s)) = Len(s)
           /\ \A k \in 1..Len(s) : Reverse(s)[k] = s[Len(s) - k + 1]
<1> DEFINE n == Len(s)
           r == [k \in 1..n |-> s[(n - k) + 1]]
<1>1. n \in Nat /\ \A k \in 1..n : s[(n - k) + 1] \in S
  OBVIOUS
<1>2. Reverse(s) = r
  BY DEF Reverse
<1> HIDE DEF n
<1>3. r \in [1..n -> S]
  BY <1>1
<1>4. r \in Seq(S) /\ Len(r) = n
  BY <1>1, <1>3
<1>5. \A k \in 1..n : r[k] = s[n - k + 1]
  OBVIOUS
<1> HIDE DEF r
<1>6. QED
  BY <1>2, <1>4, <1>5 DEF n

(* To reverse a list with a new head is to append the head. *)
LEMMA ReverseGrows ==
    ASSUME NEW S, NEW s \in Seq(S), NEW p \in S
    PROVE  Reverse(<<p>> \o s) = Append(Reverse(s), p)
<1> DEFINE t == <<p>> \o s
           r == Reverse(t)
           u == Append(Reverse(s), p)
<1>1. t \in Seq(S) /\ Len(t) = Len(s) + 1 /\ t[1] = p
      /\ \A k \in 1..Len(s) : t[k + 1] = s[k]
  OBVIOUS
<1>2. Reverse(s) \in Seq(S) /\ Len(Reverse(s)) = Len(s)
      /\ \A k \in 1..Len(s) : Reverse(s)[k] = s[Len(s) - k + 1]
  BY ReverseIs
<1> HIDE DEF t
<1>3. r \in Seq(S) /\ Len(r) = Len(t)
      /\ \A k \in 1..Len(t) : r[k] = t[Len(t) - k + 1]
  BY <1>1, ReverseIs
<1>4. u \in Seq(S) /\ Len(u) = Len(s) + 1 /\ u[Len(s) + 1] = p
      /\ \A k \in 1..Len(s) : u[k] = Reverse(s)[k]
  BY <1>2, AppendProperties
<1> HIDE DEF r, u
<1>5. ASSUME NEW k \in 1..Len(r)
      PROVE  r[k] = u[k]
  <2>1. CASE k = Len(s) + 1
    BY <1>1, <1>3, <1>4, <2>1
  <2>2. CASE k # Len(s) + 1
    <3>1. k \in 1..Len(s)
      BY <1>1, <1>3, <2>2
    <3>2. Len(t) - k + 1 = (Len(s) - k + 1) + 1 /\ Len(s) - k + 1 \in 1..Len(s)
      BY <1>1, <3>1
    <3>3. r[k] = s[Len(s) - k + 1]
      BY <1>1, <1>3, <3>2
    <3>4. QED
      BY <1>2, <1>4, <3>1, <3>3
  <2>3. QED
    BY <2>1, <2>2
<1>6. r = u
  BY <1>1, <1>3, <1>4, <1>5, SeqEqual
<1>7. QED
  BY <1>6 DEF r, u, t

-----------------------------------------------------------------------------
(* Where the walk begins and ends.                                         *)

(* There is one point to begin at, whatever the order of the table. *)
LEMMA OneFirst ==
    ASSUME Table, NEW f, NEW g, IsFirst(f), IsFirst(g)
    PROVE  f = g
<1>1. f \in 1..size /\ g \in 1..size
  BY TableHasPoints DEF IsFirst
<1>2. CASE \E i \in lpMap : nextPt(i) = 0
  <2>1. nextPt(f) = 0 /\ nextPt(g) = 0
    BY <1>2 DEF IsFirst
  <2>2. QED
    BY <1>1, <2>1 DEF Table, nextPt
<1>3. CASE ~(\E i \in lpMap : nextPt(i) = 0) /\ Loop
  BY <1>3 DEF IsFirst
<1>4. CASE ~(\E i \in lpMap : nextPt(i) = 0) /\ ~Loop
  <2>1. FirstEnd(f) /\ FirstEnd(g)
    BY <1>4 DEF IsFirst
  <2>2. PICK k \in DOMAIN order : /\ f = order[k] /\ Ends(f)
                                  /\ \A j \in 1..(k - 1) : ~Ends(order[j])
    BY <2>1 DEF FirstEnd
  <2>3. PICK l \in DOMAIN order : /\ g = order[l] /\ Ends(g)
                                  /\ \A j \in 1..(l - 1) : ~Ends(order[j])
    BY <2>1 DEF FirstEnd
  <2>4. k \in Nat \ {0} /\ l \in Nat \ {0}
    BY DEF Table
  <2>5. ~(k < l) /\ ~(l < k)
    BY <2>2, <2>3, <2>4
  <2>6. QED
    BY <2>2, <2>3, <2>4, <2>5
<1>5. QED
  BY <1>2, <1>3, <1>4

(* A walk that has reached a point further back has not stopped before. *)
LEMMA ShorterDoesNotStop ==
    ASSUME Table, NEW a, NEW b, NEW f, Within(a, f), Within(b, f),
           Span(a, f) < Span(b, f)
    PROVE  ~Stops(a, f)
<1>1. a \in 1..size /\ b \in 1..size /\ f \in 1..size
  BY TableHasPoints DEF Within
<1> DEFINE m == Span(b, f) - Span(a, f)
<1>2. m \in 1..Span(b, f)
  <2>1. Span(a, f) \in 1..size /\ Span(b, f) \in 1..size
    BY <1>1, StretchPoints
  <2>2. QED
    BY <2>1 DEF Table
<1>3. At(b, m) = prevPt(a) /\ At(b, m) # f
  <2>1. a <= f \/ ring
    BY DEF Within
  <2>2. b <= f \/ ring
    BY DEF Within
  <2>3. QED
    BY <1>1, <2>1, <2>2 DEF Table, Span, At, prevPt
<1>4. At(b, m) \in lpMap
  BY <1>2 DEF Within
<1>5. prevPt(a) # 0
  BY <1>3, <1>4, TableHasPoints
<1>6. QED
  BY <1>3, <1>4, <1>5 DEF Stops

(* There is one point to end at. *)
LEMMA OneStop ==
    ASSUME Table, NEW a, NEW b, NEW f, Within(a, f), Within(b, f),
           Stops(a, f), Stops(b, f)
    PROVE  a = b
<1>1. a \in 1..size /\ b \in 1..size /\ f \in 1..size
  BY TableHasPoints DEF Within
<1>2. Span(a, f) \in 1..size /\ Span(b, f) \in 1..size
  BY <1>1, StretchPoints
<1>3. ~(Span(a, f) < Span(b, f)) /\ ~(Span(b, f) < Span(a, f))
  BY ShorterDoesNotStop
<1>4. Span(a, f) = Span(b, f)
  BY <1>2, <1>3 DEF Table
<1>5. QED
  BY <1>1, <1>4 DEF Table, Span

(* The walk comes back to its first point only round a complete ring. *)
LEMMA RoundTheRing ==
    ASSUME Table, NEW a, NEW f, Within(a, f), prevPt(a) = f
    PROVE  ring /\ lpMap = 1..size
<1>1. a \in 1..size /\ f \in 1..size /\ (ring \/ a <= f)
  BY TableHasPoints DEF Within
<1>2. ring
  BY <1>1 DEF Table, prevPt
<1>3. ASSUME NEW x \in 1..size
      PROVE  x \in lpMap
  <2> DEFINE k == IF x >= a THEN x - a + 1 ELSE x + size - a + 1
  <2>1. k \in 1..Span(a, f) /\ At(a, k) = x
    BY <1>1, <1>2 DEF Table, prevPt, Span, At
  <2>2. QED
    BY <2>1 DEF Within
<1>4. QED
  BY <1>2, <1>3, TableHasPoints

(* In a loop the points that come next are all the points there are, so    *)
(* every point has its previous one in the table as well.                  *)
LEMMA LoopIsClosed ==
    ASSUME Table, Loop
    PROVE  \A x \in lpMap : prevPt(x) \in lpMap
<1> DEFINE next == [i \in lpMap |-> nextPt(i)]
<1>1. lpMap \subseteq 1..size /\ IsFiniteSet(lpMap)
  BY TableHasPoints
<1>2. \A i \in lpMap : nextPt(i) # 0 /\ nextPt(i) \in lpMap /\ prevPt(nextPt(i)) = i
  BY <1>1, Neighbours DEF Loop, Ends
<1>3. next \in Injection(lpMap, lpMap)
  <2>1. next \in [lpMap -> lpMap]
    BY <1>2
  <2>2. ASSUME NEW i \in lpMap, NEW j \in lpMap, next[i] = next[j]
        PROVE  i = j
    BY <1>2, <2>2
  <2>3. QED
    BY <2>1, <2>2 DEF Injection, IsInjective
<1>4. next \in Surjection(lpMap, lpMap)
  BY <1>1, <1>3, FS_Injection
<1>5. ASSUME NEW x \in lpMap
      PROVE  prevPt(x) \in lpMap
  <2>1. PICK i \in lpMap : next[i] = x
    BY <1>4 DEF Surjection
  <2>2. QED
    BY <1>2, <2>1
<1>6. QED
  BY <1>5

(* The test of getPosDirFirstLP finds exactly the complete loops.          *)
LEMMA LoopIsWholeRing ==
    ASSUME Table, NEW a, NEW f, Within(a, f), Stops(a, f)
    PROVE  /\ Loop <=> ring /\ lpMap = 1..size
           /\ Loop => prevPt(a) = f
<1>1. ASSUME Loop
      PROVE  prevPt(a) = f /\ ring /\ lpMap = 1..size
  <2>1. a \in lpMap
    BY DEF Within
  <2>2. prevPt(a) \in lpMap
    BY <1>1, <2>1, LoopIsClosed
  <2>3. prevPt(a) = f
    BY <2>2, TableHasPoints DEF Stops
  <2>4. QED
    BY <2>3, RoundTheRing
<1>2. ASSUME ring, lpMap = 1..size
      PROVE  Loop
  BY <1>2 DEF Loop, Ends, nextPt, Table
<1>3. QED
  BY <1>1, <1>2

-----------------------------------------------------------------------------
(* Every state has the invariant.                                          *)

(* The table, the first point and the stretches depend on the input only.  *)
LEMMA SameTable ==
    ASSUME Table, UNCHANGED input
    PROVE  /\ Table' /\ lpMap' = lpMap /\ size' = size /\ ring' = ring /\ order' = order
           /\ \A f : IsFirst(f)' <=> IsFirst(f)
           /\ \A a, f : (Within(a, f)' <=> Within(a, f)) /\ (Stops(a, f)' <=> Stops(a, f))
           /\ \A a, f : Stretch(a, f)' = Stretch(a, f)
<1>1. size' = size /\ ring' = ring /\ order' = order
  BY DEF input
<1>2. lpMap' = lpMap
  BY <1>1 DEF lpMap
<1>3. Table'
  BY <1>1 DEF Table
<1>4. \A f : IsFirst(f)' <=> IsFirst(f)
  BY <1>1, <1>2 DEF IsFirst, Loop, Ends, FirstEnd, nextPt
<1>5. \A a, f : (Within(a, f)' <=> Within(a, f)) /\ (Stops(a, f)' <=> Stops(a, f))
  BY <1>1, <1>2 DEF Within, Stops, At, Span, prevPt
<1>6. \A a, f : Stretch(a, f)' = Stretch(a, f)
  BY <1>1 DEF Stretch
<1>7. QED
  BY <1>1, <1>2, <1>3, <1>4, <1>5, <1>6

(* A direction is sorted by the step that puts its road. *)
LEMMA SortedNext ==
    ASSUME Table, UNCHANGED input, NEW d \in BOOLEAN,
           NEW a \in lpMap, NEW f \in lpMap, IsFirst(f), Within(a, f), Stops(a, f),
           roads'[d] = Closed(InDirection(d, Stretch(a, f)))
    PROVE  Sorted(d)'
<1>1. /\ lpMap' = lpMap /\ size' = size /\ IsFirst(f)' /\ Within(a, f)' /\ Stops(a, f)'
      /\ Stretch(a, f)' = Stretch(a, f)
  BY SameTable
<1>2. InDirection(d, Stretch(a, f))' = InDirection(d, Stretch(a, f))
  BY <1>1 DEF InDirection
<1>3. ring' = ring
  BY DEF input
<1>4. Closed(InDirection(d, Stretch(a, f)))' = Closed(InDirection(d, Stretch(a, f)))
  BY <1>1, <1>2, <1>3 DEF Closed, Loop, Ends, nextPt
<1>5. roads'[d] = Closed(InDirection(d, Stretch(a, f)))'
  BY <1>4
<1>6. QED
  BY <1>1, <1>5 DEF Sorted

(* A direction stays sorted if its road is left alone. *)
LEMMA SortedStays ==
    ASSUME Table, UNCHANGED input, NEW d \in BOOLEAN, roads'[d] = roads[d], Sorted(d)
    PROVE  Sorted(d)'
<1>1. PICK a \in lpMap, f \in lpMap :
               /\ IsFirst(f) /\ Within(a, f) /\ Stops(a, f)
               /\ roads[d] = Closed(InDirection(d, Stretch(a, f)))
  BY DEF Sorted
<1>2. QED
  BY <1>1, SortedNext

(* Steps that put no road keep the sorted ones. *)
LEMMA SameInput ==
    ASSUME Table, UNCHANGED input, UNCHANGED roads
    PROVE  /\ Table' /\ lpMap' = lpMap /\ size' = size /\ ring' = ring /\ order' = order
           /\ Sorted(TRUE) => Sorted(TRUE)'
           /\ Sorted(FALSE) => Sorted(FALSE)'
  BY SameTable, SortedStays

(* At first the roads are empty and the table is not. *)
LEMMA InitInvariant == Init => IInv
<1> SUFFICES ASSUME Init
             PROVE  IInv
  OBVIOUS
<1>1. size \in 1..MaxPoints /\ size \in Nat \ {0}
  BY MaxPointsAssumption DEF Init
<1>2. PICK some \in (SUBSET (1..size)) \ {{}} : order \in SetToSeqs(some)
  BY DEF Init
<1> DEFINE n == Cardinality(some)
<1>3. IsFiniteSet(some)
  <2>1. IsFiniteSet(1..size)
    BY <1>1, FS_Interval
  <2>2. QED
    BY <1>2, <2>1, FS_Subset
<1>4. n \in Nat /\ n # 0
  BY <1>2, <1>3, FS_CardinalityType, FS_EmptySet
<1>5. order \in [1..n -> some]
  BY <1>2 DEF SetToSeqs
<1> HIDE DEF n
<1>6. order \in [1..n -> 1..size]
  BY <1>2, <1>5
<1>7. order \in Seq(1..size) /\ order # <<>>
  <2>1. order \in Seq(1..size)
    BY <1>4, <1>6, SeqDef
  <2>2. 1 \in DOMAIN order
    BY <1>4, <1>6
  <2>3. QED
    BY <2>1, <2>2
<1>8. Table
  BY <1>1, <1>4, <1>7 DEF Table, Init
<1>9. TypeOK
  <2>1. <<>> \in Seq(1..size) /\ Len(<<>>) <= size
    BY <1>1
  <2>2. sortedList \in Seq(1..size) /\ Len(sortedList) <= size
    BY <2>1 DEF Init
  <2>3. roads \in [BOOLEAN -> Seq(1..size)]
    BY <2>1 DEF Init
  <2>4. oriHead \in 0..size /\ head \in 0..size
    BY <1>1 DEF Init
  <2>5. QED
    BY <1>1, <1>7, <2>2, <2>3, <2>4 DEF TypeOK, Init
<1>10. QED
  BY <1>8, <1>9 DEF IInv, Init

(* Grouping keeps the point at the road's end, if the table has one. *)
LEMMA GroupInvariant == IInv /\ Group => IInv'
<1> SUFFICES ASSUME IInv, Group
             PROVE  IInv'
  OBVIOUS
<1>1. Table /\ TypeOK /\ (~posDir => Sorted(TRUE)) /\ pc = "group"
  BY DEF IInv, Group
<1>2. /\ UNCHANGED input /\ UNCHANGED <<posDir, head, sortedList>> /\ UNCHANGED roads
      /\ pc' = "first" /\ isLoopRoad' = FALSE
  BY DEF Group
<1>3. /\ Table' /\ lpMap' = lpMap /\ size' = size /\ ring' = ring /\ order' = order
      /\ ~posDir' => Sorted(TRUE)'
  BY <1>1, <1>2, SameInput
<1>4. /\ oriHead' \in 0..size
      /\ \/ oriHead' \in lpMap /\ nextPt(oriHead') = 0
         \/ oriHead' = 0 /\ \A i \in lpMap : nextPt(i) # 0
  BY <1>1, TableHasPoints DEF Group, Table
<1>5. \/ oriHead' \in lpMap' /\ nextPt(oriHead)' = 0
      \/ oriHead' = 0 /\ \A i \in lpMap' : nextPt(i)' # 0
  BY <1>3, <1>4 DEF nextPt
<1>6. TypeOK'
  BY <1>1, <1>2, <1>3, <1>4 DEF TypeOK
<1>7. QED
  BY <1>2, <1>3, <1>5, <1>6 DEF IInv

(* What PosDirFirst finds is the first point, and whether this is a loop.  *)
LEMMA FirstIsFound ==
    ASSUME IInv, PosDirFirst
    PROVE  oriHead' \in lpMap /\ IsFirst(oriHead') /\ (isLoopRoad' <=> Loop)
<1>1. /\ Table /\ ~isLoopRoad
      /\ \/ oriHead \in lpMap /\ nextPt(oriHead) = 0
         \/ oriHead = 0 /\ \A i \in lpMap : nextPt(i) # 0
  BY DEF IInv, PosDirFirst
<1>2. CASE oriHead # 0 /\ UNCHANGED <<oriHead, isLoopRoad>>
  <2>1. oriHead \in lpMap /\ nextPt(oriHead) = 0
    BY <1>1, <1>2
  <2>2. ~Loop /\ IsFirst(oriHead)
    BY <2>1 DEF Loop, Ends, IsFirst
  <2>3. oriHead' = oriHead /\ isLoopRoad' = isLoopRoad
    BY <1>2
  <2>4. QED
    BY <1>1, <2>1, <2>2, <2>3
<1>3. CASE /\ oriHead = 0 /\ \E i \in lpMap : FirstEnd(i) /\ oriHead' = i
           /\ UNCHANGED isLoopRoad
  <2>1. \A i \in lpMap : nextPt(i) # 0
    BY <1>1, <1>3, TableHasPoints
  <2>2. oriHead' \in lpMap /\ FirstEnd(oriHead') /\ isLoopRoad' = isLoopRoad
    BY <1>3
  <2>3. ~Loop
    BY <2>2 DEF FirstEnd, Loop
  <2>4. IsFirst(oriHead')
    BY <2>1, <2>2, <2>3 DEF IsFirst
  <2>5. QED
    BY <1>1, <2>2, <2>3, <2>4
<1>4. CASE /\ oriHead = 0 /\ \A i \in lpMap : ~Ends(i)
           /\ oriHead' = Head(order) /\ isLoopRoad' = TRUE
  <2>1. Loop /\ \A i \in lpMap : nextPt(i) # 0
    BY <1>4 DEF Loop, Ends
  <2>2. oriHead' \in lpMap /\ IsFirst(oriHead')
    BY <1>1, <1>4, <2>1, TableHasPoints DEF IsFirst
  <2>3. QED
    BY <1>4, <2>1, <2>2
<1>5. QED
  BY <1>2, <1>3, <1>4 DEF PosDirFirst

(* The list begins with the first point. *)
LEMMA FirstInvariant == IInv /\ PosDirFirst => IInv'
<1> SUFFICES ASSUME IInv, PosDirFirst
             PROVE  IInv'
  OBVIOUS
<1>1. Table /\ TypeOK /\ (~posDir => Sorted(TRUE)) /\ pc = "first"
  BY DEF IInv, PosDirFirst
<1>2. /\ UNCHANGED input /\ UNCHANGED posDir /\ UNCHANGED roads
      /\ pc' = "walk" /\ head' = oriHead' /\ sortedList' = <<oriHead'>>
      /\ isLoopRoad' \in BOOLEAN
  BY <1>1 DEF PosDirFirst, TypeOK
<1>3. /\ Table' /\ lpMap' = lpMap /\ size' = size /\ ring' = ring /\ order' = order
      /\ ~posDir' => Sorted(TRUE)'
  BY <1>1, <1>2, SameInput
<1> DEFINE f == oriHead'
<1>4. f \in lpMap /\ IsFirst(f) /\ (isLoopRoad' <=> Loop)
  BY FirstIsFound
<1>5. f \in 1..size /\ size \in Nat
  BY <1>1, <1>4, TableHasPoints DEF Table
<1>6. Span(f, f) = 1 /\ At(f, 1) = f /\ Stretch(f, f) = <<f>>
  BY <1>1, <1>5, StretchOfOne
<1>7. Within(f, f)
  BY <1>4, <1>5, <1>6 DEF Within
<1>8. <<f>> = InDirection(posDir, Stretch(f, f))
  <2> DEFINE s == <<f>>
  <2>1. s \in Seq(1..size) /\ Len(s) = 1 /\ s[1] = f
    BY <1>5
  <2> HIDE DEF s
  <2>2. /\ Reverse(s) \in Seq(1..size) /\ Len(Reverse(s)) = Len(s)
        /\ \A k \in 1..Len(s) : Reverse(s)[k] = s[Len(s) - k + 1]
    BY <2>1, ReverseIs
  <2>3. Reverse(s) \in Seq(1..size) /\ Len(Reverse(s)) = 1 /\ Reverse(s)[1] = f
    BY <2>1, <2>2
  <2>4. Reverse(s) = <<f>>
    BY <2>3
  <2>5. QED
    BY <1>6, <2>4 DEF InDirection, s
<1> HIDE DEF f
<1>9. IsFirst(oriHead)' /\ (isLoopRoad' <=> Loop')
  BY <1>3, <1>4 DEF f, IsFirst, Loop, Ends, FirstEnd, nextPt
<1>10. Within(head, oriHead)'
  BY <1>2, <1>3, <1>7 DEF f, Within, Span, At
<1>11. (sortedList = InDirection(posDir, Stretch(head, oriHead)))'
  BY <1>2, <1>3, <1>8 DEF f, InDirection, Stretch
<1>12. Walking'
  BY <1>9, <1>10, <1>11 DEF Walking
<1>13. TypeOK'
  <2>1. oriHead' \in 0..size /\ head' \in 0..size
    BY <1>2, <1>5 DEF f
  <2>2. sortedList' \in Seq(1..size) /\ Len(sortedList') <= size
    BY <1>2, <1>5 DEF f
  <2>3. QED
    BY <1>1, <1>2, <1>3, <2>1, <2>2 DEF TypeOK
<1>14. QED
  BY <1>2, <1>3, <1>12, <1>13 DEF IInv

(* The walk goes one point back.  A stretch is never longer than the road. *)
LEMMA WalkInvariant == IInv /\ Walk => IInv'
<1> SUFFICES ASSUME IInv, Walk
             PROVE  IInv'
  OBVIOUS
<1>1. Table /\ TypeOK /\ (~posDir => Sorted(TRUE)) /\ pc = "walk" /\ Walking
  BY DEF IInv, Walk
<1>2. /\ UNCHANGED input /\ UNCHANGED <<pc, posDir, oriHead, isLoopRoad>> /\ UNCHANGED roads
      /\ head' = prevPt(head)
      /\ sortedList' = IF posDir THEN <<prevPt(head)>> \o sortedList
                                 ELSE Append(sortedList, prevPt(head))
      /\ prevPt(head) # 0 /\ prevPt(head) # oriHead /\ prevPt(head) \in lpMap
  BY DEF Walk
<1>3. /\ Table' /\ lpMap' = lpMap /\ size' = size /\ ring' = ring /\ order' = order
      /\ ~posDir' => Sorted(TRUE)'
  BY <1>1, <1>2, SameInput
<1> DEFINE p == prevPt(head)
           f == oriHead
           s == Stretch(head, f)
<1>4. /\ IsFirst(f) /\ Within(head, f) /\ (isLoopRoad <=> Loop)
      /\ sortedList = InDirection(posDir, s)
  BY <1>1 DEF Walking
<1>5. head \in 1..size /\ f \in 1..size /\ (ring \/ head <= f)
  BY <1>1, <1>4, TableHasPoints DEF Within
<1>6. /\ p \in 1..size /\ (ring \/ p <= f)
      /\ Span(p, f) = Span(head, f) + 1
      /\ \A k \in 1..Span(head, f) : At(p, k + 1) = At(head, k)
      /\ Stretch(p, f) = <<p>> \o s
  <2>1. p # 0 /\ p # f
    BY <1>2
  <2>2. Table
    BY <1>1
  <2>3. p \in 1..size /\ (ring \/ p <= f)
    BY <1>5, <2>1, <2>2 DEF Table, prevPt
  <2>4. Span(p, f) = Span(head, f) + 1
    BY <1>5, <2>1, <2>2, StretchGrows
  <2>5. \A k \in 1..Span(head, f) : At(p, k + 1) = At(head, k)
    BY <1>5, <2>1, <2>2, StretchGrows
  <2>6. Stretch(p, f) = <<p>> \o s
    BY <1>5, <2>1, <2>2, StretchGrows
  <2>7. QED
    BY <2>3, <2>4, <2>5, <2>6
<1>7. /\ Span(p, f) \in 1..size /\ At(p, 1) = p /\ Span(head, f) \in 1..size
      /\ Stretch(p, f) \in Seq(1..size) /\ Len(Stretch(p, f)) = Span(p, f)
      /\ s \in Seq(1..size)
  BY <1>1, <1>5, <1>6, StretchPoints
<1>8. Within(p, f)
  <2>1. ASSUME NEW k \in 1..Span(p, f)
        PROVE  At(p, k) \in lpMap
    <3>1. CASE k = 1
      BY <1>2, <1>7, <3>1
    <3>2. CASE k # 1
      <4>1. k - 1 \in 1..Span(head, f) /\ k = (k - 1) + 1
        BY <1>6, <1>7, <3>2 DEF Table
      <4>2. At(p, k) = At(head, k - 1)
        BY <1>6, <4>1
      <4>3. QED
        BY <1>4, <4>1, <4>2 DEF Within
    <3>3. QED
      BY <3>1, <3>2
  <2>2. QED
    BY <1>2, <1>4, <1>6, <2>1 DEF Within
<1>9. sortedList' = InDirection(posDir, Stretch(p, f))
  <2>1. CASE posDir
    BY <1>2, <1>4, <1>6, <2>1 DEF InDirection
  <2>2. CASE ~posDir
    <3>1. sortedList = Reverse(s) /\ sortedList' = Append(Reverse(s), p)
      BY <1>2, <1>4, <2>2 DEF InDirection
    <3>2. Reverse(<<p>> \o s) = Append(Reverse(s), p)
      BY <1>6, <1>7, ReverseGrows
    <3>3. QED
      BY <1>6, <2>2, <3>1, <3>2 DEF InDirection
  <2>3. QED
    BY <2>1, <2>2
<1>10. sortedList' \in Seq(1..size) /\ Len(sortedList') <= size
  <2>1. /\ Reverse(Stretch(p, f)) \in Seq(1..size)
        /\ Len(Reverse(Stretch(p, f))) = Span(p, f)
    BY <1>7, ReverseIs
  <2>2. Span(p, f) <= size
    BY <1>7 DEF Table
  <2>3. QED
    BY <1>7, <1>9, <2>1, <2>2 DEF InDirection
<1> HIDE DEF p, f, s
<1>11. IsFirst(oriHead)' /\ (isLoopRoad' <=> Loop')
  BY <1>2, <1>3, <1>4 DEF f, IsFirst, Loop, Ends, FirstEnd, nextPt
<1>12. Within(head, oriHead)'
  BY <1>2, <1>3, <1>8 DEF p, f, Within, Span, At
<1>13. (sortedList = InDirection(posDir, Stretch(head, oriHead)))'
  BY <1>2, <1>3, <1>9 DEF p, f, InDirection, Stretch
<1>14. Walking'
  BY <1>11, <1>12, <1>13 DEF Walking
<1>15. TypeOK'
  <2>1. head' \in 0..size
    BY <1>2, <1>6 DEF p
  <2>2. QED
    BY <1>1, <1>2, <1>3, <1>10, <2>1 DEF TypeOK
<1>16. QED
  BY <1>1, <1>2, <1>3, <1>14, <1>15 DEF IInv

(* The road that is put is a longest stretch back from the first point.    *)
LEMMA PutIsSorted ==
    ASSUME IInv, PutRoad
    PROVE  /\ roads' \in [BOOLEAN -> Seq(1..size)] /\ posDir \in BOOLEAN
           /\ Stops(head, oriHead)
           /\ roads'[posDir] = Closed(InDirection(posDir, Stretch(head, oriHead)))
           /\ roads'[~posDir] = roads[~posDir]
<1>1. Table /\ TypeOK /\ Walking
  BY DEF IInv, PutRoad
<1>2. /\ roads' = [roads EXCEPT ![posDir] =
                     IF isLoopRoad THEN <<Head(sortedList)>> \o sortedList ELSE sortedList]
      /\ Stops(head, oriHead)
  BY DEF PutRoad, Stops
<1>3. posDir \in BOOLEAN /\ roads \in [BOOLEAN -> Seq(1..size)] /\ sortedList \in Seq(1..size)
  BY <1>1 DEF TypeOK
<1> DEFINE put == IF isLoopRoad THEN <<Head(sortedList)>> \o sortedList ELSE sortedList
<1>4. put = Closed(InDirection(posDir, Stretch(head, oriHead)))
  BY <1>1 DEF Walking, Closed
<1>5. put \in Seq(1..size)
  <2>1. head \in 1..size /\ oriHead \in 1..size
    BY <1>1, TableHasPoints DEF Walking, Within
  <2>2. /\ Stretch(head, oriHead) \in Seq(1..size)
        /\ Len(Stretch(head, oriHead)) \in 1..size
    BY <1>1, <2>1, StretchPoints
  <2>3. /\ Reverse(Stretch(head, oriHead)) \in Seq(1..size)
        /\ Len(Reverse(Stretch(head, oriHead))) = Len(Stretch(head, oriHead))
    BY <2>2, ReverseIs
  <2>4. sortedList # <<>>
    BY <1>1, <2>2, <2>3 DEF Walking, InDirection
  <2>5. Head(sortedList) \in 1..size
    BY <1>3, <2>4, HeadTailProperties
  <2>6. <<Head(sortedList)>> \o sortedList \in Seq(1..size)
    BY <1>3, <2>5
  <2>7. QED
    BY <1>3, <2>6
<1>6. roads' = [roads EXCEPT ![posDir] = put]
  BY <1>2
<1> HIDE DEF put
<1>7. roads' \in [BOOLEAN -> Seq(1..size)] /\ roads'[posDir] = put
  BY <1>3, <1>5, <1>6
<1>8. roads'[~posDir] = roads[~posDir]
  BY <1>3, <1>6
<1>9. QED
  BY <1>2, <1>3, <1>4, <1>7, <1>8

(* The direction that is put is sorted, the other one as before. *)
LEMMA PutInvariant == IInv /\ PutRoad => IInv'
<1> SUFFICES ASSUME IInv, PutRoad
             PROVE  IInv'
  OBVIOUS
<1>1. Table /\ TypeOK /\ (~posDir => Sorted(TRUE)) /\ Walking
  BY DEF IInv, PutRoad
<1>2. /\ UNCHANGED input /\ UNCHANGED <<isLoopRoad, head, sortedList>>
      /\ posDir' = FALSE /\ oriHead' = 0
      /\ pc' = IF posDir THEN "group" ELSE "clean"
  BY DEF PutRoad
<1>3. Table' /\ lpMap' = lpMap /\ size' = size /\ ring' = ring /\ order' = order
  BY <1>1, <1>2, SameTable
<1>4. /\ roads' \in [BOOLEAN -> Seq(1..size)] /\ posDir \in BOOLEAN
      /\ Stops(head, oriHead)
      /\ roads'[posDir] = Closed(InDirection(posDir, Stretch(head, oriHead)))
      /\ roads'[~posDir] = roads[~posDir]
  BY PutIsSorted
<1>5. /\ IsFirst(oriHead) /\ Within(head, oriHead)
      /\ head \in lpMap /\ oriHead \in lpMap
  BY <1>1 DEF Walking, Within
<1>6. Sorted(TRUE)' /\ (~posDir => Sorted(FALSE)')
  <2>1. CASE posDir = TRUE
    <3>1. roads'[TRUE] = Closed(InDirection(TRUE, Stretch(head, oriHead)))
      BY <1>4, <2>1
    <3>2. Sorted(TRUE)'
      BY <1>1, <1>2, <1>4, <1>5, <3>1, SortedNext
    <3>3. QED
      BY <2>1, <3>2
  <2>2. CASE posDir = FALSE
    <3>1. roads'[FALSE] = Closed(InDirection(FALSE, Stretch(head, oriHead)))
      BY <1>4, <2>2
    <3>2. Sorted(FALSE)'
      BY <1>1, <1>2, <1>4, <1>5, <3>1, SortedNext
    <3>3. roads'[TRUE] = roads[TRUE] /\ Sorted(TRUE)
      BY <1>1, <1>4, <2>2
    <3>4. Sorted(TRUE)'
      BY <1>1, <1>2, <3>3, SortedStays
    <3>5. QED
      BY <3>2, <3>4
  <2>3. QED
    BY <1>4, <2>1, <2>2
<1>7. TypeOK'
  <2>1. oriHead' \in 0..size
    BY <1>1, <1>2 DEF Table
  <2>2. pc' \in {"group", "clean"} /\ posDir' \in BOOLEAN
    BY <1>2
  <2>3. UNCHANGED <<isLoopRoad, head, sortedList>>
    BY <1>2
  <2>4. QED
    BY <1>1, <1>3, <1>4, <2>1, <2>2, <2>3 DEF TypeOK
<1>8. pc' \in {"group", "clean"} /\ (pc' = "clean" => ~posDir)
  BY <1>2
<1>9. QED
  BY <1>2, <1>3, <1>6, <1>7, <1>8 DEF IInv

(* The pass over the roads in execute removes none of them. *)
LEMMA CleanInvariant == IInv /\ CleanRoads => IInv'
<1> SUFFICES ASSUME IInv, CleanRoads
             PROVE  IInv'
  OBVIOUS
<1>1. Table /\ TypeOK /\ (~posDir => Sorted(TRUE)) /\ ~posDir /\ Sorted(FALSE)
  BY DEF IInv, CleanRoads
<1>2. /\ UNCHANGED input /\ UNCHANGED roads
      /\ UNCHANGED <<posDir, oriHead, isLoopRoad, head, sortedList>> /\ pc' = "done"
  BY DEF CleanRoads
<1>3. /\ Table' /\ lpMap' = lpMap /\ size' = size /\ ring' = ring /\ order' = order
      /\ Sorted(TRUE)' /\ Sorted(FALSE)'
  BY <1>1, <1>2, SameInput
<1>4. TypeOK'
  BY <1>1, <1>2, <1>3 DEF TypeOK
<1>5. QED
  BY <1>1, <1>2, <1>3, <1>4 DEF IInv

(* A step that changes nothing. *)
LEMMA StutterInvariant == IInv /\ UNCHANGED vars => IInv'
<1> SUFFICES ASSUME IInv, UNCHANGED vars
             PROVE  IInv'
  OBVIOUS
<1>1. /\ UNCHANGED input /\ UNCHANGED roads
      /\ UNCHANGED <<pc, posDir, oriHead, isLoopRoad, head, sortedList>>
  BY DEF vars
<1>2. /\ Table' /\ lpMap' = lpMap /\ size' = size /\ ring' = ring /\ order' = order
      /\ (Sorted(TRUE) => Sorted(TRUE)') /\ (Sorted(FALSE) => Sorted(FALSE)')
  BY <1>1, SameInput DEF IInv
<1>3. TypeOK'
  BY <1>1, <1>2 DEF IInv, TypeOK
<1>4. pc = "first" => /\ ~isLoopRoad'
                      /\ \/ oriHead' \in lpMap' /\ nextPt(oriHead)' = 0
                         \/ oriHead' = 0 /\ \A i \in lpMap' : nextPt(i)' # 0
  BY <1>1, <1>2 DEF IInv, nextPt
<1>5. pc = "walk" => Walking'
  <2>1. SUFFICES ASSUME Walking
                 PROVE  Walking'
    BY DEF IInv
  <2>2. IsFirst(oriHead)' /\ (isLoopRoad' <=> Loop')
    BY <1>1, <1>2, <2>1 DEF Walking, IsFirst, Loop, Ends, FirstEnd, nextPt
  <2>3. Within(head, oriHead)'
    BY <1>1, <1>2, <2>1 DEF Walking, Within, Span, At
  <2>4. (sortedList = InDirection(posDir, Stretch(head, oriHead)))'
    BY <1>1, <1>2, <2>1 DEF Walking, InDirection, Stretch
  <2>5. QED
    BY <2>2, <2>3, <2>4 DEF Walking
<1>6. QED
  BY <1>1, <1>2, <1>3, <1>4, <1>5 DEF IInv

(* Every state of getSortedLPMap, in either of its passes, satisfies IInv. *)
THEOREM Invariance == Spec => []IInv
<1>1. IInv /\ [Next]_vars => IInv'
  BY GroupInvariant, FirstInvariant, WalkInvariant, PutInvariant, CleanInvariant,
     StutterInvariant DEF Next
<1>2. QED
  BY <1>1, InitInvariant, PTL DEF Spec

-----------------------------------------------------------------------------
(* The properties of RoadOrder, for any number of points.                  *)

(* The range of every variable of NRoadLoader.getSortedLPMap; the list of  *)
(* points never outgrows the road. *)
THEOREM TypeCorrect == Spec => []TypeOK
<1>1. IInv => TypeOK
  BY DEF IInv
<1>2. QED
  BY <1>1, Invariance, PTL

(* The forward road that getSortedLPMap returns is a stretch of the file's *)
(* road without a gap, as long as the table allows and at the road's end   *)
(* if the table has that; a complete loop has its first point twice.       *)
THEOREM ForwardRoadIsStretch == Spec => []ForwardIsStretch
<1>1. IInv => ForwardIsStretch
  <2>1. SUFFICES ASSUME IInv, pc = "done"
                 PROVE  ForwardIsStretch
    BY DEF ForwardIsStretch
  <2>2. Table /\ Sorted(TRUE)
    BY <2>1 DEF IInv
  <2>3. PICK a \in lpMap, f \in lpMap :
                 /\ IsFirst(f) /\ Within(a, f) /\ Stops(a, f)
                 /\ roads[TRUE] = Closed(InDirection(TRUE, Stretch(a, f)))
    BY <2>2 DEF Sorted
  <2>4. roads[TRUE] = Closed(Stretch(a, f))
    BY <2>3 DEF InDirection
  <2>5. a \in 1..size /\ f \in 1..size /\ 0 \notin lpMap
    BY <2>2, TableHasPoints
  <2>6. (Loop <=> ring /\ lpMap = 1..size) /\ (Loop => prevPt(a) = f)
    BY <2>2, <2>3, LoopIsWholeRing
  <2> DEFINE s == Stretch(a, f)
  <2>7. /\ Span(a, f) \in 1..size /\ s \in Seq(1..size) /\ Len(s) = Span(a, f)
        /\ \A k \in 1..Span(a, f) : At(a, k) \in 1..size /\ s[k] = At(a, k)
        /\ At(a, 1) = a
    BY <2>2, <2>5, StretchPoints
  <2> HIDE DEF s
  <2>8. CASE ring /\ lpMap = 1..size
    <3>1. f = IF a = 1 THEN size ELSE a - 1
      BY <2>2, <2>5, <2>6, <2>8 DEF prevPt, Table
    <3>2. Head(s) = a
      BY <2>5, <2>7
    <3>3. roads[TRUE] = <<a>> \o s
      BY <2>4, <2>6, <2>8, <3>2 DEF Closed, s
    <3>4. \E x \in 1..size : roads[TRUE] = <<x>> \o Stretch(x, IF x = 1 THEN size ELSE x - 1)
      BY <2>5, <3>1, <3>3 DEF s
    <3>5. QED
      BY <2>8, <3>4 DEF ForwardIsStretch
  <2>9. CASE ~(ring /\ lpMap = 1..size)
    <3>1. ~Loop /\ roads[TRUE] = s
      BY <2>4, <2>6, <2>9 DEF Closed, s
    <3>2. Range(s) \subseteq lpMap
      <4>1. \A k \in DOMAIN s : s[k] \in lpMap
        BY <2>3, <2>7 DEF Within
      <4>2. QED
        BY <4>1 DEF Range
    <3>3. prevPt(a) \notin lpMap
      <4>1. prevPt(a) # f
        BY <2>2, <2>3, <2>9, RoundTheRing
      <4>2. QED
        BY <2>3, <2>5, <4>1 DEF Stops
    <3>4. nextPt(f) \notin lpMap
      <4>1. nextPt(f) = 0 \/ Ends(f)
        BY <2>3, <3>1 DEF IsFirst, FirstEnd
      <4>2. QED
        BY <2>5, <4>1 DEF Ends
    <3>5. ~ring /\ size \in lpMap => f = size
      <4>1. SUFFICES ASSUME ~ring, size \in lpMap
                     PROVE  f = size
        OBVIOUS
      <4>2. nextPt(size) = 0
        BY <2>2, <4>1 DEF Table, nextPt
      <4>3. nextPt(f) = 0
        BY <2>3, <4>1, <4>2 DEF IsFirst
      <4>4. QED
        BY <2>2, <2>5, <4>3 DEF Table, nextPt
    <3>6. \E x, y \in lpMap : /\ roads[TRUE] = Stretch(x, y)
                              /\ Range(roads[TRUE]) \subseteq lpMap
                              /\ prevPt(x) \notin lpMap /\ nextPt(y) \notin lpMap
                              /\ ~ring /\ size \in lpMap => y = size
      BY <2>3, <3>1, <3>2, <3>3, <3>4, <3>5 DEF s
    <3>7. QED
      BY <2>9, <3>6 DEF ForwardIsStretch
  <2>10. QED
    BY <2>8, <2>9
<1>2. QED
  BY <1>1, Invariance, PTL

(* The backward road, which getSortedLPMap finds in a second pass, has the *)
(* points of the forward one in the opposite order, a loop's doubled first *)
(* point aside: both passes begin and end at the same points.              *)
THEOREM BackwardRoadMirrors == Spec => []BackwardMirrors
<1>1. IInv => BackwardMirrors
  <2>1. SUFFICES ASSUME IInv, pc = "done"
                 PROVE  BackwardMirrors
    BY DEF BackwardMirrors
  <2>2. Table /\ Sorted(TRUE) /\ Sorted(FALSE)
    BY <2>1 DEF IInv
  <2>3. PICK a \in lpMap, f \in lpMap :
                 /\ IsFirst(f) /\ Within(a, f) /\ Stops(a, f)
                 /\ roads[TRUE] = Closed(InDirection(TRUE, Stretch(a, f)))
    BY <2>2 DEF Sorted
  <2>4. PICK b \in lpMap, g \in lpMap :
                 /\ IsFirst(g) /\ Within(b, g) /\ Stops(b, g)
                 /\ roads[FALSE] = Closed(InDirection(FALSE, Stretch(b, g)))
    BY <2>2 DEF Sorted
  <2>5. f = g
    BY <2>2, <2>3, <2>4, OneFirst
  <2>6. a = b
    BY <2>2, <2>3, <2>4, <2>5, OneStop
  <2> DEFINE s == Stretch(a, f)
             r == Reverse(s)
  <2>7. roads[TRUE] = Closed(s) /\ roads[FALSE] = Closed(r)
    BY <2>3, <2>4, <2>5, <2>6 DEF InDirection
  <2>8. Loop <=> ring /\ lpMap = 1..size
    BY <2>2, <2>3, LoopIsWholeRing
  <2>9. a \in 1..size /\ f \in 1..size
    BY <2>2, TableHasPoints
  <2>10. s \in Seq(1..size) /\ Len(s) \in 1..size
    BY <2>2, <2>9, StretchPoints
  <2>11. r \in Seq(1..size) /\ Len(r) = Len(s)
    BY <2>10, ReverseIs
  <2> HIDE DEF s, r
  <2>12. CASE ring /\ lpMap = 1..size
    <3>1. roads[TRUE] = <<Head(s)>> \o s /\ roads[FALSE] = <<Head(r)>> \o r
      BY <2>7, <2>8, <2>12 DEF Closed
    <3>2. Head(s) \in 1..size /\ Head(r) \in 1..size
      <4>1. s # <<>> /\ r # <<>>
        BY <2>10, <2>11
      <4>2. Head(s) \in 1..size
        BY <2>10, <4>1, HeadTailProperties
      <4>3. Head(r) \in 1..size
        BY <2>11, <4>1, HeadTailProperties
      <4>4. QED
        BY <4>2, <4>3
    <3>3. Tail(<<Head(s)>> \o s) = s
      BY <2>10, <3>2
    <3>4. Tail(<<Head(r)>> \o r) = r
      BY <2>11, <3>2
    <3>5. QED
      BY <2>12, <3>1, <3>3, <3>4 DEF BackwardMirrors, r
  <2>13. CASE ~(ring /\ lpMap = 1..size)
    <3>1. roads[TRUE] = s /\ roads[FALSE] = r
      BY <2>7, <2>8, <2>13 DEF Closed
    <3>2. QED
      BY <2>13, <3>1 DEF BackwardMirrors, r
  <2>14. QED
    BY <2>12, <2>13
<1>2. QED
  BY <1>1, Invariance, PTL
=============================================================================
