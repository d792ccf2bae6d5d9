-------------------------- MODULE ResultTableProofs --------------------------
(***************************************************************************)
(* Proofs about ResultTable, for any payloads, searches, page size and     *)
(* number of requests: what is selected, drawn and written agrees.         *)
(***************************************************************************)
EXTENDS ResultTable, FiniteSetTheorems, SequenceTheorems, NaturalsInduction,
        WellFoundedInduction, TLAPS

-----------------------------------------------------------------------------
(* Finite sets of numbers.                                                 *)

(* A set of numbers that is not empty has a least one. *)
LEMMA LeastNumber ==
    ASSUME NEW T \in SUBSET Nat, T # {}
    PROVE  \E x \in T : \A y \in T : x <= y
<1> DEFINE R == OpToRel(<, Nat)
<1>1. IsWellFoundedOn(R, Nat)
  BY NatLessThanWellFounded
<1>2. \A x, y \in Nat : <<y, x>> \in R <=> y < x
  BY DEF OpToRel
<1> HIDE DEF R
<1>3. PICK x \in T : \A y \in T : ~(<<y, x>> \in R)
  BY <1>1, WFMin
<1>4. ASSUME NEW y \in T
      PROVE  x <= y
  <2>1. x \in Nat /\ y \in Nat /\ ~(<<y, x>> \in R)
    BY <1>3
  <2>2. ~(y < x)
    BY <1>2, <2>1
  <2>3. QED
    BY <2>1, <2>2
<1>5. QED
  BY <1>4

(* One that is also bounded has a greatest one. *)
LEMMA GreatestNumber ==
    ASSUME NEW T \in SUBSET Nat, T # {}, NEW n \in Nat, \A y \in T : y <= n
    PROVE  \E x \in T : \A y \in T : y <= x
<1> DEFINE U == {m \in Nat : \A y \in T : y <= m}
<1>1. U \in SUBSET Nat /\ U # {}
  OBVIOUS
<1>2. PICK m \in U : \A u \in U : m <= u
  BY <1>1, LeastNumber
<1>3. m \in Nat /\ \A y \in T : y <= m
  OBVIOUS
<1>4. m \in T
  <2>1. SUFFICES ASSUME m \notin T
                 PROVE  FALSE
    OBVIOUS
  <2>2. \A y \in T : y < m
    BY <1>3, <2>1
  <2>3. m - 1 \in Nat /\ \A y \in T : y <= m - 1
    <3>1. \A y \in T : y \in Nat /\ y <= m - 1
      BY <1>3, <2>2
    <3>2. PICK y \in T : TRUE
      OBVIOUS
    <3>3. QED
      BY <1>3, <2>2, <3>1, <3>2
  <2>4. m <= m - 1
    BY <1>2, <2>3
  <2>5. QED
    BY <1>3, <2>4
<1>5. QED
  BY <1>3, <1>4

(* The n-th of the numbers of a finite set is there for every n up to the  *)
(* size of the set. *)
LEMMA Ranked ==
    ASSUME NEW size \in Nat, NEW kept \in SUBSET (1..size), NEW n \in 1..Cardinality(kept)
    PROVE  /\ (CHOOSE i \in kept : Cardinality({k \in kept : k <= i}) = n) \in kept
           /\ Cardinality(kept) \in Nat
<1> DEFINE below(i) == {k \in kept : k <= i}
           rank == [i \in kept |-> Cardinality(below(i))]
           N == Cardinality(kept)
<1>1. IsFiniteSet(kept)
  <2>1. IsFiniteSet(1..size)
    BY FS_Interval
  <2>2. QED
    BY <2>1, FS_Subset
<1>2. N \in Nat
  BY <1>1, FS_CardinalityType
<1>3. \A i \in kept : IsFiniteSet(below(i)) /\ Cardinality(below(i)) \in 1..N
  <2>1. ASSUME NEW i \in kept
        PROVE  IsFiniteSet(below(i)) /\ Cardinality(below(i)) \in 1..N
    <3>1. below(i) \in SUBSET kept
      OBVIOUS
    <3>2. IsFiniteSet(below(i)) /\ Cardinality(below(i)) <= N
      BY <1>1, <3>1, FS_Subset
    <3>3. i \in below(i)
      OBVIOUS
    <3>4. Cardinality(below(i)) # 0 /\ Cardinality(below(i)) \in Nat
      BY <3>2, <3>3, FS_EmptySet, FS_CardinalityType
    <3>5. QED
      BY <1>2, <3>2, <3>4
  <2>2. QED
    BY <2>1
<1>4. \A i, j \in kept : i < j => Cardinality(below(i)) # Cardinality(below(j))
  <2>1. SUFFICES ASSUME NEW i \in kept, NEW j \in kept, i < j,
                        Cardinality(below(i)) = Cardinality(below(j))
                 PROVE  FALSE
    OBVIOUS
  <2>2. below(i) \in SUBSET below(j)
    <3>1. ASSUME NEW k \in below(i)
          PROVE  k \in below(j)
      <4>1. k \in kept /\ k \in Nat /\ i \in Nat /\ j \in Nat /\ k <= i
        BY <2>1
      <4>2. k <= j
        BY <2>1, <4>1
      <4>3. QED
        BY <4>1, <4>2
    <3>2. QED
      BY <3>1
  <2>3. below(i) = below(j)
    BY <1>3, <2>1, <2>2, FS_Subset
  <2>4. j \in below(j) /\ j \notin below(i)
    BY <2>1
  <2>5. QED
    BY <2>3, <2>4
<1>5. rank \in Injection(kept, 1..N)
  <2>1. rank \in [kept -> 1..N]
    BY <1>3
  <2>2. ASSUME NEW i \in kept, NEW j \in kept, rank[i] = rank[j]
        PROVE  i = j
    <3>1. Cardinality(below(i)) = Cardinality(below(j))
      BY <2>2
    <3>2. ~(i < j) /\ ~(j < i)
      BY <1>4, <3>1
    <3>3. QED
      BY <3>2
  <2>3. QED
    BY <2>1, <2>2 DEF Injection, IsInjective
<1>6. rank \in Surjection(kept, 1..N)
  <2>1. IsFiniteSet(1..N) /\ Cardinality(1..N) = N
    BY <1>2, FS_Interval
  <2>2. QED
    BY <1>5, <2>1, FS_Injection
<1>7. \E i \in kept : Cardinality(below(i)) = n
  <2>1. PICK i \in kept : rank[i] = n
    BY <1>6 DEF Surjection
  <2>2. QED
    BY <2>1
<1>8. QED
  BY <1>2, <1>7

-----------------------------------------------------------------------------
(* The widget's lists.                                                     *)

(* A sequence as a function, and back. *)
LEMMA SeqIsFunction ==
    ASSUME NEW S, NEW n \in Nat, NEW f \in [1..n -> S]
    PROVE  f \in Seq(S) /\ Len(f) = n /\ DOMAIN f = 1..n
<1>1. f \in Seq(S)
  BY SeqDef
<1>2. Len(f) \in Nat /\ DOMAIN f = 1..Len(f) /\ DOMAIN f = 1..n
  BY <1>1, LenProperties
<1>3. Len(f) = n
  BY <1>2
<1>4. QED
  BY <1>1, <1>2, <1>3

(* initSort keeps every row, and every row once. *)
LEMMA SortKeepsRows ==
    ASSUME NEW S, NEW rows \in Seq(S), NEW column, NEW desc,
           NEW view \in initSort(rows, column, desc)
    PROVE  /\ view \in Seq(S) /\ Len(view) = Len(rows) /\ ToSet(view) = ToSet(rows)
           /\ IsInjective(rows) => IsInjective(view)
<1> DEFINE n == Len(rows)
<1>1. n \in Nat /\ DOMAIN rows = 1..n /\ \A i \in 1..n : rows[i] \in S
  BY LenProperties
<1>2. PICK p \in [1..n -> 1..n] : IsInjective(p) /\ view = [k \in 1..n |-> rows[p[k]]]
  BY <1>1 DEF initSort, Ordered
<1> HIDE DEF n
<1>3. view \in [1..n -> S]
  BY <1>1, <1>2
<1>4. view \in Seq(S) /\ Len(view) = n /\ DOMAIN view = 1..n
  BY <1>1, <1>3, SeqIsFunction
<1>5. p \in Injection(1..n, 1..n)
  BY <1>2 DEF Injection
<1>6. p \in Surjection(1..n, 1..n)
  <2>1. IsFiniteSet(1..n)
    BY <1>1, FS_Interval
  <2>2. QED
    BY <1>5, <2>1, FS_Injection
<1>7. ToSet(view) = ToSet(rows)
  <2>1. \A k \in 1..n : view[k] = rows[p[k]] /\ p[k] \in 1..n
    BY <1>2
  <2>2. \A i \in 1..n : \E k \in 1..n : p[k] = i
    BY <1>6 DEF Surjection
  <2>3. ASSUME NEW i \in 1..n
        PROVE  \E k \in 1..n : view[k] = rows[i]
    <3>1. PICK k \in 1..n : p[k] = i
      BY <2>2
    <3>2. view[k] = rows[p[k]]
      BY <2>1
    <3>3. QED
      BY <3>1, <3>2
  <2>4. ToSet(view) \subseteq ToSet(rows)
    <3>1. ASSUME NEW k \in 1..n
          PROVE  view[k] \in ToSet(rows)
      BY <1>1, <2>1 DEF ToSet
    <3>2. QED
      BY <1>4, <3>1 DEF ToSet
  <2>5. ToSet(rows) \subseteq ToSet(view)
    <3>1. ASSUME NEW i \in 1..n
          PROVE  rows[i] \in ToSet(view)
      <4>1. PICK k \in 1..n : view[k] = rows[i]
        BY <2>3
      <4>2. QED
        BY <1>4, <4>1 DEF ToSet
    <3>2. QED
      BY <1>1, <3>1 DEF ToSet
  <2>6. QED
    BY <2>4, <2>5
<1>8. IsInjective(rows) => IsInjective(view)
  BY <1>1, <1>2, <1>4 DEF IsInjective
<1>9. QED
  BY <1>4, <1>7, <1>8 DEF n

(* initSearch shows rows of the table only, and all if nothing is searched.*)
LEMMA SearchKeepsRows ==
    ASSUME NEW S, table.all \in Seq(S), NEW text
    PROVE  /\ initSearch(text) \in Seq(S)
           /\ ToSet(initSearch(text)) \subseteq ToSet(table.all)
           /\ text = "" => initSearch(text) = table.all
<1>1. CASE text = ""
  BY <1>1 DEF initSearch
<1>2. CASE text # ""
  <2> DEFINE all == table.all
             size == Len(table.all)
             kept == {i \in DOMAIN all : all[i] \in Shows[text]}
             N == Cardinality(kept)
             nth(n) == CHOOSE i \in kept : Cardinality({k \in kept : k <= i}) = n
             view == [n \in 1..N |-> all[nth(n)]]
  <2>1. initSearch(text) = view
    BY <1>2 DEF initSearch
  <2>2. size \in Nat /\ DOMAIN all = 1..size /\ \A i \in 1..size : all[i] \in S
    BY LenProperties
  <2>3. kept \in SUBSET (1..size)
    BY <2>2
  <2>4. ASSUME NEW n \in 1..N
        PROVE  nth(n) \in kept
    <3>1. size \in Nat
      BY <2>2
    <3> HIDE DEF size, kept
    <3>2. QED
      BY <2>3, <3>1, Ranked
  <2>5. N \in Nat
    <3>1. size \in Nat
      BY <2>2
    <3> HIDE DEF size
    <3>2. IsFiniteSet(1..size)
      BY <3>1, FS_Interval
    <3>3. IsFiniteSet(kept)
      BY <2>3, <3>2, FS_Subset
    <3>4. QED
      BY <3>3, FS_CardinalityType
  <2> HIDE DEF kept, N, nth, all, size
  <2>6. \A n \in 1..N : nth(n) \in 1..size
    BY <2>3, <2>4
  <2>7. view \in [1..N -> S]
    BY <2>2, <2>6
  <2>8. view \in Seq(S) /\ DOMAIN view = 1..N
    BY <2>5, <2>7, SeqIsFunction
  <2>9. ToSet(view) \subseteq ToSet(all)
    BY <2>2, <2>6, <2>8 DEF ToSet
  <2>10. QED
    BY <1>2, <2>1, <2>8, <2>9 DEF all
<1>3. QED
  BY <1>1, <1>2

-----------------------------------------------------------------------------
(* The loop over the nodes of a tree.                                      *)

(* If every section has its number plus one at least as far as its place,  *)
(* the loop only goes on, and leaves the list. *)
LEMMA LoopLeaves ==
    ASSUME NEW S \in SUBSET Int, NEW nodes \in Seq(S), nodes # <<>>,
           \A i \in DOMAIN nodes : nodes[i] # Other => nodes[i] + 1 >= i
    PROVE  \E i \in Visited(nodes) : treeNext(nodes, i) \notin DOMAIN nodes
<1> DEFINE n == Len(nodes)
<1>1. n \in Nat /\ DOMAIN nodes = 1..n /\ 1 \in 1..n /\ \A i \in 1..n : nodes[i] \in Int
  <2>1. n \in Nat /\ DOMAIN nodes = 1..n /\ \A i \in 1..n : nodes[i] \in S
    BY LenProperties
  <2>2. n # 0
    BY EmptySeq
  <2>3. 1 \in 1..n
    BY <2>1, <2>2
  <2>4. QED
    BY <2>1, <2>3
<1>2. \A i \in 1..n : treeNext(nodes, i) > i
  BY <1>1 DEF treeNext
<1>3. Visited(nodes) \in SUBSET (1..n)
  BY <1>1 DEF Visited
<1>4. 1 \in Visited(nodes)
  BY <1>1 DEF Visited
<1>5. \A i \in Visited(nodes) : treeNext(nodes, i) \in DOMAIN nodes => treeNext(nodes, i) \in Visited(nodes)
  BY DEF Visited
<1> HIDE DEF n
<1>6. PICK x \in Visited(nodes) : \A y \in Visited(nodes) : y <= x
  <2>1. Visited(nodes) \in SUBSET Nat /\ \A y \in Visited(nodes) : y <= n
    BY <1>1, <1>3
  <2>2. QED
    BY <1>1, <1>4, <2>1, GreatestNumber
<1>7. treeNext(nodes, x) > x /\ x \in 1..n
  BY <1>2, <1>3
<1>8. treeNext(nodes, x) \notin DOMAIN nodes
  <2>1. SUFFICES ASSUME treeNext(nodes, x) \in DOMAIN nodes
                 PROVE  FALSE
    OBVIOUS
  <2>2. treeNext(nodes, x) <= x
    BY <1>5, <1>6, <2>1
  <2>3. treeNext(nodes, x) \in 1..n
    BY <1>1, <2>1
  <2>4. QED
    BY <1>1, <1>7, <2>2, <2>3
<1>9. QED
  BY <1>8

-----------------------------------------------------------------------------
(* What Output writes.                                                     *)

(* The rows of a payload. *)
LEMMA Payload ==
    ASSUME NEW f \in Files
    PROVE  /\ RowsOf[f] \in Seq(AllRows) /\ IsInjective(RowsOf[f])
           /\ IsFiniteSet(ToSet(RowsOf[f])) /\ ToSet(RowsOf[f]) \subseteq AllRows
           /\ \A r \in ToSet(RowsOf[f]) : r.lines \in Nat
<1> DEFINE rows == RowsOf[f]
           n == Len(rows)
           Row == [file : {f}, at : Nat, id : Nat, type : {"TFP", "TEC"}, lines : Nat]
<1>1. rows \in Seq(Row) /\ IsInjective(rows)
  BY RowsAssumption
<1>2. n \in Nat /\ DOMAIN rows = 1..n /\ \A i \in 1..n : rows[i] \in Row
  BY <1>1, LenProperties
<1>3. ToSet(rows) \subseteq AllRows
  BY DEF AllRows
<1>4. \A i \in 1..n : rows[i] \in AllRows
  BY <1>2, <1>3 DEF ToSet
<1>5. rows \in [1..n -> AllRows]
  BY <1>1, <1>4, LenProperties
<1>6. rows \in Seq(AllRows)
  BY <1>2, <1>5, SeqDef
<1>7. IsFiniteSet(ToSet(rows))
  <2>1. rows \in Surjection(1..n, ToSet(rows))
    BY <1>2, <1>5 DEF Surjection, ToSet
  <2>2. IsFiniteSet(1..n)
    BY <1>2, FS_Interval
  <2>3. QED
    BY <2>1, <2>2, FS_Surjection
<1>8. \A r \in ToSet(rows) : r.lines \in Nat
  BY <1>2 DEF ToSet
<1>9. QED
  BY <1>1, <1>3, <1>6, <1>7, <1>8

(* The picked messages are written once and the others not at all exactly  *)
(* if no message has the id of a picked one. *)
LEMMA OutputWrites ==
    ASSUME NEW f \in Files, NEW picked \in SUBSET ToSet(RowsOf[f])
    PROVE  (\A r \in picked, m \in ToSet(RowsOf[f]) : r.id = m.id => r = m)
           <=> \A m \in ToSet(RowsOf[f]) :
                   Written(f, picked)[m] = IF m \in picked THEN 1 ELSE 0
<1> DEFINE rows == ToSet(RowsOf[f])
           hits(m) == {r \in picked : r.id = m.id}
<1>1. \A m \in rows : Written(f, picked)[m] = Cardinality(hits(m))
  BY DEF Written
<1>2. \A m \in rows : IsFiniteSet(hits(m))
  <2>1. IsFiniteSet(rows)
    BY Payload
  <2>2. \A m \in rows : hits(m) \in SUBSET rows
    OBVIOUS
  <2>3. QED
    BY <2>1, <2>2, FS_Subset
<1>3. ASSUME \A r \in picked, m \in rows : r.id = m.id => r = m,
             NEW m \in rows
      PROVE  Cardinality(hits(m)) = IF m \in picked THEN 1 ELSE 0
  <2>1. CASE m \in picked
    <3>1. hits(m) = {m}
      BY <1>3, <2>1
    <3>2. QED
      BY <2>1, <3>1, FS_Singleton
  <2>2. CASE m \notin picked
    <3>1. hits(m) = {}
      BY <1>3, <2>2
    <3>2. QED
      BY <2>2, <3>1, FS_EmptySet
  <2>3. QED
    BY <2>1, <2>2
<1>4. ASSUME \A m \in rows : Cardinality(hits(m)) = IF m \in picked THEN 1 ELSE 0,
             NEW r \in picked, NEW m \in rows, r.id = m.id
      PROVE  r = m
  <2>1. r \in hits(m)
    BY <1>4
  <2>2. Cardinality(hits(m)) # 0
    BY <1>2, <2>1, FS_EmptySet
  <2>3. m \in picked /\ Cardinality(hits(m)) = 1
    BY <1>4, <2>2
  <2>4. PICK x : hits(m) = {x}
    BY <1>2, <2>3, FS_Singleton
  <2>5. m \in hits(m)
    BY <2>3
  <2>6. QED
    BY <2>1, <2>4, <2>5
<1> HIDE DEF hits
<1>5. QED
  BY <1>1, <1>3, <1>4

-----------------------------------------------------------------------------
(* The inductive invariant.                                                *)

Overlays(rows) == UNION {Over(r) : r \in rows}

Asks == {[ask |-> "decode", file |-> f] : f \in Files}
        \union IF page = "simulate" THEN {[ask |-> "bytes", file |-> NoFile]} ELSE {}

Types == /\ page \in {"parse", "simulate"} /\ value \in Files \union {NoFile}
         /\ posts \in Seq(Asks) /\ enabled \in BOOLEAN /\ disturbed \in BOOLEAN
         /\ table \in [file : Files \union {NoFile}, all : Seq(AllRows), view : Seq(AllRows),
                       text : Texts, at : Nat]

(* Without a file there is no table; else it has the rows of its file. *)
TableInv == /\ table.file = NoFile => table = NoTable
            /\ table.file \in Files => ToSet(table.all) = ToSet(RowsOf[table.file])
            /\ IsInjective(table.all) /\ ToSet(table.view) \subseteq ToSet(table.all)
            /\ table.text = "" => table.view = table.all
            /\ table.at \in 1..totalPages \union {1}

SelectInv == selected \subseteq ToSet(table.all) /\ SelectedCanBeOutput

DrawnInv == drawn \subseteq Overlays(AllRows) /\ DrawnBelongsToTable

(* As long as nothing overlapped there is at most one request, and it asks *)
(* for the value; a table is of the value; and a simulate page that waits  *)
(* has no table.                                                           *)
FreshInv == ~disturbed =>
                /\ Len(posts) <= 1
                /\ \A i \in DOMAIN posts : posts[i].ask = "decode" => posts[i].file = value
                /\ table.file # NoFile => table.file = value
                /\ page = "simulate" /\ posts # <<>> => table = NoTable

(* What Output picked is of the payload shown, its bytes are that          *)
(* payload's, and it writes what Written says.                             *)
OutputInv == event.kind = "output" /\ event.picked # {} =>
                /\ event.shown \in Files /\ event.picked \subseteq ToSet(RowsOf[event.shown])
                /\ event.from = event.shown \/ disturbed
                /\ event.from \in Files => event.written = Written(event.from, event.picked)

EventInv == OutputInv /\ TreeLoopEnds

IInv == Types /\ TableInv /\ SelectInv /\ DrawnInv /\ FreshInv /\ EventInv

-----------------------------------------------------------------------------
(* What all steps need.                                                    *)

LEMMA RowsHaveLines ==
    ASSUME NEW r \in AllRows
    PROVE  r.lines \in Nat
<1>1. PICK f \in Files : r \in ToSet(RowsOf[f])
  BY DEF AllRows
<1>2. QED
  BY <1>1, Payload

LEMMA OverlaysGrow ==
    ASSUME NEW S, NEW T, S \subseteq T
    PROVE  Overlays(S) \subseteq Overlays(T)
BY DEF Overlays

LEMMA OverIsOverlays ==
    ASSUME NEW S, NEW r \in S
    PROVE  Over(r) \subseteq Overlays(S)
BY DEF Overlays

(* The rows in a table are rows of a payload; a page shows some of them. *)
LEMMA TableRows ==
    ASSUME Types, TableInv
    PROVE  /\ ToSet(table.all) \subseteq AllRows
           /\ PageRows \subseteq ToSet(table.all)
           /\ ToSet(table.all) # {} => table.file \in Files
<1>1. table.all \in Seq(AllRows) /\ table.view \in Seq(AllRows) /\ table.file \in Files \union {NoFile}
  BY DEF Types
<1>2. ToSet(table.all) \subseteq AllRows
  <2>1. DOMAIN table.all = 1..Len(table.all) /\ \A i \in 1..Len(table.all) : table.all[i] \in AllRows
    BY <1>1, LenProperties
  <2>2. QED
    BY <2>1 DEF ToSet
<1>3. PageRows \subseteq ToSet(table.view)
  BY DEF PageRows, ToSet
<1>4. ToSet(table.all) # {} => table.file # NoFile
  <2>1. ToSet(NoTable.all) = {}
    <3>1. NoTable.all = <<>>
      BY DEF NoTable
    <3>2. QED
      BY <3>1 DEF ToSet
  <2>2. QED
    BY <2>1 DEF TableInv
<1>5. QED
  BY <1>1, <1>2, <1>3, <1>4 DEF TableInv

LEMMA NoEventInv ==
    ASSUME event' = NoEvent
    PROVE  EventInv'
BY DEF EventInv, OutputInv, TreeLoopEnds, NoEvent

(* Steps that leave the table, the value and the requests alone. *)
LEMMA SameTable ==
    ASSUME Types, TableInv, FreshInv,
           table' = table, page' = page, value' = value, posts' = posts, disturbed' = disturbed
    PROVE  TableInv' /\ FreshInv' /\ (enabled' \in BOOLEAN => Types')
<1>1. enabled' \in BOOLEAN => Types'
  BY DEF Types, Asks
<1>2. TableInv'
  BY DEF TableInv, totalPages
<1>3. FreshInv'
  BY DEF FreshInv
<1>4. QED
  BY <1>1, <1>2, <1>3

(* outputCheckFunc enables Output for whatever is selected. *)
LEMMA Enables ==
    ASSUME table' = table, selected' \subseteq ToSet(table.all), outputCheckFunc(getAllSelections')
    PROVE  enabled' \in BOOLEAN /\ SelectInv'
<1>1. getAllSelections' = selected'
  BY DEF getAllSelections
<1>2. enabled' = (selected' # {})
  BY <1>1 DEF outputCheckFunc
<1>3. enabled' \in BOOLEAN
  BY <1>2
<1>4. selected' # {} => enabled'
  BY <1>2
<1>5. selected' \subseteq ToSet(table'.all)
  OBVIOUS
<1>6. QED
  BY <1>3, <1>4, <1>5 DEF SelectInv, SelectedCanBeOutput

(* What is drawn of the rows of the table. *)
LEMMA Draws ==
    ASSUME Types, TableInv, DrawnInv, table' = table, page' = page,
           NEW rows \in SUBSET ToSet(table.all), drawn' \subseteq drawn \union Overlays(rows)
    PROVE  DrawnInv'
<1>1. Overlays(rows) \subseteq Overlays(ToSet(table.all)) /\ Overlays(rows) \subseteq Overlays(AllRows)
  <2>1. rows \subseteq AllRows
    BY TableRows
  <2>2. QED
    BY <2>1, OverlaysGrow
<1>2. drawn' \subseteq Overlays(AllRows)
  BY <1>1 DEF DrawnInv
<1>3. ASSUME page = "parse"
      PROVE  drawn' \subseteq Overlays(ToSet(table'.all))
  <2>1. drawn \subseteq Overlays(ToSet(table.all))
    BY <1>3 DEF DrawnInv, DrawnBelongsToTable, Overlays
  <2>2. QED
    BY <1>1, <2>1
<1>4. DrawnBelongsToTable'
  BY <1>3 DEF DrawnBelongsToTable, Overlays
<1>5. QED
  BY <1>2, <1>4 DEF DrawnInv, Overlays, AllRows, Over

-----------------------------------------------------------------------------
(* Every action of the widget.                                             *)

LEMMA Checks ==
    ASSUME IInv, NEW r, Check(r)
    PROVE  IInv'
<1>1. /\ table' = table /\ page' = page /\ value' = value /\ posts' = posts /\ disturbed' = disturbed
      /\ r \in ToSet(table.all) /\ selected' = selected \union {r} /\ event' = NoEvent
      /\ drawn' = drawn \union Over(r) /\ outputCheckFunc(getAllSelections')
  BY TableRows DEF IInv, Check, unchangedByRows
<1>2. enabled' \in BOOLEAN /\ SelectInv'
  <2>1. selected' \subseteq ToSet(table.all)
    BY <1>1 DEF IInv, SelectInv
  <2>2. QED
    BY <1>1, <2>1, Enables
<1>3. DrawnInv'
  <2>1. drawn' \subseteq drawn \union Overlays({r})
    BY <1>1, OverIsOverlays
  <2>2. {r} \in SUBSET ToSet(table.all)
    BY <1>1
  <2>3. QED
    BY <1>1, <2>1, <2>2, Draws DEF IInv
<1>4. QED
  BY <1>1, <1>2, <1>3, SameTable, NoEventInv DEF IInv

LEMMA Unchecks ==
    ASSUME IInv, NEW r, Uncheck(r)
    PROVE  IInv'
<1>1. /\ table' = table /\ page' = page /\ value' = value /\ posts' = posts /\ disturbed' = disturbed
      /\ selected' = selected \ {r} /\ event' = NoEvent
      /\ drawn' = drawn \ Over(r) /\ outputCheckFunc(getAllSelections')
  BY DEF Uncheck, unchangedByRows
<1>2. enabled' \in BOOLEAN /\ SelectInv'
  <2>1. selected' \subseteq ToSet(table.all)
    BY <1>1 DEF IInv, SelectInv
  <2>2. QED
    BY <1>1, <2>1, Enables
<1>3. DrawnInv'
  <2>1. drawn' \subseteq drawn \union Overlays({})
    BY <1>1
  <2>2. QED
    BY <1>1, <2>1, Draws DEF IInv
<1>4. QED
  BY <1>1, <1>2, <1>3, SameTable, NoEventInv DEF IInv

LEMMA ChecksAll ==
    ASSUME IInv, CheckAll
    PROVE  IInv'
<1>1. /\ table' = table /\ page' = page /\ value' = value /\ posts' = posts /\ disturbed' = disturbed
      /\ selected' = selected \union PageRows /\ event' = NoEvent
      /\ drawn' = drawn \union Overlays(getSelections') /\ outputCheckFunc(getAllSelections')
  BY DEF CheckAll, unchangedByRows, Overlays
<1>2. selected' \subseteq ToSet(table.all)
  BY <1>1, TableRows DEF IInv, SelectInv
<1>3. enabled' \in BOOLEAN /\ SelectInv'
  BY <1>1, <1>2, Enables
<1>4. DrawnInv'
  <2>1. getSelections' \in SUBSET ToSet(table.all)
    BY <1>1, <1>2 DEF getSelections
  <2>2. QED
    BY <1>1, <2>1, Draws DEF IInv
<1>5. QED
  BY <1>1, <1>3, <1>4, SameTable, NoEventInv DEF IInv

LEMMA UnchecksAll ==
    ASSUME IInv, UncheckAll
    PROVE  IInv'
<1>1. /\ table' = table /\ page' = page /\ value' = value /\ posts' = posts /\ disturbed' = disturbed
      /\ selected' = selected \ PageRows /\ event' = NoEvent
      /\ drawn' = {} /\ outputCheckFunc(getAllSelections')
  BY DEF UncheckAll, unchangedByRows
<1>2. selected' \subseteq ToSet(table.all)
  BY <1>1 DEF IInv, SelectInv
<1>3. enabled' \in BOOLEAN /\ SelectInv'
  BY <1>1, <1>2, Enables
<1>4. DrawnInv'
  <2>1. drawn' \subseteq drawn \union Overlays({})
    BY <1>1
  <2>2. QED
    BY <1>1, <2>1, Draws DEF IInv
<1>5. QED
  BY <1>1, <1>3, <1>4, SameTable, NoEventInv DEF IInv

LEMMA SelectsPoint ==
    ASSUME IInv, SelectPoint
    PROVE  IInv'
<1>1. /\ table' = table /\ page' = page /\ value' = value /\ posts' = posts /\ disturbed' = disturbed
      /\ selected' = selected /\ enabled' = enabled /\ event' = NoEvent /\ drawn' = {}
  BY DEF SelectPoint, unchangedByRows
<1>2. enabled' \in BOOLEAN /\ SelectInv'
  <2>1. enabled' \in BOOLEAN
    BY <1>1 DEF IInv, Types
  <2>2. SelectInv'
    BY <1>1 DEF IInv, SelectInv, SelectedCanBeOutput
  <2>3. QED
    BY <2>1, <2>2
<1>3. DrawnInv'
  <2>1. drawn' \subseteq drawn \union Overlays({})
    BY <1>1
  <2>2. QED
    BY <1>1, <2>1, Draws DEF IInv
<1>4. QED
  BY <1>1, <1>2, <1>3, SameTable, NoEventInv DEF IInv

(* A tree draws sections of its row only, and says whether its loop ends. *)
LEMMA SelectsInTree ==
    ASSUME IInv, NEW r \in AllRows, NEW nodes \in NodeSeqs[r], SelectInTree(r, nodes)
    PROVE  IInv'
<1> DEFINE seen == {nodes[i] : i \in Visited(nodes)} \ {Other}
           ended == nodes = <<>> \/ \E i \in Visited(nodes) : treeNext(nodes, i) \notin DOMAIN nodes
<1>1. /\ table' = table /\ page' = page /\ value' = value /\ posts' = posts /\ disturbed' = disturbed
      /\ selected' = selected /\ enabled' = enabled /\ r \in ToSet(table.all)
      /\ event' = [kind |-> "tree", nodes |-> nodes, ended |-> ended]
      /\ drawn' \subseteq drawn \union {<<r, k>> : k \in seen}
  BY TableRows DEF IInv, SelectInTree, unchangedByRows
<1>2. PICK n \in 0..3 : nodes \in [1..n -> Nodes(r)]
  BY DEF NodeSeqs
<1>3. Nodes(r) \in SUBSET Int
  <2>1. r.lines \in Nat
    BY RowsHaveLines
  <2>2. QED
    BY <2>1 DEF Nodes, Other
<1>4. nodes \in Seq(Nodes(r))
  BY <1>2, SeqIsFunction
<1>5. seen \subseteq 0..r.lines - 1
  <2>1. \A i \in Visited(nodes) : nodes[i] \in Nodes(r)
    BY <1>2 DEF Visited
  <2>2. QED
    BY <2>1 DEF Nodes
<1>6. DrawnInv'
  <2>1. {<<r, k>> : k \in seen} \subseteq Over(r)
    BY <1>5 DEF Over
  <2>2. drawn' \subseteq drawn \union Overlays({r})
    BY <1>1, <2>1, OverIsOverlays
  <2>3. {r} \in SUBSET ToSet(table.all)
    BY <1>1
  <2>4. QED
    BY <1>1, <2>2, <2>3, Draws DEF IInv
<1>7. EventInv'
  <2>1. ASSUME \A i \in DOMAIN nodes : nodes[i] # Other => nodes[i] + 1 >= i
        PROVE  ended
    BY <1>3, <1>4, <2>1, LoopLeaves
  <2> HIDE DEF ended
  <2>2. event'.kind = "tree" /\ event'.nodes = nodes /\ event'.ended = ended
    BY <1>1
  <2>3. TreeLoopEnds'
    BY <2>1, <2>2 DEF TreeLoopEnds
  <2>4. OutputInv'
    BY <2>2 DEF OutputInv
  <2>5. QED
    BY <2>3, <2>4 DEF EventInv
<1>8. enabled' \in BOOLEAN /\ SelectInv'
  <2>1. enabled' \in BOOLEAN
    BY <1>1 DEF IInv, Types
  <2>2. SelectInv'
    BY <1>1 DEF IInv, SelectInv, SelectedCanBeOutput
  <2>3. QED
    BY <2>1, <2>2
<1>9. QED
  BY <1>1, <1>6, <1>7, <1>8, SameTable DEF IInv

(* Steps that show other rows of the same table. *)
LEMMA Reshows ==
    ASSUME IInv, NEW all, NEW view, NEW text, NEW at,
           table' = [table EXCEPT !.all = all, !.view = view, !.text = text, !.at = at],
           all \in Seq(AllRows), view \in Seq(AllRows), text \in Texts, at \in Nat,
           IsInjective(all), ToSet(all) = ToSet(table.all), ToSet(view) \subseteq ToSet(all),
           text = "" => view = all, at \in 1..totalPages' \union {1},
           table # NoTable, selected' \subseteq selected,
           event' = NoEvent, drawn' = drawn, enabled' = enabled, unchangedByRows
    PROVE  IInv'
<1>1. /\ page' = page /\ value' = value /\ posts' = posts /\ disturbed' = disturbed
  BY DEF unchangedByRows
<1>2. table \in [file : Files \union {NoFile}, all : Seq(AllRows), view : Seq(AllRows), text : Texts, at : Nat]
  BY DEF IInv, Types
<1>3. /\ table'.file = table.file /\ table'.all = all /\ table'.view = view
      /\ table'.text = text /\ table'.at = at
  BY <1>2
<1>4. table.file \in Files
  BY <1>2 DEF IInv, TableInv
<1>5. Types'
  <2>1. table' \in [file : Files \union {NoFile}, all : Seq(AllRows), view : Seq(AllRows), text : Texts, at : Nat]
    BY <1>2
  <2>2. enabled' \in BOOLEAN /\ disturbed' \in BOOLEAN
    BY <1>1 DEF IInv, Types
  <2>3. QED
    BY <1>1, <2>1, <2>2 DEF IInv, Types, Asks
<1>6. TableInv'
  <2>1. table'.file = NoFile => table' = NoTable
    BY <1>3, <1>4, RowsAssumption
  <2>2. QED
    BY <1>3, <2>1 DEF IInv, TableInv
<1>7. SelectInv'
  BY <1>3 DEF IInv, SelectInv, SelectedCanBeOutput
<1>8. DrawnInv'
  BY <1>1, <1>3 DEF IInv, DrawnInv, DrawnBelongsToTable, Overlays, AllRows, Over
<1>9. FreshInv'
  <2>1. ~disturbed /\ page = "simulate" /\ posts # <<>> => FALSE
    BY DEF IInv, FreshInv
  <2>2. QED
    BY <1>1, <1>3, <2>1 DEF IInv, FreshInv
<1>10. QED
  BY <1>5, <1>6, <1>7, <1>8, <1>9, NoEventInv DEF IInv

LEMMA GoesToPage ==
    ASSUME IInv, NEW n, GotoPage(n)
    PROVE  IInv'
<1>1. n \in 1..totalPages /\ n # table.at /\ table' = [table EXCEPT !.at = n]
  BY DEF GotoPage
<1>2. /\ table.all \in Seq(AllRows) /\ table.view \in Seq(AllRows) /\ table.text \in Texts
      /\ table \in [file : Files \union {NoFile}, all : Seq(AllRows), view : Seq(AllRows), text : Texts, at : Nat]
  BY DEF IInv, Types
<1>3. table # NoTable
  <2>1. SUFFICES ASSUME table = NoTable
                 PROVE  FALSE
    OBVIOUS
  <2>2. Len(table.view) = 0
    BY <2>1, EmptySeq DEF NoTable
  <2>3. PageSize \in Nat /\ PageSize >= 1
    <3>1. PageSize \in Nat \ {0}
      BY RowsAssumption, Zenon
    <3>2. QED
      BY <3>1
  <2>4. totalPages = (PageSize - 1) \div PageSize
    BY <2>2, <2>3 DEF totalPages
  <2>5. (PageSize - 1) \div PageSize = 0
    BY <2>3
  <2>6. QED
    BY <1>1, <2>4, <2>5
<1>4. table' = [table EXCEPT !.all = table.all, !.view = table.view, !.text = table.text, !.at = n]
  BY <1>1, <1>2
<1>5. n \in Nat /\ n \in 1..totalPages' \union {1}
  <2>1. table'.view = table.view
    BY <1>1, <1>2
  <2>2. QED
    BY <1>1, <2>1 DEF totalPages
<1>6. selected' \subseteq selected /\ event' = NoEvent /\ drawn' = drawn /\ enabled' = enabled /\ unchangedByRows
  BY DEF GotoPage, resetRows
<1>7. /\ IsInjective(table.all) /\ ToSet(table.view) \subseteq ToSet(table.all)
      /\ table.text = "" => table.view = table.all
  BY DEF IInv, TableInv
<1>8. QED
  BY <1>2, <1>3, <1>4, <1>5, <1>6, <1>7, Reshows

LEMMA Searches ==
    ASSUME IInv, NEW text \in Texts, onSearch(text)
    PROVE  IInv'
<1>1. /\ table.all \in Seq(AllRows)
      /\ table \in [file : Files \union {NoFile}, all : Seq(AllRows), view : Seq(AllRows), text : Texts, at : Nat]
  BY DEF IInv, Types
<1>2. /\ initSearch(text) \in Seq(AllRows) /\ ToSet(initSearch(text)) \subseteq ToSet(table.all)
      /\ text = "" => initSearch(text) = table.all
  BY <1>1, SearchKeepsRows
<1>3. /\ table # NoTable /\ table' = [table EXCEPT !.text = text, !.view = initSearch(text), !.at = 1]
      /\ selected' \subseteq selected /\ event' = NoEvent /\ drawn' = drawn /\ enabled' = enabled /\ unchangedByRows
  BY DEF onSearch, resetRows
<1> DEFINE all == table.all
           view == initSearch(text)
           at == 1
<1>4. table' = [table EXCEPT !.all = all, !.view = view, !.text = text, !.at = at]
  <2> HIDE DEF view
  <2>1. table' = [table EXCEPT !.text = text, !.view = view, !.at = 1]
    BY <1>3 DEF view
  <2>2. QED
    BY <1>1, <2>1
<1>5. /\ all \in Seq(AllRows) /\ IsInjective(all) /\ ToSet(all) = ToSet(table.all)
      /\ view \in Seq(AllRows) /\ ToSet(view) \subseteq ToSet(all)
      /\ text = "" => view = all
  BY <1>1, <1>2 DEF IInv, TableInv
<1>6. text \in Texts
  OBVIOUS
<1>7. at \in Nat /\ at \in 1..totalPages' \union {1}
  OBVIOUS
<1> HIDE DEF all, view, at
<1>8. QED
  BY <1>1, <1>3, <1>4, <1>5, <1>6, <1>7, Reshows

(* Sorting moves the data as well when nothing is searched. *)
LEMMA Sorts ==
    ASSUME IInv, NEW column, NEW desc, onSort(column, desc)
    PROVE  IInv'
<1>1. /\ table.all \in Seq(AllRows) /\ table.view \in Seq(AllRows) /\ table.text \in Texts /\ table.at \in Nat
      /\ table \in [file : Files \union {NoFile}, all : Seq(AllRows), view : Seq(AllRows), text : Texts, at : Nat]
  BY DEF IInv, Types
<1>2. PICK view \in initSort(table.view, column, desc) :
        table' = [table EXCEPT !.view = view, !.all = IF table.text = "" THEN view ELSE @]
  BY DEF onSort
<1>3. /\ table # NoTable /\ selected' = selected /\ event' = NoEvent /\ drawn' = drawn
      /\ enabled' = enabled /\ unchangedByRows
  BY DEF onSort
<1>4. /\ view \in Seq(AllRows) /\ Len(view) = Len(table.view) /\ ToSet(view) = ToSet(table.view)
      /\ IsInjective(table.view) => IsInjective(view)
  BY <1>1, SortKeepsRows
<1>5. /\ IsInjective(table.all) /\ ToSet(table.view) \subseteq ToSet(table.all)
      /\ table.text = "" => table.view = table.all
      /\ table.at \in 1..totalPages \union {1}
  BY DEF IInv, TableInv
<1> DEFINE all == IF table.text = "" THEN view ELSE table.all
<1>6. all \in Seq(AllRows) /\ IsInjective(all) /\ ToSet(all) = ToSet(table.all) /\ ToSet(view) \subseteq ToSet(all)
  BY <1>1, <1>4, <1>5
<1>7. table.text = "" => view = all
  OBVIOUS
<1>8. table' = [table EXCEPT !.all = all, !.view = view, !.text = table.text, !.at = table.at]
  BY <1>1, <1>2
<1>9. table.at \in 1..totalPages' \union {1}
  <2>1. Len(table'.view) = Len(table.view)
    BY <1>1, <1>2, <1>4
  <2>2. QED
    BY <1>5, <2>1 DEF totalPages
<1> HIDE DEF all
<1>10. QED
  BY <1>1, <1>3, <1>4, <1>6, <1>7, <1>8, <1>9, Reshows

(* Output picks rows of the table and writes them from the value. *)
LEMMA Outputs ==
    ASSUME IInv, do_ouput
    PROVE  IInv'
<1>1. /\ table' = table /\ page' = page /\ value' = value /\ posts' = posts /\ disturbed' = disturbed
      /\ selected' = selected /\ enabled' = enabled /\ drawn' = drawn
  BY DEF do_ouput, unchangedByRows
<1> DEFINE picked == getAllSelections
           written == IF picked = {} \/ value = NoFile THEN <<>> ELSE Written(value, picked)
<1>2. event' = [kind |-> "output", shown |-> table.file, picked |-> picked, from |-> value, written |-> written]
  BY DEF do_ouput
<1>3. EventInv'
  <2>1. picked # {} => table.file \in Files /\ picked \subseteq ToSet(RowsOf[table.file])
    <3>1. picked \subseteq ToSet(table.all)
      BY DEF getAllSelections
    <3>2. picked # {} => table.file \in Files
      BY <3>1, TableRows DEF IInv
    <3>3. QED
      BY <3>1, <3>2 DEF IInv, TableInv
  <2>2. picked # {} => value = table.file \/ disturbed
    <3>1. Files \intersect {NoFile} = {}
      BY RowsAssumption, Zenon
    <3>2. QED
      BY <2>1, <3>1 DEF IInv, FreshInv
  <2>3. value \in Files /\ picked # {} => written = Written(value, picked)
    <3>1. Files \intersect {NoFile} = {}
      BY RowsAssumption, Zenon
    <3>2. QED
      BY <3>1
  <2> HIDE DEF picked, written
  <2>4. /\ event'.kind = "output" /\ event'.shown = table.file /\ event'.picked = picked
        /\ event'.from = value /\ event'.written = written
    BY <1>2
  <2>5. ASSUME event'.picked # {}
        PROVE  /\ event'.shown \in Files /\ event'.picked \subseteq ToSet(RowsOf[event'.shown])
               /\ event'.from \in Files => event'.written = Written(event'.from, event'.picked)
    BY <2>1, <2>3, <2>4, <2>5
  <2>6. ASSUME event'.picked # {}
        PROVE  event'.from = event'.shown \/ disturbed'
    BY <1>1, <2>2, <2>4, <2>6
  <2>7. OutputInv'
    BY <2>5, <2>6 DEF OutputInv
  <2>8. TreeLoopEnds'
    BY <2>4 DEF TreeLoopEnds
  <2>9. QED
    BY <2>7, <2>8 DEF EventInv
<1>4. enabled' \in BOOLEAN /\ SelectInv'
  <2>1. enabled' \in BOOLEAN
    BY <1>1 DEF IInv, Types
  <2>2. SelectInv'
    BY <1>1 DEF IInv, SelectInv, SelectedCanBeOutput
  <2>3. QED
    BY <2>1, <2>2
<1>5. DrawnInv'
  BY <1>1 DEF IInv, DrawnInv, DrawnBelongsToTable, Overlays, AllRows, Over
<1>6. QED
  BY <1>1, <1>3, <1>4, <1>5, SameTable DEF IInv

-----------------------------------------------------------------------------
(* Requests and answers.                                                   *)

(* Taking a request out of those in flight. *)
LEMMA Removed ==
    ASSUME NEW S, NEW s \in Seq(S), NEW i \in DOMAIN s
    PROVE  RemoveAt(s, i) \in Seq(S) /\ Len(RemoveAt(s, i)) = Len(s) - 1
<1> DEFINE n == Len(s)
<1>1. n \in Nat /\ i \in 1..n /\ \A k \in 1..n : s[k] \in S
  BY LenProperties
<1>2. SubSeq(s, 1, i - 1) \in Seq(S) /\ Len(SubSeq(s, 1, i - 1)) = i - 1
  <2>1. \A k \in 1..i - 1 : s[k] \in S
    BY <1>1
  <2>2. 1 \in Int /\ i - 1 \in Int
    BY <1>1
  <2>3. /\ SubSeq(s, 1, i - 1) \in Seq(S)
        /\ Len(SubSeq(s, 1, i - 1)) = IF 1 <= i - 1 THEN (i - 1) - 1 + 1 ELSE 0
    BY <2>1, <2>2, SubSeqProperties
  <2>4. QED
    BY <1>1, <2>3
<1>3. SubSeq(s, i + 1, n) \in Seq(S) /\ Len(SubSeq(s, i + 1, n)) = n - i
  <2>1. \A k \in i + 1..n : s[k] \in S
    BY <1>1
  <2>2. i + 1 \in Int /\ n \in Int
    BY <1>1
  <2>3. /\ SubSeq(s, i + 1, n) \in Seq(S)
        /\ Len(SubSeq(s, i + 1, n)) = IF i + 1 <= n THEN n - (i + 1) + 1 ELSE 0
    BY <2>1, <2>2, SubSeqProperties
  <2>4. QED
    BY <1>1, <2>3
<1> DEFINE before == SubSeq(s, 1, i - 1)
           behind == SubSeq(s, i + 1, n)
<1>4. RemoveAt(s, i) = before \o behind
  BY DEF RemoveAt
<1> HIDE DEF before, behind, n
<1>5. before \o behind \in Seq(S) /\ Len(before \o behind) = Len(before) + Len(behind)
  BY <1>2, <1>3, ConcatProperties DEF before, behind
<1>6. Len(before) + Len(behind) = n - 1
  BY <1>1, <1>2, <1>3 DEF before, behind
<1>7. QED
  BY <1>4, <1>5, <1>6 DEF n

LEMMA NoRequests ==
    ASSUME NEW S, NEW s \in Seq(S), Len(s) = 0
    PROVE  s = <<>>
BY EmptySeq

(* Steps that leave the table, and so what is selected, alone. *)
LEMMA SameRows ==
    ASSUME IInv, page' = page, UNCHANGED <<table, selected, enabled, drawn>>, event' = NoEvent
    PROVE  /\ enabled' \in BOOLEAN /\ TableInv' /\ SelectInv' /\ DrawnInv' /\ EventInv'
           /\ table' \in [file : Files \union {NoFile}, all : Seq(AllRows), view : Seq(AllRows),
                          text : Texts, at : Nat]
<1>1. enabled' \in BOOLEAN
  BY DEF IInv, Types
<1>2. TableInv'
  BY DEF IInv, TableInv, totalPages
<1>3. SelectInv'
  BY DEF IInv, SelectInv, SelectedCanBeOutput
<1>4. DrawnInv'
  BY DEF IInv, DrawnInv, DrawnBelongsToTable, Overlays, AllRows, Over
<1>5. QED
  BY <1>1, <1>2, <1>3, <1>4, NoEventInv DEF IInv, Types

LEMMA SelectsFile ==
    ASSUME IInv, NEW f \in Files, fileSelect(f)
    PROVE  IInv'
<1>1. /\ page = "parse" /\ page' = page /\ value' = f /\ posts' = posts
      /\ table' = table /\ selected' = selected /\ enabled' = enabled /\ drawn' = drawn /\ event' = NoEvent
  BY DEF fileSelect
<1>2. disturbed' = (disturbed \/ posts # <<>> \/ table # NoTable)
  BY DEF fileSelect
<1>3. disturbed' \in BOOLEAN
  BY <1>2
<1>4. Types'
  BY <1>1, <1>3, SameRows DEF IInv, Types, Asks
<1>5. FreshInv'
  <2>1. SUFFICES ASSUME ~disturbed'
                 PROVE  /\ Len(posts') <= 1 /\ (\A i \in DOMAIN posts' : posts'[i].ask = "decode" => posts'[i].file = value')
                        /\ (table'.file # NoFile => table'.file = value')
                        /\ (page' = "simulate" /\ posts' # <<>> => table' = NoTable)
    BY DEF FreshInv
  <2>2. posts = <<>> /\ table = NoTable
    BY <1>2, <2>1
  <2>3. table.file = NoFile
    BY <2>2 DEF NoTable
  <2>4. posts' = <<>> /\ Len(posts') = 0 /\ DOMAIN posts' = {}
    BY <1>1, <2>2
  <2>5. QED
    BY <1>1, <2>3, <2>4
<1>6. QED
  BY <1>1, <1>4, <1>5, SameRows DEF IInv

(* What FreshInv says when one request is in flight and no table is shown. *)
LEMMA OneRequest ==
    ASSUME NEW S, NEW s \in Seq(S), NEW p \in S, s = <<>>
    PROVE  Append(s, p) \in Seq(S) /\ Len(Append(s, p)) = 1 /\ DOMAIN Append(s, p) = {1} /\ Append(s, p)[1] = p
<1>1. Append(s, p) \in Seq(S) /\ Len(Append(s, p)) = 1 /\ Append(s, p)[1] = p
  <2>1. Len(s) = 0
    BY EmptySeq
  <2>2. QED
    BY <2>1, AppendProperties
<1>2. DOMAIN Append(s, p) = 1..1
  BY <1>1, LenProperties
<1>3. QED
  BY <1>1, <1>2

LEMMA PostsDecode ==
    ASSUME IInv, function_to_step2_decode
    PROVE  IInv'
<1> DEFINE p == [ask |-> "decode", file |-> value]
<1>1. /\ page = "parse" /\ page' = page /\ value \in Files /\ value' = value /\ posts' = Append(posts, p)
      /\ table' = table /\ selected' = selected /\ enabled' = enabled /\ drawn' = drawn /\ event' = NoEvent
  BY DEF function_to_step2_decode, IInv, Types
<1>2. disturbed' = (disturbed \/ posts # <<>>)
  BY DEF function_to_step2_decode
<1>3. disturbed' \in BOOLEAN
  BY <1>2
<1>4. posts \in Seq(Asks) /\ p \in Asks /\ Asks' = Asks
  BY <1>1 DEF IInv, Types, Asks
<1>5. p.ask = "decode" /\ p.file = value
  OBVIOUS
<1> HIDE DEF p
<1>6. posts' \in Seq(Asks')
  BY <1>1, <1>4, AppendProperties
<1>7. Types'
  BY <1>1, <1>3, <1>6, SameRows DEF IInv, Types
<1>8. FreshInv'
  <2>1. SUFFICES ASSUME ~disturbed'
                 PROVE  /\ Len(posts') <= 1 /\ (\A i \in DOMAIN posts' : posts'[i].ask = "decode" => posts'[i].file = value')
                        /\ (table'.file # NoFile => table'.file = value')
                        /\ (page' = "simulate" /\ posts' # <<>> => table' = NoTable)
    BY DEF FreshInv
  <2>2. ~disturbed /\ posts = <<>>
    BY <1>2, <2>1
  <2>3. Len(posts') = 1 /\ DOMAIN posts' = {1} /\ posts'[1] = p
    BY <1>1, <1>4, <2>2, OneRequest
  <2>4. QED
    BY <1>1, <1>5, <2>2, <2>3 DEF IInv, FreshInv
<1>9. QED
  BY <1>1, <1>7, <1>8, SameRows DEF IInv

(* A table is destroyed, or a new one is made. *)
LEMMA NoTableInv ==
    ASSUME IInv, destroy, page' = page, page = "simulate", UNCHANGED <<enabled, drawn>>, event' = NoEvent
    PROVE  /\ enabled' \in BOOLEAN /\ TableInv' /\ SelectInv' /\ DrawnInv' /\ EventInv'
           /\ table' \in [file : Files \union {NoFile}, all : Seq(AllRows), view : Seq(AllRows),
                          text : Texts, at : Nat]
<1>1. table' = NoTable /\ selected' = {}
  BY DEF destroy
<1>2. /\ NoTable.file = NoFile /\ NoTable.all = <<>> /\ NoTable.view = <<>> /\ NoTable.text = "" /\ NoTable.at = 1
  BY DEF NoTable
<1>3. ToSet(<<>>) = {} /\ IsInjective(<<>>)
  BY DEF ToSet, IsInjective
<1>4. NoFile \notin Files /\ "" \in Texts
  BY RowsAssumption, Zenon
<1>5. table' \in [file : Files \union {NoFile}, all : Seq(AllRows), view : Seq(AllRows), text : Texts, at : Nat]
  BY <1>1, <1>4, EmptySeq DEF NoTable
<1>6. TableInv'
  BY <1>1, <1>2, <1>3, <1>4 DEF TableInv
<1>7. enabled' \in BOOLEAN
  BY DEF IInv, Types
<1>8. SelectInv'
  BY <1>1 DEF SelectInv, SelectedCanBeOutput
<1>9. DrawnInv'
  BY DEF IInv, DrawnInv, DrawnBelongsToTable, Overlays, AllRows, Over
<1>10. QED
  BY <1>5, <1>6, <1>7, <1>8, <1>9, NoEventInv

LEMMA AsksForBytes ==
    ASSUME IInv, getMessage
    PROVE  IInv'
<1> DEFINE p == [ask |-> "bytes", file |-> NoFile]
<1>1. /\ page = "simulate" /\ page' = page /\ value' = value /\ posts' = Append(posts, p) /\ destroy
      /\ enabled' = enabled /\ drawn' = drawn /\ event' = NoEvent
  BY DEF getMessage
<1>2. disturbed' = (posts # <<>>)
  BY DEF getMessage
<1>3. disturbed' \in BOOLEAN
  BY <1>2
<1>4. posts \in Seq(Asks) /\ p \in Asks /\ Asks' = Asks
  BY <1>1 DEF IInv, Types, Asks
<1>5. p.ask = "bytes"
  OBVIOUS
<1> HIDE DEF p
<1>6. posts' \in Seq(Asks')
  BY <1>1, <1>4, AppendProperties
<1>7. Types'
  BY <1>1, <1>3, <1>6, NoTableInv DEF IInv, Types
<1>8. FreshInv'
  <2>1. SUFFICES ASSUME ~disturbed'
                 PROVE  /\ Len(posts') <= 1 /\ (\A i \in DOMAIN posts' : posts'[i].ask = "decode" => posts'[i].file = value')
                        /\ (table'.file # NoFile => table'.file = value')
                        /\ (page' = "simulate" /\ posts' # <<>> => table' = NoTable)
    BY DEF FreshInv
  <2>2. posts = <<>>
    BY <1>2, <2>1
  <2>3. Len(posts') = 1 /\ DOMAIN posts' = {1} /\ posts'[1] = p
    BY <1>1, <1>4, <2>2, OneRequest
  <2>4. table' = NoTable /\ NoTable.file = NoFile
    BY <1>1 DEF destroy, NoTable
  <2>5. QED
    BY <1>5, <2>3, <2>4
<1>9. QED
  BY <1>1, <1>7, <1>8, NoTableInv DEF IInv

(* While nothing overlapped, a request that is answered was the only one. *)
LEMMA OnlyRequest ==
    ASSUME IInv, NEW i \in DOMAIN posts, ~disturbed
    PROVE  RemoveAt(posts, i) = <<>>
<1>1. posts \in Seq(Asks)
  BY DEF IInv, Types
<1>2. Len(posts) <= 1 /\ Len(posts) \in Nat /\ i \in 1..Len(posts)
  BY <1>1, LenProperties DEF IInv, FreshInv
<1>3. RemoveAt(posts, i) \in Seq(Asks) /\ Len(RemoveAt(posts, i)) = Len(posts) - 1
  BY <1>1, Removed
<1>4. Len(RemoveAt(posts, i)) = 0
  BY <1>2, <1>3
<1>5. QED
  BY <1>3, <1>4, NoRequests

(* A request in flight asks for a decoding or for bytes, the latter on a   *)
(* simulate page only. *)
LEMMA InFlight ==
    ASSUME Types, NEW i \in DOMAIN posts
    PROVE  /\ posts[i] \in Asks /\ RemoveAt(posts, i) \in Seq(Asks)
           /\ posts[i].ask = "decode" => posts[i].file \in Files
           /\ posts[i].ask = "bytes" => page = "simulate"
<1>1. posts \in Seq(Asks)
  BY DEF Types
<1>2. posts[i] \in Asks
  BY <1>1, LenProperties
<1>3. RemoveAt(posts, i) \in Seq(Asks)
  BY <1>1, Removed
<1>4. QED
  BY <1>2, <1>3 DEF Asks

LEMMA Receives ==
    ASSUME IInv, NEW i \in DOMAIN posts, NEW f \in Files, Received(i, f)
    PROVE  IInv'
<1> DEFINE p    == [ask |-> "decode", file |-> f]
           rest == RemoveAt(posts, i)
<1>1. /\ posts[i].ask = "bytes" /\ page' = page /\ value' = f /\ posts' = Append(rest, p)
      /\ table' = table /\ selected' = selected /\ enabled' = enabled /\ drawn' = drawn /\ event' = NoEvent
  BY DEF Received
<1>2. disturbed' = disturbed
  BY DEF Received
<1>3. disturbed' \in BOOLEAN
  BY <1>2 DEF IInv, Types
<1>4. rest \in Seq(Asks) /\ page = "simulate"
  BY <1>1, InFlight DEF IInv
<1>5. p \in Asks /\ Asks' = Asks /\ p.ask = "decode" /\ p.file = f
  BY <1>1 DEF Asks
<1> HIDE DEF p
<1>6. ~disturbed => rest = <<>>
  BY OnlyRequest
<1> HIDE DEF rest
<1>7. posts' \in Seq(Asks')
  BY <1>1, <1>4, <1>5, AppendProperties
<1>8. Types'
  BY <1>1, <1>3, <1>7, SameRows DEF IInv, Types
<1>9. FreshInv'
  <2>1. SUFFICES ASSUME ~disturbed'
                 PROVE  /\ Len(posts') <= 1 /\ (\A k \in DOMAIN posts' : posts'[k].ask = "decode" => posts'[k].file = value')
                        /\ (table'.file # NoFile => table'.file = value')
                        /\ (page' = "simulate" /\ posts' # <<>> => table' = NoTable)
    BY DEF FreshInv
  <2>2. rest = <<>>
    BY <1>2, <1>6, <2>1
  <2>3. Len(posts') = 1 /\ DOMAIN posts' = {1} /\ posts'[1] = p
    BY <1>1, <1>4, <1>5, <2>2, OneRequest
  <2>4. posts # <<>>
    OBVIOUS
  <2>5. table = NoTable /\ NoTable.file = NoFile
    BY <1>2, <1>4, <2>1, <2>4 DEF IInv, FreshInv, NoTable
  <2>6. QED
    BY <1>1, <1>5, <2>3, <2>5
<1>10. QED
  BY <1>1, <1>8, <1>9, SameRows DEF IInv

LEMMA Failing ==
    ASSUME IInv, NEW i \in DOMAIN posts, Fails(i)
    PROVE  IInv'
<1> DEFINE rest == RemoveAt(posts, i)
<1>1. /\ page' = page /\ value' = value /\ posts' = rest
      /\ table' = table /\ selected' = selected /\ enabled' = enabled /\ drawn' = drawn /\ event' = NoEvent
  BY DEF Fails
<1>2. disturbed' = disturbed
  BY DEF Fails
<1>3. disturbed' \in BOOLEAN
  BY <1>2 DEF IInv, Types
<1>4. rest \in Seq(Asks) /\ Asks' = Asks
  BY <1>1, InFlight DEF IInv, Asks
<1>5. ~disturbed => rest = <<>>
  BY OnlyRequest
<1> HIDE DEF rest
<1>6. Types'
  BY <1>1, <1>3, <1>4, SameRows DEF IInv, Types
<1>7. FreshInv'
  <2>1. SUFFICES ASSUME ~disturbed'
                 PROVE  /\ Len(posts') <= 1 /\ (\A k \in DOMAIN posts' : posts'[k].ask = "decode" => posts'[k].file = value')
                        /\ (table'.file # NoFile => table'.file = value')
                        /\ (page' = "simulate" /\ posts' # <<>> => table' = NoTable)
    BY DEF FreshInv
  <2>2. posts' = <<>> /\ ~disturbed
    BY <1>1, <1>2, <1>5, <2>1
  <2>3. Len(posts') = 0 /\ DOMAIN posts' = {}
    BY <2>2, EmptySeq
  <2>4. table'.file # NoFile => table'.file = value'
    BY <1>1, <2>2 DEF IInv, FreshInv
  <2>5. QED
    BY <2>2, <2>3, <2>4
<1>8. QED
  BY <1>1, <1>6, <1>7, SameRows DEF IInv

(* The answer to a decoding: a new table of the payload that was asked     *)
(* for, nothing selected, and a new map on a parse page. *)
LEMMA Decodes ==
    ASSUME IInv, NEW i \in DOMAIN posts, Decoded(i)
    PROVE  IInv'
<1> DEFINE f    == posts[i].file
           rest == RemoveAt(posts, i)
<1>1. /\ posts[i].ask = "decode" /\ page' = page /\ value' = value /\ posts' = rest /\ selected' = {}
      /\ enabled' = enabled /\ event' = NoEvent /\ showMap
  BY DEF Decoded, show_intable
<1>2. disturbed' = disturbed
  BY DEF Decoded
<1> DEFINE column == "messageid"
           desc   == TRUE
<1>3. PICK rows \in initSort(RowsOf[f], column, desc) :
        table' = [NoTable EXCEPT !.file = f, !.all = rows, !.view = rows]
  BY DEF Decoded, show_intable
<1>4. f \in Files /\ rest \in Seq(Asks) /\ Asks' = Asks
  BY <1>1, InFlight DEF IInv, Asks
<1>5. ~disturbed => rest = <<>> /\ f = value
  <2>1. ~disturbed => rest = <<>>
    BY OnlyRequest
  <2>2. ~disturbed => f = value
    BY <1>1 DEF IInv, FreshInv
  <2>3. QED
    BY <2>1, <2>2
<1> HIDE DEF f, rest, column, desc
<1>6. rows \in Seq(AllRows) /\ ToSet(rows) = ToSet(RowsOf[f]) /\ IsInjective(rows)
  <2>1. RowsOf[f] \in Seq(AllRows) /\ IsInjective(RowsOf[f])
    BY <1>4, Payload
  <2>2. QED
    BY <1>3, <2>1, SortKeepsRows
<1>7. /\ table' = [file |-> f, all |-> rows, view |-> rows, text |-> "", at |-> 1]
      /\ table'.file = f /\ table'.all = rows /\ table'.view = rows /\ table'.text = "" /\ table'.at = 1
  BY <1>3 DEF NoTable
<1>8. NoFile \notin Files /\ "" \in Texts
  BY RowsAssumption, Zenon
<1>9. Types'
  <2>1. table' \in [file : Files \union {NoFile}, all : Seq(AllRows), view : Seq(AllRows), text : Texts, at : Nat]
    BY <1>4, <1>6, <1>7, <1>8
  <2>2. enabled' \in BOOLEAN /\ disturbed' \in BOOLEAN
    BY <1>1, <1>2 DEF IInv, Types
  <2>3. QED
    BY <1>1, <1>4, <2>1, <2>2 DEF IInv, Types
<1>10. TableInv'
  BY <1>4, <1>6, <1>7, <1>8 DEF TableInv
<1>11. SelectInv'
  BY <1>1 DEF SelectInv, SelectedCanBeOutput
<1>12. DrawnInv'
  <2>1. CASE page = "parse"
    <3>1. drawn' = {}
      BY <1>1, <2>1 DEF showMap
    <3>2. QED
      BY <3>1 DEF DrawnInv, DrawnBelongsToTable
  <2>2. CASE page # "parse"
    <3>1. drawn' = drawn
      BY <1>1, <2>2 DEF showMap
    <3>2. QED
      BY <1>1, <2>2, <3>1 DEF IInv, DrawnInv, DrawnBelongsToTable, Overlays, AllRows, Over
  <2>3. QED
    BY <2>1, <2>2
<1>13. FreshInv'
  <2>1. SUFFICES ASSUME ~disturbed'
                 PROVE  /\ Len(posts') <= 1 /\ (\A k \in DOMAIN posts' : posts'[k].ask = "decode" => posts'[k].file = value')
                        /\ (table'.file # NoFile => table'.file = value')
                        /\ (page' = "simulate" /\ posts' # <<>> => table' = NoTable)
    BY DEF FreshInv
  <2>2. posts' = <<>> /\ f = value
    BY <1>1, <1>2, <1>5, <2>1
  <2>3. Len(posts') = 0 /\ DOMAIN posts' = {}
    BY <2>2, EmptySeq
  <2>4. table'.file = value'
    BY <1>1, <1>7, <2>2
  <2>5. QED
    BY <2>2, <2>3, <2>4
<1>14. QED
  BY <1>1, <1>9, <1>10, <1>11, <1>12, <1>13, NoEventInv DEF IInv

-----------------------------------------------------------------------------
(* The theorems.                                                           *)

LEMMA InitInv == Init => IInv
<1> SUFFICES ASSUME Init
             PROVE  IInv
  OBVIOUS
<1>1. /\ page \in {"parse", "simulate"} /\ value = NoFile /\ posts = <<>> /\ table = NoTable
      /\ selected = {} /\ drawn = {} /\ event = NoEvent
  BY DEF Init
<1>2. enabled \in BOOLEAN /\ disturbed \in BOOLEAN
  BY DEF Init
<1>3. /\ NoTable.file = NoFile /\ NoTable.all = <<>> /\ NoTable.view = <<>> /\ NoTable.text = "" /\ NoTable.at = 1
  BY DEF NoTable
<1>4. ToSet(<<>>) = {} /\ IsInjective(<<>>)
  BY DEF ToSet, IsInjective
<1>5. NoFile \notin Files /\ "" \in Texts
  BY RowsAssumption, Zenon
<1>6. Types
  <2>1. table \in [file : Files \union {NoFile}, all : Seq(AllRows), view : Seq(AllRows), text : Texts, at : Nat]
    BY <1>1, <1>5, EmptySeq DEF NoTable
  <2>2. posts \in Seq(Asks)
    BY <1>1, EmptySeq
  <2>3. QED
    BY <1>1, <1>2, <2>1, <2>2 DEF Types
<1>7. TableInv
  BY <1>1, <1>3, <1>4, <1>5 DEF TableInv
<1>8. SelectInv
  BY <1>1 DEF SelectInv, SelectedCanBeOutput
<1>9. DrawnInv
  BY <1>1 DEF DrawnInv, DrawnBelongsToTable
<1>10. FreshInv
  <2>1. Len(posts) = 0 /\ DOMAIN posts = {}
    BY <1>1
  <2>2. table.file = NoFile
    BY <1>1, <1>3
  <2>3. QED
    BY <1>1, <2>1, <2>2 DEF FreshInv
<1>11. EventInv
  BY <1>1 DEF EventInv, OutputInv, TreeLoopEnds, NoEvent
<1>12. QED
  BY <1>6, <1>7, <1>8, <1>9, <1>10, <1>11 DEF IInv

LEMMA StutterInv == IInv /\ UNCHANGED vars => IInv'
<1> SUFFICES ASSUME IInv, UNCHANGED vars
             PROVE  IInv'
  OBVIOUS
<1>1. /\ table' = table /\ page' = page /\ value' = value /\ posts' = posts /\ disturbed' = disturbed
      /\ selected' = selected /\ enabled' = enabled /\ drawn' = drawn /\ event' = event
  BY DEF vars
<1>2. enabled' \in BOOLEAN /\ SelectInv'
  <2>1. enabled' \in BOOLEAN
    BY <1>1 DEF IInv, Types
  <2>2. SelectInv'
    BY <1>1 DEF IInv, SelectInv, SelectedCanBeOutput
  <2>3. QED
    BY <2>1, <2>2
<1>3. DrawnInv'
  BY <1>1 DEF IInv, DrawnInv, DrawnBelongsToTable, Overlays, AllRows, Over
<1>4. EventInv'
  BY <1>1 DEF IInv, EventInv, OutputInv, TreeLoopEnds, Written
<1>5. QED
  BY <1>1, <1>2, <1>3, <1>4, SameTable DEF IInv

LEMMA NextInv == IInv /\ [Next]_vars => IInv'
<1> SUFFICES ASSUME IInv, [Next]_vars
             PROVE  IInv'
  OBVIOUS
<1>1. ASSUME NEW r \in AllRows, Check(r)
      PROVE  IInv'
  BY <1>1, Checks
<1>2. ASSUME NEW r \in AllRows, Uncheck(r)
      PROVE  IInv'
  BY <1>2, Unchecks
<1>3. ASSUME NEW r \in AllRows, NEW nodes \in NodeSeqs[r], SelectInTree(r, nodes)
      PROVE  IInv'
  BY <1>3, SelectsInTree
<1>4. CASE CheckAll
  BY <1>4, ChecksAll
<1>5. CASE UncheckAll
  BY <1>5, UnchecksAll
<1>6. CASE SelectPoint
  BY <1>6, SelectsPoint
<1>7. CASE do_ouput
  BY <1>7, Outputs
<1>8. ASSUME NEW n \in 1..Cardinality(AllRows), GotoPage(n)
      PROVE  IInv'
  BY <1>8, GoesToPage
<1>9. ASSUME NEW text \in Texts, onSearch(text)
      PROVE  IInv'
  BY <1>9, Searches
<1>10. ASSUME NEW column \in {"messageid", "datatype"}, NEW desc \in BOOLEAN, onSort(column, desc)
       PROVE  IInv'
  BY <1>10, Sorts
<1>11. ASSUME NEW f \in Files, fileSelect(f)
       PROVE  IInv'
  BY <1>11, SelectsFile
<1>12. CASE function_to_step2_decode
  BY <1>12, PostsDecode
<1>13. CASE getMessage
  BY <1>13, AsksForBytes
<1>14. ASSUME NEW i \in DOMAIN posts, Decoded(i)
       PROVE  IInv'
  BY <1>14, Decodes
<1>15. ASSUME NEW i \in DOMAIN posts, Fails(i)
       PROVE  IInv'
  BY <1>15, Failing
<1>16. ASSUME NEW i \in DOMAIN posts, NEW f \in Files, Received(i, f)
       PROVE  IInv'
  BY <1>16, Receives
<1>17. CASE UNCHANGED vars
  BY <1>17, StutterInv
<1>18. QED
  BY <1>1, <1>2, <1>3, <1>4, <1>5, <1>6, <1>7, <1>8, <1>9, <1>10, <1>11, <1>12, <1>13,
     <1>14, <1>15, <1>16, <1>17 DEF Next

THEOREM InductiveInvariant == Spec => []IInv
BY InitInv, NextInv, PTL DEF Spec

LEMMA InvIsTyped == IInv => TypeOK
BY DEF IInv, Types, TableInv, SelectInv, DrawnInv, TypeOK, Overlays

(* What is selected, shown and drawn always belongs to the rows the table  *)
(* has, through sorting, searching and paging of any table.                *)
THEOREM TypeCorrect == Spec => []TypeOK
BY InductiveInvariant, InvIsTyped, PTL

(* Whatever was checked, hidden by a search or moved to another page, a    *)
(* selected row can be output. *)
THEOREM AlwaysSelectedCanBeOutput == Spec => []SelectedCanBeOutput
<1>1. IInv => SelectedCanBeOutput
  BY DEF IInv, SelectInv
<1>2. QED
  BY <1>1, InductiveInvariant, PTL

(* Output writes the selected messages once and no other if and only if no *)
(* message has the id of a selected one. *)
THEOREM AlwaysOutputIsSelection == Spec => []OutputIsSelection
<1>1. IInv => OutputIsSelection
  <2>1. SUFFICES ASSUME IInv, event.kind = "output", event.picked # {}, event.from = event.shown
                 PROVE  (\A r \in event.picked, m \in ToSet(RowsOf[event.from]) : r.id = m.id => r = m)
                        <=> \A m \in ToSet(RowsOf[event.from]) :
                                event.written[m] = IF m \in event.picked THEN 1 ELSE 0
    BY DEF OutputIsSelection
  <2>2. /\ event.from \in Files /\ event.picked \in SUBSET ToSet(RowsOf[event.from])
        /\ event.written = Written(event.from, event.picked)
    BY <2>1 DEF IInv, EventInv, OutputInv
  <2>3. QED
    BY <2>2, OutputWrites
<1>2. QED
  BY <1>1, InductiveInvariant, PTL

(* Output takes the bytes of the table unless requests overlapped or the   *)
(* file was changed under the table. *)
THEOREM AlwaysOutputFromShownData == Spec => []OutputFromShownData
<1>1. IInv => OutputFromShownData
  BY DEF IInv, EventInv, OutputInv, OutputFromShownData
<1>2. QED
  BY <1>1, InductiveInvariant, PTL

(* What is drawn on a parse page belongs to the rows of the table. *)
THEOREM AlwaysDrawnBelongsToTable == Spec => []DrawnBelongsToTable
<1>1. IInv => DrawnBelongsToTable
  BY DEF IInv, DrawnInv
<1>2. QED
  BY <1>1, InductiveInvariant, PTL

(* The loop over a tree's nodes ends for every selection in which no       *)
(* section stands further behind than its number plus one.                 *)
THEOREM AlwaysTreeLoopEnds == Spec => []TreeLoopEnds
<1>1. IInv => TreeLoopEnds
  BY DEF IInv, EventInv
<1>2. QED
  BY <1>1, InductiveInvariant, PTL
=============================================================================
