------------------------------ MODULE RoadOrder ------------------------------
(***************************************************************************)
(* NRoadLoader.getSortedLPMap for one group of location points, called by  *)
(* execute once per direction: find the first point, walk along prevPt,    *)
(* and list the points in driving order.                                   *)
(*                                                                         *)
(* The road that the file describes has points 1..size in driving order,   *)
(* each linked to its neighbours, in a ring if it is a loop; the table may *)
(* hold only some of them (a table that is being loaded, a load that was   *)
(* aborted, a neighbour that belongs to another group).  Groups do not     *)
(* interact, so one is modelled.                                           *)
(***************************************************************************)
EXTENDS Naturals, Sequences, FiniteSets, SequencesExt

CONSTANT MaxPoints

ASSUME MaxPointsAssumption == MaxPoints \in Nat \ {0}

VARIABLES
    size, ring,     \* the road of the file
    order,          \* the rows in the table, in the map's iteration order
    pc,
    posDir,         \* the direction being sorted
    oriHead,        \* the first point, in groupFirstLPMap; 0 if there is none yet
    isLoopRoad,
    head,
    sortedList,
    roads           \* the point list of each direction, keyed by posDir

input == <<size, ring, order>>
vars  == <<input, pc, posDir, oriHead, isLoopRoad, head, sortedList, roads>>

lpMap == Range(order)

nextPt(i) == IF i < size THEN i + 1 ELSE IF ring THEN 1 ELSE 0
prevPt(i) == IF i > 1 THEN i - 1 ELSE IF ring THEN size ELSE 0

Init == /\ size \in 1..MaxPoints
        /\ ring \in BOOLEAN
        /\ \E some \in (SUBSET (1..size)) \ {{}} : order \in SetToSeqs(some)
        /\ pc = "group"
        /\ posDir = TRUE
        /\ oriHead = 0
        /\ isLoopRoad = FALSE
        /\ head = 0
        /\ sortedList = <<>>
        /\ roads = [d \in BOOLEAN |-> <<>>]

(* The pass that groups the rows keeps the point that has no next one.     *)
Group == /\ pc = "group"
         /\ \/ \E i \in lpMap : nextPt(i) = 0 /\ oriHead' = i
            \/ (\A i \in lpMap : nextPt(i) # 0) /\ oriHead' = 0
         /\ isLoopRoad' = FALSE
         /\ pc' = "first"
         /\ UNCHANGED <<input, posDir, head, sortedList, roads>>

(* getPosDirFirstLP: the first row, in map order, whose next point is not  *)
(* in the map; if there is none the road is a loop, and any row will do.   *)
Ends(i) == nextPt(i) = 0 \/ nextPt(i) \notin lpMap
FirstEnd(i) == \E k \in DOMAIN order : /\ i = order[k] /\ Ends(i)
                                       /\ \A j \in 1..(k - 1) : ~Ends(order[j])

(* Mutant: the row whose previous point is not in the map. *)
PosDirFirstByPrev ==
    /\ pc = "first"
    /\ LET ends == SelectSeq(order, LAMBDA i : prevPt(i) \notin lpMap)
       IN /\ oriHead' = IF oriHead # 0 THEN oriHead
                        ELSE IF ends # <<>> THEN Head(ends) ELSE Head(order)
          /\ isLoopRoad' = (oriHead = 0 /\ ends = <<>>)
    /\ head' = oriHead' /\ sortedList' = <<oriHead'>>
    /\ pc' = "walk"
    /\ UNCHANGED <<input, posDir, roads>>

PosDirFirst ==
    /\ pc = "first"
    /\ \/ /\ oriHead # 0 /\ UNCHANGED <<oriHead, isLoopRoad>>
       \/ /\ oriHead = 0
          /\ \E i \in lpMap : FirstEnd(i) /\ oriHead' = i
          /\ UNCHANGED isLoopRoad
       \/ /\ oriHead = 0 /\ \A i \in lpMap : ~Ends(i)
          /\ oriHead' = Head(order) /\ isLoopRoad' = TRUE
    /\ head' = oriHead' /\ sortedList' = <<oriHead'>>
    /\ pc' = "walk"
    /\ UNCHANGED <<input, posDir, roads>>

(* Mutants of Walk: the loop is not stopped at the first point; both       *)
(* directions insert at the front.                                         *)
WalkOn ==
    /\ pc = "walk"
    /\ prevPt(head) # 0 /\ prevPt(head) \in lpMap
    /\ head' = prevPt(head)
    /\ sortedList' = IF Len(sortedList) > MaxPoints THEN sortedList
                     ELSE IF posDir THEN <<prevPt(head)>> \o sortedList
                                    ELSE Append(sortedList, prevPt(head))
    /\ UNCHANGED <<input, pc, posDir, oriHead, isLoopRoad, roads>>

WalkInFront ==
    /\ pc = "walk"
    /\ prevPt(head) # 0 /\ prevPt(head) # oriHead /\ prevPt(head) \in lpMap
    /\ head' = prevPt(head)
    /\ sortedList' = <<prevPt(head)>> \o sortedList
    /\ UNCHANGED <<input, pc, posDir, oriHead, isLoopRoad, roads>>

Walk == /\ pc = "walk"
        /\ prevPt(head) # 0 /\ prevPt(head) # oriHead
        /\ prevPt(head) \in lpMap
        /\ head' = prevPt(head)
        /\ sortedList' = IF posDir THEN <<prevPt(head)>> \o sortedList
                                   ELSE Append(sortedList, prevPt(head))
        /\ UNCHANGED <<input, pc, posDir, oriHead, isLoopRoad, roads>>

(* The walk is over: a loop gets its first entry twice, the road is put    *)
(* under its message id, and execute goes on with the other direction or   *)
(* with the city.                                                          *)
PutRoad ==
    /\ pc = "walk"
    /\ prevPt(head) \in {0, oriHead} \/ prevPt(head) \notin lpMap
    /\ roads' = [roads EXCEPT ![posDir] =
                    IF isLoopRoad THEN <<Head(sortedList)>> \o sortedList ELSE sortedList]
    /\ posDir' = FALSE
    /\ oriHead' = 0
    /\ pc' = IF posDir THEN "group" ELSE "clean"
    /\ UNCHANGED <<input, isLoopRoad, head, sortedList>>

(* execute looks at every road.  For a single point it calls               *)
(* roads.remove(road), with the value where the map wants the key, which   *)
(* removes nothing.                                                        *)
CleanRoads == /\ pc = "clean"
              /\ pc' = "done"
              /\ UNCHANGED <<input, posDir, oriHead, isLoopRoad, head, sortedList, roads>>

Next == Group \/ PosDirFirst \/ Walk \/ PutRoad \/ CleanRoads

Spec == Init /\ [][Next]_vars

(* One thread runs the method to its end. *)
FairSpec == Spec /\ WF_vars(Next)

-----------------------------------------------------------------------------
(* Properties.                                                             *)

(* The range of every variable; no list outgrows the road. *)
TypeOK ==
    /\ size \in 1..MaxPoints /\ ring \in BOOLEAN
    /\ order \in Seq(1..size)
    /\ pc \in {"group", "first", "walk", "clean", "done"}
    /\ posDir \in BOOLEAN /\ isLoopRoad \in BOOLEAN
    /\ oriHead \in 0..size /\ head \in 0..size
    /\ sortedList \in Seq(1..size) /\ Len(sortedList) <= size
    /\ roads \in [BOOLEAN -> Seq(1..size)]

(* The points from a to b in driving order, around the ring if need be.    *)
Stretch(a, b) ==
    IF a <= b THEN [k \in 1..(b - a + 1) |-> a + k - 1]
    ELSE [k \in 1..(size - a + 1 + b) |-> IF a + k - 1 <= size THEN a + k - 1
                                                                ELSE a + k - 1 - size]

(* The forward road is a stretch of the file's road without a gap, and it  *)
(* cannot be made longer: what the table has before and after it belongs   *)
(* to it.  It is the stretch at the road's end if the table has that end.  *)
(* A complete loop starts anywhere, with its first point doubled.          *)
ForwardIsStretch ==
    pc = "done" =>
        LET fwd == roads[TRUE] IN
        IF ring /\ lpMap = 1..size
        THEN \E a \in 1..size :
                fwd = <<a>> \o Stretch(a, IF a = 1 THEN size ELSE a - 1)
        ELSE \E a, b \in lpMap :
                /\ fwd = Stretch(a, b)
                /\ Range(fwd) \subseteq lpMap
                /\ prevPt(a) \notin lpMap /\ nextPt(b) \notin lpMap
                /\ ~ring /\ size \in lpMap => b = size

(* The backward road has the same points in the opposite order; only the   *)
(* doubled point of a loop stays in front.                                 *)
BackwardMirrors ==
    pc = "done" =>
        IF ring /\ lpMap = 1..size
        THEN Tail(roads[FALSE]) = Reverse(Tail(roads[TRUE]))
        ELSE roads[FALSE] = Reverse(roads[TRUE])

(* The walk ends, on a loop too. *)
SortingEnds == <>(pc = "done")

(* "Delete the roads that have one point only": no such road is in a city. *)
NoSinglePointRoad == pc = "done" => \A d \in BOOLEAN : Len(roads[d]) # 1
=============================================================================
