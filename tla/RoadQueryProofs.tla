-------------------------- MODULE RoadQueryProofs --------------------------
(***************************************************************************)
(* Proofs about RoadQuery, for any clients, versions, maps, circles and    *)
(* keys: all casts of tables succeed but those of admin.all, where only an *)
(* RTable is published; an answer marks its own circle and nothing else,   *)
(* because no two clients write to one road; the cache holds whole roads,  *)
(* and keeps them.                                                         *)
(***************************************************************************)
EXTENDS RoadQuery, TLAPS

-----------------------------------------------------------------------------
(* The inductive invariant.                                                *)

Cached(t, m) == <<t, "cached", m>>
Copy(t, m)   == <<t, "result", m>>

Requests == [lp : Versions, map : Maps, circle : Circles]
Objects  == [lp : Versions \cup {None}, map : Maps \cup {None},
             items : SUBSET Locs, inOverlay : SUBSET Locs]

(* Whatever is published under a key was made by the parser of that key. *)
TablesParsed ==
    /\ parserList # None =>
         parserList \subseteq {<<k, ParserOf(k)>> : k \in SysKeys} \cap (SysKeys \X Kinds)
    /\ fileMap \in [SysKeys -> Kinds \cup {None}]
    /\ \A k \in SysKeys : fileMap[k] \in {ParserOf(k), None}

(* The ranges of the clients' locals, which depend on where they are. *)
LocalsTyped ==
    /\ pc \in [Clients -> {"idle", "point", "road", "build", "clone", "mark", "answer"}]
    /\ req \in [Clients -> Requests \cup {None}]
    /\ tables \in [Clients -> SUBSET SysKeys]
    /\ todo \in [Clients -> SUBSET Locs]
    /\ now \in [Clients -> (Locs \X Msgs) \cup {None}]
    /\ \A t \in Clients :
          /\ pc[t] # "idle" => req[t] \in Requests /\ todo[t] \subseteq req[t].circle
          /\ pc[t] \in {"road", "build", "clone", "mark"} => now[t] \in Locs \X Msgs

(* The point a client is at is one of its circle, in the group it asks for. *)
AtPoint ==
    \A t \in Clients :
        /\ pc[t] # "idle" => \A l \in todo[t] : Points[req[t].lp][l] # None
        /\ pc[t] \in {"road", "build", "clone", "mark"} =>
              Loc(t) \in InCircle(t, Msg(t)[1]) \ todo[t]

(* A road object is written by the client in its name only: what is in the *)
(* cache was built for it, and what is in an answer was copied for it.     *)
OwnRoads ==
    /\ heap \in [Refs -> Objects]
    /\ \A r \in Refs : heap[r].inOverlay \subseteq heap[r].items
    /\ cacheRoad \in [Msgs -> Refs \cup {None}]
    /\ \A m \in Msgs : cacheRoad[m] # None => \E t \in Clients : cacheRoad[m] = Cached(t, m)
    /\ result \in [Clients -> [Msgs -> Refs \cup {None}]]
    /\ \A t \in Clients, m \in Msgs : result[t][m] \in {Copy(t, m), None}

(* What the place of a client says about the two maps. *)
Places ==
    \A t \in Clients :
        /\ pc[t] = "build" => result[t][Msg(t)] = None /\ cacheRoad[Msg(t)] # Cached(t, Msg(t))
        /\ pc[t] = "clone" => result[t][Msg(t)] = None /\ cacheRoad[Msg(t)] # None
        /\ pc[t] = "mark" => result[t][Msg(t)] # None

(* A road being built has points of its city only, and no marks. *)
Unfinished ==
    \A t \in Clients :
        pc[t] = "build" =>
            LET road == heap[Cached(t, Msg(t))] IN
            /\ road.lp = req[t].lp
            /\ road.items \subseteq CityRoad(t)
            /\ road.inOverlay = {}

(* The points whose mark has been set, or tried, in a message's road. *)
Marked(t, m) ==
    {l \in InCircle(t, m[1]) \ todo[t] :
        pc[t] \in {"point", "answer"} \/ l # Loc(t) \/ (m[2] = "pos" /\ Msg(t)[2] = "neg")}

(* An answer has a road as soon as a point of its group has been reached,  *)
(* and the marks in it are those of the points gone through.               *)
MarksOf(t, m) ==
    /\ (result[t][m] # None) <=> (Marked(t, m) # {} \/ (pc[t] = "mark" /\ m = Msg(t)))
    /\ result[t][m] # None =>
         heap[Copy(t, m)].inOverlay = Marked(t, m) \cap heap[Copy(t, m)].items

MarksSoFar == \A t \in Clients, m \in Msgs : pc[t] # "idle" => MarksOf(t, m)

(* A call begins with an empty answer, and ends when no point is left. *)
EndsOfCall ==
    \A t \in Clients : /\ pc[t] = "idle" => result[t] = NoResult
                       /\ pc[t] = "answer" => todo[t] = {}

IInv == /\ TablesParsed
        /\ LocalsTyped
        /\ AtPoint
        /\ OwnRoads
        /\ Places
        /\ Unfinished
        /\ CachedRoadIsWhole
        /\ MarksSoFar
        /\ EndsOfCall

-----------------------------------------------------------------------------
(* The prefixes with the dot behind them, read off the parts of a key. *)
LEMMA PrefixOfKey ==
    ASSUME NEW k \in SysKeys
    PROVE  /\ Prefixed(<<"lp">>, k) <=> Len(k) > 1 /\ k[1] = "lp"
           /\ Prefixed(<<"mt">>, k) <=> Len(k) > 1 /\ k[1] = "mt"
           /\ Prefixed(<<"ct">>, k) <=> Len(k) > 1 /\ k[1] = "ct"
           /\ Prefixed(<<"map">>, k) <=> Len(k) > 1 /\ k[1] = "map"
           /\ Prefixed(<<"admin">>, k) <=> Len(k) > 1 /\ k[1] = "admin"
           /\ Prefixed(<<"map", "n">>, k) <=> Len(k) > 2 /\ k[1] = "map" /\ k[2] = "n"
<1>1. k \in Seq(STRING) /\ Len(k) >= 1
  BY KeysAssumption
<1>2. /\ IsPrefix(<<"lp">>, k) <=> k[1] = "lp"
      /\ IsPrefix(<<"mt">>, k) <=> k[1] = "mt"
      /\ IsPrefix(<<"ct">>, k) <=> k[1] = "ct"
      /\ IsPrefix(<<"map">>, k) <=> k[1] = "map"
      /\ IsPrefix(<<"admin">>, k) <=> k[1] = "admin"
  BY <1>1 DEF IsPrefix
<1>3. Len(k) > 2 => (IsPrefix(<<"map", "n">>, k) <=> k[1] = "map" /\ k[2] = "n")
  BY <1>1 DEF IsPrefix
<1>4. QED
  BY <1>1, <1>2, <1>3 DEF Prefixed

(* The prefixes tell the classes apart as the casts do, except admin.all,  *)
(* which is read like a map.                                               *)
LEMMA ParserMakesCast ==
    ASSUME NEW k \in SysKeys
    PROVE  /\ ParserOf(k) \in Kinds \cup {None}
           /\ k # AdminKey => None \in {ParserOf(k), CastOf(k)} \/ ParserOf(k) = CastOf(k)
           /\ k = AdminKey => ParserOf(k) = "RTable"
<1>1. k = AdminKey => Len(k) > 1 /\ k[1] = "admin"
  BY DEF AdminKey
<1>2. ParserOf(k) \in Kinds \cup {None}
  BY PrefixOfKey, SMT DEF ParserOf, Kinds
<1>3. k = AdminKey => ParserOf(k) = "RTable"
  BY PrefixOfKey, <1>1, SMT DEF ParserOf
<1>4. k # AdminKey => None \in {ParserOf(k), CastOf(k)} \/ ParserOf(k) = CastOf(k)
  BY PrefixOfKey, SMT DEF ParserOf, CastOf
<1>5. QED
  BY <1>2, <1>3, <1>4

(* The names of the roads of a client. *)
LEMMA RoadNames ==
    ASSUME NEW t \in Clients, NEW m \in Msgs
    PROVE  /\ Cached(t, m) \in Refs /\ Cached(t, m) # None
           /\ Copy(t, m) \in Refs /\ Copy(t, m) # None
  BY NoneAssumption DEF Cached, Copy, Refs

(* A client at a point: its message, and the road of the city for it. *)
LEMMA AtRoad ==
    ASSUME IInv, NEW t \in Clients, pc[t] \in {"road", "build", "clone", "mark"}
    PROVE  /\ Loc(t) \in Locs /\ Msg(t) \in Msgs
           /\ Msg(t)[1] \in Groups /\ Msg(t)[2] \in {"pos", "neg"}
           /\ req[t] \in Requests /\ CityRoad(t) \subseteq Locs
           /\ Cached(t, Msg(t)) \in Refs /\ Cached(t, Msg(t)) # None
           /\ Copy(t, Msg(t)) \in Refs /\ Copy(t, Msg(t)) # None
<1>1. now[t] \in Locs \X Msgs /\ req[t] \in Requests
  BY DEF IInv, LocalsTyped
<1>2. /\ Loc(t) \in Locs /\ Msg(t) \in Msgs
      /\ Msg(t)[1] \in Groups /\ Msg(t)[2] \in {"pos", "neg"}
  BY <1>1 DEF Loc, Msg, Msgs
<1>3. CityRoad(t) \subseteq Locs
  BY <1>1, <1>2, VersionsAssumption DEF CityRoad, Requests
<1>4. QED
  BY <1>1, <1>2, <1>3, RoadNames

(* What leaving query does to the heap: what a map still holds stays. *)
LEMMA LeaveKeeps ==
    ASSUME IInv, NEW t \in Clients, Leave(t)
    PROVE  /\ heap' \in [Refs -> Objects] /\ cacheRoad' = cacheRoad
           /\ \A m \in Msgs : cacheRoad[m] # None => heap'[cacheRoad[m]] = heap[cacheRoad[m]]
           /\ \A u \in Clients \ {t}, m \in Msgs : /\ heap'[Cached(u, m)] = heap[Cached(u, m)]
                                               /\ heap'[Copy(u, m)] = heap[Copy(u, m)]
           /\ \A r \in Refs : heap'[r] \in {heap[r], NoRoad}
<1>1. NoRoad \in Objects
  BY DEF NoRoad, Objects
<1>2. heap \in [Refs -> Objects] /\ cacheRoad \in [Msgs -> Refs \cup {None}]
  BY DEF IInv, OwnRoads
<1>3. heap' = [r \in Refs |->
                 IF r[1] = t /\ \A m \in Msgs : cacheRoad[m] # r THEN NoRoad ELSE heap[r]]
      /\ cacheRoad' = cacheRoad
  BY DEF Leave
<1>4. \A u \in Clients, m \in Msgs : Cached(u, m)[1] = u /\ Copy(u, m)[1] = u
  BY DEF Cached, Copy
<1>5. QED
  BY <1>1, <1>2, <1>3, <1>4, RoadNames

(* Only the loader publishes. *)
LEMMA TablesStep ==
    ASSUME IInv, [Next]_vars
    PROVE  TablesParsed'
<1> USE DEF IInv, TablesParsed, loaderVars, clientVars
<1>1. CASE ChooseParsers
  BY <1>1, ParserMakesCast DEF ChooseParsers
<1>2. ASSUME NEW k \in SysKeys, Read(k)
      PROVE  TablesParsed'
  BY <1>2 DEF Read
<1>3. ASSUME NEW t \in Clients, NEW v \in Versions, NEW w \in Maps, NEW c \in Circles, Query(t, v, w, c)
      PROVE  TablesParsed'
  BY <1>3 DEF Query
<1>4. ASSUME NEW t \in Clients, NEW l \in Locs, NextPoint(t, l)
      PROVE  TablesParsed'
  BY <1>4 DEF NextPoint, Goto
<1>5. ASSUME NEW t \in Clients, NEW l \in Locs, PutItem(t, l)
      PROVE  TablesParsed'
  BY <1>5 DEF PutItem
<1>6. ASSUME NEW t \in Clients,
                \/ InResult(t) \/ InCache(t) \/ NoCityRoad(t) \/ Build(t)
                \/ NoTable(t) \/ PutRoad(t) \/ CloneRoad(t) \/ MarkItem(t)
                \/ Finish(t) \/ Answer(t)
      PROVE  TablesParsed'
  BY <1>6 DEF InResult, Goto, InCache, NoCityRoad, Leave, Build, NoTable,
     PutRoad, CloneRoad, MarkItem, Finish, Answer
<1>7. CASE UNCHANGED vars
  BY <1>7 DEF vars
<1>8. QED
  BY <1>1, <1>2, <1>3, <1>4, <1>5, <1>6, <1>7 DEF Next, Load, Run

(* The locals keep their ranges. *)
LEMMA LocalsStep ==
    ASSUME IInv, [Next]_vars
    PROVE  LocalsTyped'
<1> USE DEF IInv, LocalsTyped, loaderVars, clientVars
<1>1. CASE Load
  BY <1>1 DEF Load, ChooseParsers, Read
<1>2. ASSUME NEW t \in Clients, NEW v \in Versions, NEW w \in Maps, NEW c \in Circles, Query(t, v, w, c)
      PROVE  LocalsTyped'
  <2>1. c \subseteq Locs
    BY VersionsAssumption
  <2>2. req' = [req EXCEPT ![t] = [lp |-> v, map |-> w, circle |-> c]]
        /\ [lp |-> v, map |-> w, circle |-> c] \in Requests
    BY <1>2 DEF Query, Requests
  <2>3. todo'[t] \subseteq c /\ todo' \in [Clients -> SUBSET Locs]
    BY <1>2, <2>1 DEF Query
  <2>4. tables' \in [Clients -> SUBSET SysKeys]
    BY <1>2, VersionsAssumption DEF Query
  <2>5. QED
    BY <1>2, <2>2, <2>3, <2>4 DEF Query, Goto
<1>3. ASSUME NEW t \in Clients, NEW l \in Locs, NextPoint(t, l)
      PROVE  LocalsTyped'
  <2>1. req[t] \in Requests /\ l \in todo[t] /\ Points[req[t].lp][l] # None
    BY <1>3 DEF NextPoint, AtPoint
  <2>2. <<l, <<Points[req[t].lp][l], "pos">>>> \in Locs \X Msgs
    BY <2>1, VersionsAssumption DEF Requests, Msgs
  <2>3. todo[t] \ {l} \subseteq req[t].circle
    BY <1>3 DEF NextPoint
  <2>4. QED
    BY <1>3, <2>2, <2>3 DEF NextPoint, Goto
<1>4. ASSUME NEW t \in Clients, NEW l \in Locs, PutItem(t, l)
      PROVE  LocalsTyped'
  BY <1>4 DEF PutItem
<1>5. ASSUME NEW t \in Clients, MarkItem(t)
      PROVE  LocalsTyped'
  <2>1. now[t] \in Locs \X Msgs
    BY <1>5 DEF MarkItem
  <2>2. <<Loc(t), <<Msg(t)[1], "neg">>>> \in Locs \X Msgs
    BY <2>1 DEF Loc, Msg, Msgs
  <2>3. CASE Msg(t)[2] = "pos"
    BY <1>5, <2>2, <2>3 DEF MarkItem, Goto
  <2>4. CASE Msg(t)[2] # "pos"
    BY <1>5, <2>4 DEF MarkItem, Goto
  <2>5. QED
    BY <2>3, <2>4
<1>6. ASSUME NEW t \in Clients,
                \/ InResult(t) \/ InCache(t) \/ NoCityRoad(t) \/ Build(t)
                \/ NoTable(t) \/ PutRoad(t) \/ CloneRoad(t) \/ Finish(t)
                \/ Answer(t)
      PROVE  LocalsTyped'
  BY <1>6 DEF InResult, Goto, InCache, NoCityRoad, Leave, Build, NoTable,
     PutRoad, CloneRoad, Finish, Answer
<1>7. CASE UNCHANGED vars
  BY <1>7 DEF vars
<1>8. QED
  BY <1>1, <1>2, <1>3, <1>4, <1>5, <1>6, <1>7 DEF Next, Load, Run

(* The point a client is at is settled when it takes it, and its message changes within the group. *)
LEMMA PointStep ==
    ASSUME IInv, [Next]_vars
    PROVE  AtPoint'
<1> USE DEF IInv, LocalsTyped, AtPoint, Loc, Msg, InCircle, loaderVars, clientVars
<1>1. CASE Load
  BY <1>1 DEF Load, ChooseParsers, Read
<1>2. ASSUME NEW t \in Clients, NEW v \in Versions, NEW w \in Maps, NEW c \in Circles, Query(t, v, w, c)
      PROVE  AtPoint'
  BY <1>2 DEF Query, Goto
<1>3. ASSUME NEW t \in Clients, NEW l \in Locs, NextPoint(t, l)
      PROVE  AtPoint'
  BY <1>3 DEF NextPoint, Goto
<1>4. ASSUME NEW t \in Clients, NEW l \in Locs, PutItem(t, l)
      PROVE  AtPoint'
  BY <1>4 DEF PutItem
<1>5. ASSUME NEW t \in Clients,
                \/ InResult(t) \/ InCache(t) \/ NoCityRoad(t) \/ Build(t)
                \/ NoTable(t) \/ PutRoad(t) \/ CloneRoad(t) \/ MarkItem(t)
                \/ Finish(t) \/ Answer(t)
      PROVE  AtPoint'
  BY <1>5 DEF InResult, Goto, InCache, NoCityRoad, Leave, Build, NoTable,
     PutRoad, CloneRoad, MarkItem, Finish, Answer
<1>6. CASE UNCHANGED vars
  BY <1>6 DEF vars
<1>7. QED
  BY <1>1, <1>2, <1>3, <1>4, <1>5, <1>6 DEF Next, Load, Run

(* No client writes to a road of another. *)
LEMMA OwnStep ==
    ASSUME IInv, [Next]_vars
    PROVE  OwnRoads'
<1> USE DEF IInv, LocalsTyped, OwnRoads, loaderVars, clientVars
<1>1. CASE Load
  BY <1>1 DEF Load, ChooseParsers, Read
<1>2. ASSUME NEW t \in Clients, NEW v \in Versions, NEW w \in Maps, NEW c \in Circles, Query(t, v, w, c)
      PROVE  OwnRoads'
  BY <1>2 DEF Query, Goto
<1>3. ASSUME NEW t \in Clients, NEW l \in Locs, NextPoint(t, l)
      PROVE  OwnRoads'
  BY <1>3 DEF NextPoint, Goto
<1>4. ASSUME NEW t \in Clients, NEW l \in Locs, PutItem(t, l)
      PROVE  OwnRoads'
  <2> DEFINE r == Cached(t, Msg(t))
  <2>1. r \in Refs /\ heap[r] \in Objects /\ l \in Locs
    BY <1>4, AtRoad DEF PutItem
  <2>2. heap' = [heap EXCEPT ![r] = [heap[r] EXCEPT !.items = heap[r].items \cup {l}]]
    BY <1>4 DEF PutItem, Cached
  <2>3. [heap[r] EXCEPT !.items = heap[r].items \cup {l}] \in Objects
    BY <2>1 DEF Objects
  <2>4. \A x \in Refs : heap'[x].inOverlay \subseteq heap'[x].items
    BY <2>1, <2>2 DEF Objects
  <2>5. heap' \in [Refs -> Objects]
    BY <2>1, <2>2, <2>3
  <2>6. QED
    BY <1>4, <2>4, <2>5 DEF PutItem
<1>5. ASSUME NEW t \in Clients, NoCityRoad(t)
      PROVE  OwnRoads'
  <2>1. \A r \in Refs : heap'[r].inOverlay \subseteq heap'[r].items
    BY <1>5, LeaveKeeps DEF NoCityRoad, NoRoad
  <2>2. result' = [result EXCEPT ![t] = NoResult]
    BY <1>5 DEF NoCityRoad, Leave
  <2>3. QED
    BY <1>5, <2>1, <2>2, LeaveKeeps DEF NoCityRoad, NoResult
<1>6. ASSUME NEW t \in Clients, Build(t)
      PROVE  OwnRoads'
  <2> DEFINE new == [NoRoad EXCEPT !.lp = req[t].lp, !.map = req[t].map]
  <2>1. Cached(t, Msg(t)) \in Refs /\ req[t] \in Requests
    BY <1>6, AtRoad DEF Build
  <2>2. new \in Objects /\ new.inOverlay = {}
    BY <2>1 DEF Objects, Requests, NoRoad
  <2>3. heap' = [heap EXCEPT ![Cached(t, Msg(t))] = new]
    BY <1>6 DEF Build, Cached
  <2> HIDE DEF new
  <2>4. QED
    BY <1>6, <2>1, <2>2, <2>3 DEF Build
<1>7. ASSUME NEW t \in Clients, NoTable(t)
      PROVE  OwnRoads'
  <2>1. \A r \in Refs : heap'[r].inOverlay \subseteq heap'[r].items
    BY <1>7, LeaveKeeps DEF NoTable, NoRoad
  <2>2. result' = [result EXCEPT ![t] = NoResult]
    BY <1>7 DEF NoTable, Leave
  <2>3. QED
    BY <1>7, <2>1, <2>2, LeaveKeeps DEF NoTable, NoResult
<1>8. ASSUME NEW t \in Clients, PutRoad(t)
      PROVE  OwnRoads'
  <2>1. Cached(t, Msg(t)) \in Refs /\ Msg(t) \in Msgs
    BY <1>8, AtRoad DEF PutRoad
  <2>2. cacheRoad' = [cacheRoad EXCEPT ![Msg(t)] = Cached(t, Msg(t))]
    BY <1>8 DEF PutRoad, Cached
  <2>3. cacheRoad' \in [Msgs -> Refs \cup {None}]
    BY <2>1, <2>2
  <2>4. \A m \in Msgs : cacheRoad'[m] # None => \E u \in Clients : cacheRoad'[m] = Cached(u, m)
    BY <2>1, <2>2
  <2>5. heap' = heap /\ result' = result
    BY <1>8 DEF PutRoad
  <2>6. QED
    BY <2>3, <2>4, <2>5
<1>9. ASSUME NEW t \in Clients, CloneRoad(t)
      PROVE  OwnRoads'
  <2>1. Copy(t, Msg(t)) \in Refs /\ Msg(t) \in Msgs /\ Copy(t, Msg(t)) # None
    BY <1>9, AtRoad DEF CloneRoad
  <2>2. cacheRoad[Msg(t)] \in Refs
    BY <1>9, <2>1 DEF CloneRoad, Places
  <2>3. heap' = [heap EXCEPT ![Copy(t, Msg(t))] = heap[cacheRoad[Msg(t)]]]
        /\ result' = [result EXCEPT ![t][Msg(t)] = Copy(t, Msg(t))]
    BY <1>9 DEF CloneRoad, Copy
  <2>4. heap' \in [Refs -> Objects] /\ \A x \in Refs : heap'[x].inOverlay \subseteq heap'[x].items
    BY <2>1, <2>2, <2>3
  <2>5. /\ result' \in [Clients -> [Msgs -> Refs \cup {None}]]
        /\ \A u \in Clients, m \in Msgs : result'[u][m] \in {Copy(u, m), None}
    BY <2>1, <2>3
  <2>6. QED
    BY <1>9, <2>4, <2>5 DEF CloneRoad
<1>10. ASSUME NEW t \in Clients, MarkItem(t)
      PROVE  OwnRoads'
  <2> DEFINE r == result[t][Msg(t)]
             marked == heap[r].inOverlay \cup ({Loc(t)} \cap heap[r].items)
  <2>1. Msg(t) \in Msgs /\ r \in Refs
    BY <1>10, AtRoad DEF MarkItem, Places
  <2>2. heap' = [heap EXCEPT ![r] = [heap[r] EXCEPT !.inOverlay = marked]]
    BY <1>10 DEF MarkItem
  <2>3. heap[r] \in Objects /\ heap[r].inOverlay \subseteq heap[r].items
    BY <2>1
  <2>4. marked \subseteq heap[r].items /\ [heap[r] EXCEPT !.inOverlay = marked] \in Objects
    BY <2>3 DEF Objects
  <2>5. \A x \in Refs : heap'[x].inOverlay \subseteq heap'[x].items
    BY <2>1, <2>2, <2>3, <2>4 DEF Objects
  <2>6. QED
    BY <1>10, <2>1, <2>2, <2>4, <2>5 DEF MarkItem
<1>11. ASSUME NEW t \in Clients, Answer(t)
      PROVE  OwnRoads'
  <2>1. \A r \in Refs : heap'[r].inOverlay \subseteq heap'[r].items
    BY <1>11, LeaveKeeps DEF Answer, NoRoad
  <2>2. result' = [result EXCEPT ![t] = NoResult]
    BY <1>11 DEF Answer, Leave
  <2>3. QED
    BY <1>11, <2>1, <2>2, LeaveKeeps DEF Answer, NoResult
<1>12. ASSUME NEW t \in Clients,
                \/ InResult(t) \/ InCache(t) \/ Finish(t)
      PROVE  OwnRoads'
  BY <1>12 DEF InResult, Goto, InCache, Finish
<1>13. CASE UNCHANGED vars
  BY <1>13 DEF vars
<1>14. QED
  BY <1>1, <1>2, <1>3, <1>4, <1>5, <1>6, <1>7, <1>8, <1>9, <1>10, <1>11, <1>12, <1>13 DEF Next, Load, Run

(* What a client has learned from the two maps stays true until it acts on it. *)
LEMMA PlacesStep ==
    ASSUME IInv, [Next]_vars
    PROVE  Places'
<1> USE DEF IInv, LocalsTyped, OwnRoads, Places, Msg, loaderVars, clientVars
<1>1. CASE Load
  BY <1>1 DEF Load, ChooseParsers, Read
<1>2. ASSUME NEW t \in Clients, NEW v \in Versions, NEW w \in Maps, NEW c \in Circles, Query(t, v, w, c)
      PROVE  Places'
  BY <1>2 DEF Query, Goto
<1>3. ASSUME NEW t \in Clients, NEW l \in Locs, NextPoint(t, l)
      PROVE  Places'
  BY <1>3 DEF NextPoint, Goto
<1>4. ASSUME NEW t \in Clients, NEW l \in Locs, PutItem(t, l)
      PROVE  Places'
  BY <1>4 DEF PutItem
<1>5. ASSUME NEW t \in Clients, Build(t)
      PROVE  Places'
  <2>1. Cached(t, Msg(t)) # None
    BY <1>5, AtRoad DEF Build
  <2>2. QED
    BY <1>5, <2>1 DEF Build, Goto
<1>6. ASSUME NEW t \in Clients, PutRoad(t)
      PROVE  Places'
  <2>1. /\ Msg(t) \in Msgs /\ Cached(t, Msg(t)) # None
        /\ \A u \in Clients \ {t} : Cached(u, Msg(t)) # Cached(t, Msg(t))
    BY <1>6, AtRoad DEF PutRoad, Cached
  <2>2. cacheRoad' = [cacheRoad EXCEPT ![Msg(t)] = Cached(t, Msg(t))]
    BY <1>6 DEF PutRoad, Cached
  <2>3. \A u \in Clients : pc[u] \in {"build", "clone"} => Msg(u) \in Msgs
    BY AtRoad
  <2>4. QED
    BY <1>6, <2>1, <2>2, <2>3 DEF PutRoad, Goto
<1>7. ASSUME NEW t \in Clients, CloneRoad(t)
      PROVE  Places'
  <2>1. Msg(t) \in Msgs /\ Copy(t, Msg(t)) # None
    BY <1>7, AtRoad DEF CloneRoad
  <2>2. result' = [result EXCEPT ![t][Msg(t)] = Copy(t, Msg(t))]
    BY <1>7 DEF CloneRoad, Copy
  <2>3. /\ result'[t][Msg(t)] # None
        /\ \A u \in Clients \ {t} : result'[u] = result[u]
    BY <2>1, <2>2
  <2>4. pc' = [pc EXCEPT ![t] = "mark"] /\ now' = now /\ cacheRoad' = cacheRoad
    BY <1>7 DEF CloneRoad, Goto
  <2>5. QED
    BY <2>3, <2>4
<1>8. ASSUME NEW t \in Clients,
                \/ InResult(t) \/ InCache(t) \/ NoCityRoad(t) \/ NoTable(t)
                \/ MarkItem(t) \/ Finish(t) \/ Answer(t)
      PROVE  Places'
  BY <1>8 DEF InResult, Goto, InCache, NoCityRoad, Leave, NoTable, MarkItem,
     Finish, Answer
<1>9. CASE UNCHANGED vars
  BY <1>9 DEF vars
<1>10. QED
  BY <1>1, <1>2, <1>3, <1>4, <1>5, <1>6, <1>7, <1>8, <1>9 DEF Next, Load, Run

(* Only its builder writes to a road being built. *)
LEMMA UnfinishedStep ==
    ASSUME IInv, [Next]_vars
    PROVE  Unfinished'
<1> USE DEF IInv, LocalsTyped, OwnRoads, Unfinished, Msg, CityRoad, loaderVars, clientVars
<1>1. CASE Load
  BY <1>1 DEF Load, ChooseParsers, Read
<1>2. ASSUME NEW t \in Clients, NEW v \in Versions, NEW w \in Maps, NEW c \in Circles, Query(t, v, w, c)
      PROVE  Unfinished'
  BY <1>2 DEF Query, Goto
<1>3. ASSUME NEW t \in Clients, NEW l \in Locs, NextPoint(t, l)
      PROVE  Unfinished'
  BY <1>3 DEF NextPoint, Goto
<1>4. ASSUME NEW t \in Clients, NEW l \in Locs, PutItem(t, l)
      PROVE  Unfinished'
  <2> DEFINE r == Cached(t, Msg(t))
  <2>1. \A u \in Clients : pc[u] = "build" => Cached(u, Msg(u)) \in Refs
    BY AtRoad
  <2>2. \A u \in Clients \ {t} : Cached(u, Msg(u)) # r
    BY DEF Cached
  <2>3. /\ pc[t] = "build" /\ heap[r] \in Objects /\ l \in CityRoad(t)
        /\ heap' = [heap EXCEPT ![r] = [heap[r] EXCEPT !.items = heap[r].items \cup {l}]]
    BY <1>4, <2>1 DEF PutItem, Cached
  <2>4. /\ heap'[r].lp = heap[r].lp /\ heap'[r].inOverlay = heap[r].inOverlay
        /\ heap'[r].items = heap[r].items \cup {l}
    BY <2>1, <2>3 DEF Objects
  <2>5. \A u \in Clients \ {t} : pc[u] = "build" => heap'[Cached(u, Msg(u))] = heap[Cached(u, Msg(u))]
    BY <2>1, <2>2, <2>3
  <2>6. pc' = pc /\ req' = req /\ now' = now
    BY <1>4 DEF PutItem
  <2> HIDE DEF r, Msg, CityRoad
  <2>7. \A u \in Clients : Msg(u)' = Msg(u) /\ CityRoad(u)' = CityRoad(u)
    BY <2>6 DEF Msg, CityRoad
  <2>8. heap[r].lp = req[t].lp /\ heap[r].items \subseteq CityRoad(t) /\ heap[r].inOverlay = {}
    BY <2>3 DEF r
  <2>9. \A u \in Clients : pc[u] = "build" =>
            /\ heap'[Cached(u, Msg(u))].lp = req[u].lp
            /\ heap'[Cached(u, Msg(u))].items \subseteq CityRoad(u)
            /\ heap'[Cached(u, Msg(u))].inOverlay = {}
    BY <2>3, <2>4, <2>5, <2>8 DEF r
  <2>10. QED
    BY <2>6, <2>7, <2>9
<1>5. ASSUME NEW t \in Clients, NoCityRoad(t)
      PROVE  Unfinished'
  <2>0. Leave(t)
    BY <1>5 DEF NoCityRoad
  <2>1. \A u \in Clients \ {t} : pc[u] = "build" => Msg(u) \in Msgs
    BY AtRoad
  <2>2. \A u \in Clients \ {t} : pc[u] = "build" => heap'[Cached(u, Msg(u))] = heap[Cached(u, Msg(u))]
    BY <2>0, <2>1, LeaveKeeps
  <2>3. pc' = [pc EXCEPT ![t] = "idle"] /\ now' = [now EXCEPT ![t] = None] /\ req' = [req EXCEPT ![t] = None]
    BY <2>0 DEF Leave
  <2>4. QED
    BY <2>2, <2>3
<1>6. ASSUME NEW t \in Clients, Build(t)
      PROVE  Unfinished'
  <2> DEFINE r == Cached(t, Msg(t))
             new == [NoRoad EXCEPT !.lp = req[t].lp, !.map = req[t].map]
  <2>1. /\ \A u \in Clients : pc[u] = "build" => Cached(u, Msg(u)) \in Refs
        /\ r \in Refs
    BY <1>6, AtRoad DEF Build
  <2>2. \A u \in Clients \ {t} : Cached(u, Msg(u)) # r
    BY DEF Cached
  <2>3. new.lp = req[t].lp /\ new.items = {} /\ new.inOverlay = {}
    BY DEF NoRoad
  <2>4. heap' = [heap EXCEPT ![r] = new]
    BY <1>6 DEF Build, Cached
  <2> HIDE DEF new
  <2>5. /\ heap'[r] = new
        /\ \A u \in Clients \ {t} : pc[u] = "build" => heap'[Cached(u, Msg(u))] = heap[Cached(u, Msg(u))]
    BY <2>1, <2>2, <2>4
  <2>6. pc' = [pc EXCEPT ![t] = "build"] /\ req' = req /\ now' = now
    BY <1>6 DEF Build, Goto
  <2>7. QED
    BY <2>3, <2>5, <2>6
<1>7. ASSUME NEW t \in Clients, NoTable(t)
      PROVE  Unfinished'
  <2>0. Leave(t)
    BY <1>7 DEF NoTable
  <2>1. \A u \in Clients \ {t} : pc[u] = "build" => Msg(u) \in Msgs
    BY AtRoad
  <2>2. \A u \in Clients \ {t} : pc[u] = "build" => heap'[Cached(u, Msg(u))] = heap[Cached(u, Msg(u))]
    BY <2>0, <2>1, LeaveKeeps
  <2>3. pc' = [pc EXCEPT ![t] = "idle"] /\ now' = [now EXCEPT ![t] = None] /\ req' = [req EXCEPT ![t] = None]
    BY <2>0 DEF Leave
  <2>4. QED
    BY <2>2, <2>3
<1>8. ASSUME NEW t \in Clients, CloneRoad(t)
      PROVE  Unfinished'
  <2>1. \A u \in Clients : pc[u] = "build" => Cached(u, Msg(u)) \in Refs
    BY AtRoad
  <2>2. \A u \in Clients : Cached(u, Msg(u)) # Copy(t, Msg(t))
    BY DEF Cached, Copy
  <2>3. heap' = [heap EXCEPT ![Copy(t, Msg(t))] = heap[cacheRoad[Msg(t)]]]
    BY <1>8 DEF CloneRoad, Copy
  <2>4. \A u \in Clients : pc[u] = "build" => heap'[Cached(u, Msg(u))] = heap[Cached(u, Msg(u))]
    BY <2>1, <2>2, <2>3
  <2>5. pc' = [pc EXCEPT ![t] = "mark"] /\ req' = req /\ now' = now
    BY <1>8 DEF CloneRoad, Goto
  <2>6. QED
    BY <2>4, <2>5
<1>9. ASSUME NEW t \in Clients, MarkItem(t)
      PROVE  Unfinished'
  <2>1. \A u \in Clients : pc[u] = "build" => Cached(u, Msg(u)) \in Refs
    BY AtRoad
  <2>2. result[t][Msg(t)] = Copy(t, Msg(t))
    BY <1>9, AtRoad DEF MarkItem, Places
  <2>3. \A u \in Clients : Cached(u, Msg(u)) # result[t][Msg(t)]
    BY <2>2 DEF Cached, Copy
  <2>4. \A u \in Clients : pc[u] = "build" => heap'[Cached(u, Msg(u))] = heap[Cached(u, Msg(u))]
    BY <1>9, <2>1, <2>3 DEF MarkItem
  <2>5. /\ pc'[t] # "build" /\ req' = req
        /\ \A u \in Clients \ {t} : pc'[u] = pc[u] /\ now'[u] = now[u]
    BY <1>9 DEF MarkItem, Goto
  <2> HIDE DEF Msg, CityRoad
  <2>6. \A u \in Clients \ {t} : Msg(u)' = Msg(u) /\ CityRoad(u)' = CityRoad(u)
    BY <2>5 DEF Msg, CityRoad
  <2>7. QED
    BY <2>4, <2>5, <2>6
<1>10. ASSUME NEW t \in Clients, Answer(t)
      PROVE  Unfinished'
  <2>0. Leave(t)
    BY <1>10 DEF Answer
  <2>1. \A u \in Clients \ {t} : pc[u] = "build" => Msg(u) \in Msgs
    BY AtRoad
  <2>2. \A u \in Clients \ {t} : pc[u] = "build" => heap'[Cached(u, Msg(u))] = heap[Cached(u, Msg(u))]
    BY <2>0, <2>1, LeaveKeeps
  <2>3. pc' = [pc EXCEPT ![t] = "idle"] /\ now' = [now EXCEPT ![t] = None] /\ req' = [req EXCEPT ![t] = None]
    BY <2>0 DEF Leave
  <2>4. QED
    BY <2>2, <2>3
<1>11. ASSUME NEW t \in Clients,
                \/ InResult(t) \/ InCache(t) \/ PutRoad(t) \/ Finish(t)
      PROVE  Unfinished'
  BY <1>11 DEF InResult, Goto, InCache, PutRoad, Finish
<1>12. CASE UNCHANGED vars
  BY <1>12 DEF vars
<1>13. QED
  BY <1>1, <1>2, <1>3, <1>4, <1>5, <1>6, <1>7, <1>8, <1>9, <1>10, <1>11, <1>12 DEF Next, Load, Run

(* The road that is put has all points of its city, and was marked by nobody. *)
LEMMA CacheStep ==
    ASSUME IInv, [Next]_vars
    PROVE  CachedRoadIsWhole'
<1> USE DEF IInv, LocalsTyped, OwnRoads, CachedRoadIsWhole, loaderVars, clientVars
<1>1. CASE Load
  BY <1>1 DEF Load, ChooseParsers, Read
<1>2. ASSUME NEW t \in Clients, NEW v \in Versions, NEW w \in Maps, NEW c \in Circles, Query(t, v, w, c)
      PROVE  CachedRoadIsWhole'
  BY <1>2 DEF Query, Goto
<1>3. ASSUME NEW t \in Clients, NEW l \in Locs, NextPoint(t, l)
      PROVE  CachedRoadIsWhole'
  BY <1>3 DEF NextPoint, Goto
<1>4. ASSUME NEW t \in Clients, NEW l \in Locs, PutItem(t, l)
      PROVE  CachedRoadIsWhole'
  <2>1. \A m \in Msgs : cacheRoad[m] # Cached(t, Msg(t))
    <3>1. cacheRoad[Msg(t)] # Cached(t, Msg(t)) /\ Msg(t) \in Msgs
      BY <1>4, AtRoad DEF PutItem, Places
    <3>2. \A m \in Msgs, u \in Clients : Cached(u, m) = Cached(t, Msg(t)) => m = Msg(t)
      BY DEF Cached
    <3>3. Cached(t, Msg(t)) # None
      BY <1>4, AtRoad DEF PutItem
    <3>4. QED
      BY <3>1, <3>2, <3>3
  <2>2. \A m \in Msgs : cacheRoad[m] # None => heap'[cacheRoad[m]] = heap[cacheRoad[m]]
    BY <1>4, <2>1 DEF PutItem, Cached
  <2>3. cacheRoad' = cacheRoad
    BY <1>4 DEF PutItem
  <2>4. QED
    BY <2>2, <2>3
<1>5. ASSUME NEW t \in Clients, NoCityRoad(t)
      PROVE  CachedRoadIsWhole'
  <2>1. Leave(t)
    BY <1>5 DEF NoCityRoad
  <2>2. QED
    BY <2>1, LeaveKeeps
<1>6. ASSUME NEW t \in Clients, Build(t)
      PROVE  CachedRoadIsWhole'
  <2>1. \A m \in Msgs : cacheRoad[m] # Cached(t, Msg(t))
    <3>1. cacheRoad[Msg(t)] = None /\ Msg(t) \in Msgs
      BY <1>6, AtRoad DEF Build
    <3>2. \A m \in Msgs, u \in Clients : Cached(u, m) = Cached(t, Msg(t)) => m = Msg(t)
      BY DEF Cached
    <3>3. Cached(t, Msg(t)) # None
      BY <1>6, AtRoad DEF Build
    <3>4. QED
      BY <3>1, <3>2, <3>3
  <2>2. \A m \in Msgs : cacheRoad[m] # None => heap'[cacheRoad[m]] = heap[cacheRoad[m]]
    BY <1>6, <2>1 DEF Build, Cached
  <2>3. cacheRoad' = cacheRoad
    BY <1>6 DEF Build
  <2>4. QED
    BY <2>2, <2>3
<1>7. ASSUME NEW t \in Clients, NoTable(t)
      PROVE  CachedRoadIsWhole'
  <2>1. Leave(t)
    BY <1>7 DEF NoTable
  <2>2. QED
    BY <2>1, LeaveKeeps
<1>8. ASSUME NEW t \in Clients, PutRoad(t)
      PROVE  CachedRoadIsWhole'
  <2> DEFINE r == Cached(t, Msg(t))
  <2>1. Msg(t) \in Msgs /\ req[t] \in Requests
    BY <1>8, AtRoad DEF PutRoad
  <2>2. cacheRoad' = [cacheRoad EXCEPT ![Msg(t)] = r] /\ heap' = heap
    BY <1>8 DEF PutRoad, Cached
  <2>3. heap[r].items = CityRoad(t) /\ heap[r].lp = req[t].lp /\ heap[r].inOverlay = {}
    BY <1>8 DEF PutRoad, Cached, Unfinished
  <2>4. req[t].lp # None
    BY <2>1, NoneAssumption DEF Requests
  <2>5. heap[r].items = City[heap[r].lp][Msg(t)[1]]
    BY <2>3 DEF CityRoad
  <2> HIDE DEF r
  <2>6. QED
    BY <2>1, <2>2, <2>3, <2>4, <2>5
<1>9. ASSUME NEW t \in Clients, CloneRoad(t)
      PROVE  CachedRoadIsWhole'
  <2>1. \A m \in Msgs, u \in Clients : Cached(u, m) # Copy(t, Msg(t))
    BY DEF Cached, Copy
  <2>2. \A m \in Msgs : cacheRoad[m] # None => heap'[cacheRoad[m]] = heap[cacheRoad[m]]
    BY <1>9, <2>1 DEF CloneRoad, Copy
  <2>3. cacheRoad' = cacheRoad
    BY <1>9 DEF CloneRoad
  <2>4. QED
    BY <2>2, <2>3
<1>10. ASSUME NEW t \in Clients, MarkItem(t)
      PROVE  CachedRoadIsWhole'
  <2>1. result[t][Msg(t)] = Copy(t, Msg(t))
    BY <1>10, AtRoad DEF MarkItem, Places
  <2>2. \A m \in Msgs, u \in Clients : Cached(u, m) # Copy(t, Msg(t))
    BY DEF Cached, Copy
  <2>3. \A m \in Msgs : cacheRoad[m] # None => heap'[cacheRoad[m]] = heap[cacheRoad[m]]
    BY <1>10, <2>1, <2>2 DEF MarkItem
  <2>4. cacheRoad' = cacheRoad
    BY <1>10 DEF MarkItem
  <2>5. QED
    BY <2>3, <2>4
<1>11. ASSUME NEW t \in Clients, Answer(t)
      PROVE  CachedRoadIsWhole'
  <2>1. Leave(t)
    BY <1>11 DEF Answer
  <2>2. QED
    BY <2>1, LeaveKeeps
<1>12. ASSUME NEW t \in Clients,
                \/ InResult(t) \/ InCache(t) \/ Finish(t)
      PROVE  CachedRoadIsWhole'
  BY <1>12 DEF InResult, Goto, InCache, Finish
<1>13. CASE UNCHANGED vars
  BY <1>13 DEF vars
<1>14. QED
  BY <1>1, <1>2, <1>3, <1>4, <1>5, <1>6, <1>7, <1>8, <1>9, <1>10, <1>11, <1>12, <1>13 DEF Next, Load, Run

(* A call ends with nothing left to do, and leaves nothing. *)
LEMMA DoneStep ==
    ASSUME IInv, [Next]_vars
    PROVE  EndsOfCall'
<1> USE DEF IInv, LocalsTyped, OwnRoads, EndsOfCall, loaderVars, clientVars
<1>1. CASE Load
  BY <1>1 DEF Load, ChooseParsers, Read
<1>2. ASSUME NEW t \in Clients, NEW v \in Versions, NEW w \in Maps, NEW c \in Circles, Query(t, v, w, c)
      PROVE  EndsOfCall'
  BY <1>2 DEF Query, Goto
<1>3. ASSUME NEW t \in Clients, NEW l \in Locs, NextPoint(t, l)
      PROVE  EndsOfCall'
  BY <1>3 DEF NextPoint, Goto
<1>4. ASSUME NEW t \in Clients, NEW l \in Locs, PutItem(t, l)
      PROVE  EndsOfCall'
  BY <1>4 DEF PutItem
<1>5. ASSUME NEW t \in Clients,
                \/ InResult(t) \/ InCache(t) \/ NoCityRoad(t) \/ Build(t)
                \/ NoTable(t) \/ PutRoad(t) \/ CloneRoad(t) \/ MarkItem(t)
                \/ Finish(t) \/ Answer(t)
      PROVE  EndsOfCall'
  BY <1>5 DEF InResult, Goto, InCache, NoCityRoad, Leave, Build, NoTable,
     PutRoad, CloneRoad, MarkItem, Finish, Answer
<1>6. CASE UNCHANGED vars
  BY <1>6 DEF vars
<1>7. QED
  BY <1>1, <1>2, <1>3, <1>4, <1>5, <1>6 DEF Next, Load, Run

(* What no step but the client's own changes. *)
LEMMA MarksFrame ==
    ASSUME IInv, NEW u \in Clients, NEW m \in Msgs, pc[u] # "idle" => MarksOf(u, m),
           pc'[u] = pc[u], req'[u] = req[u], todo'[u] = todo[u], now'[u] = now[u],
           result'[u] = result[u], heap'[Copy(u, m)] = heap[Copy(u, m)]
    PROVE  pc'[u] # "idle" => MarksOf(u, m)'
<1>1. /\ Msg(u)' = Msg(u) /\ Loc(u)' = Loc(u)
      /\ InCircle(u, m[1])' = InCircle(u, m[1])
  BY DEF Msg, Loc, InCircle
<1>2. Marked(u, m)' = Marked(u, m)
  BY <1>1 DEF Marked
<1>3. QED
  BY <1>1, <1>2 DEF MarksOf

(* What a client does without reaching or marking a point. *)
LEMMA MarksMove ==
    ASSUME IInv, NEW t \in Clients, NEW place,
           pc' = [pc EXCEPT ![t] = place], pc[t] \notin {"idle", "mark"},
           pc[t] \in {"point", "answer"} <=> place \in {"point", "answer"},
           place = "mark" => result[t][Msg(t)] # None,
           req' = req, todo' = todo, now' = now, result' = result,
           \A u \in Clients, m \in Msgs : heap'[Copy(u, m)] = heap[Copy(u, m)]
    PROVE  MarksSoFar'
<1>1. ASSUME NEW m \in Msgs
      PROVE  MarksOf(t, m)'
  <2>1. MarksOf(t, m) /\ pc'[t] = place
    BY DEF IInv, MarksSoFar, LocalsTyped
  <2>2. Msg(t)' = Msg(t) /\ Loc(t)' = Loc(t) /\ InCircle(t, m[1])' = InCircle(t, m[1])
    BY DEF Msg, Loc, InCircle
  <2>3. Marked(t, m)' = Marked(t, m)
    BY <2>1, <2>2 DEF Marked
  <2>4. QED
    BY <2>1, <2>2, <2>3 DEF MarksOf
<1>2. QED
  BY <1>1, MarksFrame DEF IInv, MarksSoFar, LocalsTyped

(* A step marks the point it is at in the road it is at. *)
LEMMA MarksStep ==
    ASSUME IInv, [Next]_vars
    PROVE  MarksSoFar'
<1> USE DEF IInv, loaderVars, clientVars
<1>1. CASE ChooseParsers
  <2>1. heap' = heap /\ pc' = pc /\ req' = req /\ todo' = todo /\ now' = now /\ result' = result
    BY <1>1 DEF ChooseParsers
  <2>2. QED
    BY <2>1, MarksFrame DEF MarksSoFar
<1>2. ASSUME NEW k \in SysKeys, Read(k)
      PROVE  MarksSoFar'
  <2>1. heap' = heap /\ pc' = pc /\ req' = req /\ todo' = todo /\ now' = now /\ result' = result
    BY <1>2 DEF Read
  <2>2. QED
    BY <2>1, MarksFrame DEF MarksSoFar
<1>3. ASSUME NEW t \in Clients, NEW v \in Versions, NEW w \in Maps, NEW c \in Circles, Query(t, v, w, c)
      PROVE  MarksSoFar'
  <2>1. /\ pc[t] = "idle" /\ pc' = [pc EXCEPT ![t] = "point"] /\ heap' = heap
        /\ req' = [req EXCEPT ![t] = [lp |-> v, map |-> w, circle |-> c]]
        /\ todo' = [todo EXCEPT ![t] = {l \in c : Points[v][l] # None}]
        /\ now' = now /\ result' = result
    BY <1>3 DEF Query, Goto
  <2>2. /\ pc'[t] = "point" /\ req'[t] = [lp |-> v, map |-> w, circle |-> c]
        /\ todo'[t] = {l \in c : Points[v][l] # None}
        /\ result'[t] = NoResult
    BY <2>1 DEF LocalsTyped, EndsOfCall
  <2>3. ASSUME NEW m \in Msgs
        PROVE  MarksOf(t, m)'
    <3>1. m[1] # None
      BY NoneAssumption DEF Msgs
    <3>2. InCircle(t, m[1])' \subseteq todo'[t]
      BY <2>2, <3>1 DEF InCircle
    <3>3. Marked(t, m)' = {}
      BY <3>2 DEF Marked
    <3>4. result'[t][m] = None
      BY <2>2 DEF NoResult
    <3>5. QED
      BY <2>2, <3>3, <3>4 DEF MarksOf
  <2>4. QED
    BY <2>1, <2>3, MarksFrame DEF MarksSoFar, LocalsTyped
<1>4. ASSUME NEW t \in Clients, NEW l \in Locs, NextPoint(t, l)
      PROVE  MarksSoFar'
  <2>1. /\ pc[t] = "point" /\ pc' = [pc EXCEPT ![t] = "road"] /\ heap' = heap
        /\ req' = req /\ result' = result /\ l \in todo[t]
        /\ todo' = [todo EXCEPT ![t] = todo[t] \ {l}]
        /\ now' = [now EXCEPT ![t] = <<l, <<Points[req[t].lp][l], "pos">>>>]
    BY <1>4 DEF NextPoint, Goto
  <2>2. /\ pc'[t] = "road" /\ todo'[t] = todo[t] \ {l}
        /\ now'[t] = <<l, <<Points[req[t].lp][l], "pos">>>>
    BY <2>1 DEF LocalsTyped
  <2>3. ASSUME NEW m \in Msgs
        PROVE  MarksOf(t, m)'
    <3>1. Loc(t)' = l /\ Msg(t)'[2] = "pos" /\ InCircle(t, m[1])' = InCircle(t, m[1])
      BY <2>1, <2>2 DEF Loc, Msg, InCircle
    <3>2. Marked(t, m)' = Marked(t, m)
      BY <2>1, <2>2, <3>1 DEF Marked
    <3>3. QED
      BY <2>1, <2>2, <3>2 DEF MarksOf, MarksSoFar
  <2>4. QED
    BY <2>1, <2>3, MarksFrame DEF MarksSoFar, LocalsTyped
<1>5. ASSUME NEW t \in Clients, NEW l \in Locs, PutItem(t, l)
      PROVE  MarksSoFar'
  <2>1. \A u \in Clients, m \in Msgs : heap'[Copy(u, m)] = heap[Copy(u, m)]
    BY <1>5, RoadNames DEF PutItem, OwnRoads, Copy
  <2>2. pc' = pc /\ req' = req /\ todo' = todo /\ now' = now /\ result' = result
    BY <1>5 DEF PutItem
  <2>3. QED
    BY <2>1, <2>2, MarksFrame DEF MarksSoFar
<1>6. ASSUME NEW t \in Clients, InResult(t)
      PROVE  MarksSoFar'
  <2>1. \A u \in Clients, m \in Msgs : heap'[Copy(u, m)] = heap[Copy(u, m)]
    BY <1>6, RoadNames DEF InResult, OwnRoads, Copy
  <2>2. /\ pc[t] = "road" /\ pc' = [pc EXCEPT ![t] = "mark"]
        /\ req' = req /\ todo' = todo /\ now' = now /\ result' = result
    BY <1>6 DEF InResult, Goto
  <2>3. QED
    BY <1>6, <2>1, <2>2, MarksMove DEF InResult
<1>7. ASSUME NEW t \in Clients, InCache(t)
      PROVE  MarksSoFar'
  <2>1. \A u \in Clients, m \in Msgs : heap'[Copy(u, m)] = heap[Copy(u, m)]
    BY <1>7, RoadNames DEF InCache, OwnRoads, Copy
  <2>2. /\ pc[t] = "road" /\ pc' = [pc EXCEPT ![t] = "clone"]
        /\ req' = req /\ todo' = todo /\ now' = now /\ result' = result
    BY <1>7 DEF InCache, Goto
  <2>3. QED
    BY <1>7, <2>1, <2>2, MarksMove
<1>8. ASSUME NEW t \in Clients, NoCityRoad(t)
      PROVE  MarksSoFar'
  <2>1. Leave(t)
    BY <1>8 DEF NoCityRoad
  <2>2. \A u \in Clients \ {t}, m \in Msgs : heap'[Copy(u, m)] = heap[Copy(u, m)]
    BY <2>1, LeaveKeeps
  <2>3. /\ pc' = [pc EXCEPT ![t] = "idle"] /\ req' = [req EXCEPT ![t] = None]
        /\ todo' = [todo EXCEPT ![t] = {}] /\ now' = [now EXCEPT ![t] = None]
        /\ result' = [result EXCEPT ![t] = NoResult]
    BY <2>1 DEF Leave
  <2>4. QED
    BY <2>2, <2>3, MarksFrame DEF MarksSoFar, LocalsTyped
<1>9. ASSUME NEW t \in Clients, Build(t)
      PROVE  MarksSoFar'
  <2>1. \A u \in Clients, m \in Msgs : heap'[Copy(u, m)] = heap[Copy(u, m)]
    BY <1>9, RoadNames DEF Build, OwnRoads, Copy
  <2>2. /\ pc[t] = "road" /\ pc' = [pc EXCEPT ![t] = "build"]
        /\ req' = req /\ todo' = todo /\ now' = now /\ result' = result
    BY <1>9 DEF Build, Goto
  <2>3. QED
    BY <1>9, <2>1, <2>2, MarksMove
<1>10. ASSUME NEW t \in Clients, NoTable(t)
      PROVE  MarksSoFar'
  <2>1. Leave(t)
    BY <1>10 DEF NoTable
  <2>2. \A u \in Clients \ {t}, m \in Msgs : heap'[Copy(u, m)] = heap[Copy(u, m)]
    BY <2>1, LeaveKeeps
  <2>3. /\ pc' = [pc EXCEPT ![t] = "idle"] /\ req' = [req EXCEPT ![t] = None]
        /\ todo' = [todo EXCEPT ![t] = {}] /\ now' = [now EXCEPT ![t] = None]
        /\ result' = [result EXCEPT ![t] = NoResult]
    BY <2>1 DEF Leave
  <2>4. QED
    BY <2>2, <2>3, MarksFrame DEF MarksSoFar, LocalsTyped
<1>11. ASSUME NEW t \in Clients, PutRoad(t)
      PROVE  MarksSoFar'
  <2>1. \A u \in Clients, m \in Msgs : heap'[Copy(u, m)] = heap[Copy(u, m)]
    BY <1>11, RoadNames DEF PutRoad, OwnRoads, Copy
  <2>2. /\ pc[t] = "build" /\ pc' = [pc EXCEPT ![t] = "clone"]
        /\ req' = req /\ todo' = todo /\ now' = now /\ result' = result
    BY <1>11 DEF PutRoad, Goto
  <2>3. QED
    BY <1>11, <2>1, <2>2, MarksMove
<1>12. ASSUME NEW t \in Clients, CloneRoad(t)
      PROVE  MarksSoFar'
  <2>1. /\ pc[t] = "clone" /\ pc' = [pc EXCEPT ![t] = "mark"]
        /\ req' = req /\ todo' = todo /\ now' = now
        /\ heap' = [heap EXCEPT ![Copy(t, Msg(t))] = heap[cacheRoad[Msg(t)]]]
        /\ result' = [result EXCEPT ![t][Msg(t)] = Copy(t, Msg(t))]
    BY <1>12 DEF CloneRoad, Goto, Copy
  <2>2. Msg(t) \in Msgs /\ Copy(t, Msg(t)) \in Refs /\ Copy(t, Msg(t)) # None
    BY <2>1, AtRoad
  <2>3. /\ \A u \in Clients \ {t}, m \in Msgs : heap'[Copy(u, m)] = heap[Copy(u, m)]
        /\ \A m \in Msgs \ {Msg(t)} : heap'[Copy(t, m)] = heap[Copy(t, m)]
        /\ heap'[Copy(t, Msg(t))] = heap[cacheRoad[Msg(t)]]
    <3>1. /\ \A u \in Clients \ {t}, m \in Msgs : Copy(u, m) # Copy(t, Msg(t))
          /\ \A m \in Msgs \ {Msg(t)} : Copy(t, m) # Copy(t, Msg(t))
      BY DEF Copy
    <3>2. QED
      BY <2>1, <2>2, <3>1, RoadNames DEF OwnRoads
  <2>4. /\ result'[t][Msg(t)] = Copy(t, Msg(t)) /\ \A m \in Msgs \ {Msg(t)} : result'[t][m] = result[t][m]
        /\ \A u \in Clients \ {t} : result'[u] = result[u]
    BY <2>1, <2>2 DEF OwnRoads
  <2>5. heap[cacheRoad[Msg(t)]].inOverlay = {} /\ result[t][Msg(t)] = None
    BY <2>1, <2>2 DEF CachedRoadIsWhole, Places
  <2>6. ASSUME NEW m \in Msgs
        PROVE  MarksOf(t, m)'
    <3>1. MarksOf(t, m) /\ pc'[t] = "mark"
      BY <2>1 DEF MarksSoFar, LocalsTyped
    <3>2. /\ Msg(t)' = Msg(t) /\ Loc(t)' = Loc(t)
          /\ InCircle(t, m[1])' = InCircle(t, m[1])
      BY <2>1 DEF Msg, Loc, InCircle
    <3>3. Marked(t, m)' = Marked(t, m)
      BY <2>1, <3>1, <3>2 DEF Marked
    <3>4. CASE m = Msg(t)
      <4>1. Marked(t, m) = {}
        BY <2>5, <3>1, <3>4 DEF MarksOf
      <4>2. QED
        BY <2>2, <2>3, <2>4, <2>5, <3>1, <3>2, <3>3, <3>4, <4>1 DEF MarksOf
    <3>5. CASE m # Msg(t)
      BY <2>1, <2>3, <2>4, <3>1, <3>2, <3>3, <3>5 DEF MarksOf
    <3>6. QED
      BY <3>4, <3>5
  <2>7. QED
    BY <2>1, <2>3, <2>4, <2>6, MarksFrame DEF MarksSoFar, LocalsTyped
<1>13. ASSUME NEW t \in Clients, MarkItem(t)
      PROVE  MarksSoFar'
  <2> DEFINE r == Copy(t, Msg(t))
  <2>1. Msg(t) \in Msgs /\ r \in Refs /\ Loc(t) \in Locs /\ Msg(t)[2] \in {"pos", "neg"} /\ r # None
    BY <1>13, AtRoad DEF MarkItem
  <2>2. result[t][Msg(t)] = r
    BY <1>13, <2>1 DEF MarkItem, Places, OwnRoads
  <2>3. /\ pc[t] = "mark" /\ req' = req /\ todo' = todo /\ result' = result
        /\ heap' = [heap EXCEPT ![r] = [heap[r] EXCEPT
                     !.inOverlay = heap[r].inOverlay \cup ({Loc(t)} \cap heap[r].items)]]
    BY <1>13, <2>2 DEF MarkItem
  <2>4. /\ Msg(t)[2] = "pos" => pc'[t] = "road" /\ now'[t] = <<Loc(t), <<Msg(t)[1], "neg">>>>
        /\ Msg(t)[2] = "neg" => pc'[t] = "point"
        /\ \A u \in Clients \ {t} : pc'[u] = pc[u] /\ now'[u] = now[u]
    BY <1>13 DEF MarkItem, Goto, LocalsTyped
  <2>5. /\ \A u \in Clients \ {t}, m \in Msgs : heap'[Copy(u, m)] = heap[Copy(u, m)]
        /\ \A m \in Msgs \ {Msg(t)} : heap'[Copy(t, m)] = heap[Copy(t, m)]
    <3>1. /\ \A u \in Clients \ {t}, m \in Msgs : Copy(u, m) # r
          /\ \A m \in Msgs \ {Msg(t)} : Copy(t, m) # r
      BY DEF Copy
    <3>2. QED
      BY <2>1, <2>3, <3>1, RoadNames DEF OwnRoads
  <2>6. /\ heap'[r].items = heap[r].items
        /\ heap'[r].inOverlay = heap[r].inOverlay \cup ({Loc(t)} \cap heap[r].items)
    BY <2>1, <2>3 DEF OwnRoads, Objects
  <2>7. Loc(t) \in InCircle(t, Msg(t)[1]) \ todo[t]
    BY <2>3 DEF AtPoint
  <2>8. ASSUME NEW m \in Msgs
        PROVE  Marked(t, m)' = IF m = Msg(t) THEN Marked(t, m) \cup {Loc(t)} ELSE Marked(t, m)
    <3>1. InCircle(t, m[1])' = InCircle(t, m[1])
      BY <2>3 DEF InCircle
    <3>2. /\ m = <<m[1], m[2]>> /\ m[2] \in {"pos", "neg"}
          /\ Msg(t) = <<Msg(t)[1], Msg(t)[2]>>
      BY <2>1 DEF Msgs
    <3>3. m[1] # Msg(t)[1] => Loc(t) \notin InCircle(t, m[1])
      BY <2>7 DEF InCircle
    <3>4. CASE Msg(t)[2] = "pos"
      <4>1. Loc(t)' = Loc(t) /\ Msg(t)'[2] = "neg" /\ pc'[t] = "road"
        BY <2>4, <3>4 DEF Loc, Msg
      <4>2. QED
        BY <2>3, <2>7, <3>1, <3>2, <3>3, <3>4, <4>1 DEF Marked
    <3>5. CASE Msg(t)[2] = "neg"
      BY <2>3, <2>4, <2>7, <3>1, <3>2, <3>3, <3>5 DEF Marked
    <3>6. QED
      BY <2>1, <3>4, <3>5
  <2>9. ASSUME NEW m \in Msgs
        PROVE  MarksOf(t, m)'
    <3>1. MarksOf(t, m) /\ pc'[t] # "mark"
      BY <2>1, <2>3, <2>4 DEF MarksSoFar
    <3>2. CASE m = Msg(t)
      <4>1. Marked(t, m)' = Marked(t, m) \cup {Loc(t)}
        BY <2>8, <3>2
      <4>2. heap[r].inOverlay = Marked(t, m) \cap heap[r].items
        BY <2>1, <2>2, <3>1, <3>2 DEF MarksOf
      <4>3. heap'[r].inOverlay = Marked(t, m)' \cap heap'[r].items
        BY <2>6, <4>1, <4>2
      <4>4. QED
        BY <2>1, <2>2, <2>3, <3>1, <3>2, <4>1, <4>3 DEF MarksOf
    <3>3. CASE m # Msg(t)
      <4>1. Marked(t, m)' = Marked(t, m)
        BY <2>8, <3>3
      <4>2. QED
        BY <2>3, <2>5, <3>1, <3>3, <4>1 DEF MarksOf
    <3>4. QED
      BY <3>2, <3>3
  <2>10. QED
    BY <2>3, <2>4, <2>5, <2>9, MarksFrame DEF MarksSoFar
<1>14. ASSUME NEW t \in Clients, Finish(t)
      PROVE  MarksSoFar'
  <2>1. \A u \in Clients, m \in Msgs : heap'[Copy(u, m)] = heap[Copy(u, m)]
    BY <1>14, RoadNames DEF Finish, OwnRoads, Copy
  <2>2. /\ pc[t] = "point" /\ pc' = [pc EXCEPT ![t] = "answer"]
        /\ req' = req /\ todo' = todo /\ now' = now /\ result' = result
    BY <1>14 DEF Finish, Goto
  <2>3. QED
    BY <1>14, <2>1, <2>2, MarksMove
<1>15. ASSUME NEW t \in Clients, Answer(t)
      PROVE  MarksSoFar'
  <2>1. Leave(t)
    BY <1>15 DEF Answer
  <2>2. \A u \in Clients \ {t}, m \in Msgs : heap'[Copy(u, m)] = heap[Copy(u, m)]
    BY <2>1, LeaveKeeps
  <2>3. /\ pc' = [pc EXCEPT ![t] = "idle"] /\ req' = [req EXCEPT ![t] = None]
        /\ todo' = [todo EXCEPT ![t] = {}] /\ now' = [now EXCEPT ![t] = None]
        /\ result' = [result EXCEPT ![t] = NoResult]
    BY <2>1 DEF Leave
  <2>4. QED
    BY <2>2, <2>3, MarksFrame DEF MarksSoFar, LocalsTyped
<1>16. CASE UNCHANGED vars
  BY <1>16, MarksFrame  DEF vars, MarksSoFar
<1>17. QED
  BY <1>1, <1>2, <1>3, <1>4, <1>5, <1>6, <1>7, <1>8, <1>9,
     <1>10, <1>11, <1>12, <1>13, <1>14, <1>15, <1>16 DEF Next, Load, Run

(* A frozen road and what a step leaves of it. *)
Keeps ==
    \A m \in Msgs : RoadFrozen(m) =>
        /\ RoadFrozen(m)'
        /\ cacheRoad'[m] = cacheRoad[m]
        /\ heap'[cacheRoad[m]] = heap[cacheRoad[m]]

(* Building a message that the cache has begins with the cache missing it. *)
LEMMA FreezeFrame ==
    ASSUME IInv,
           \A m \in Msgs : RoadFrozen(m) => /\ cacheRoad'[m] = cacheRoad[m]
                                            /\ heap'[cacheRoad[m]] = heap[cacheRoad[m]],
           \A u \in Clients : pc'[u] = "build" =>
               \/ pc[u] = "build" /\ now'[u] = now[u]
               \/ now'[u] = now[u] /\ cacheRoad[Msg(u)] = None
    PROVE  Keeps
<1>1. \A u \in Clients : now'[u] = now[u] => Msg(u)' = Msg(u)
  BY DEF Msg
<1>2. QED
  BY <1>1 DEF Keeps, RoadFrozen, Building

(* A frozen road is neither replaced nor written to. *)
LEMMA FreezeStep ==
    ASSUME IInv, [Next]_vars
    PROVE  Keeps
<1> USE DEF IInv, loaderVars, clientVars
<1>1. CASE ChooseParsers
  <2>1. heap' = heap /\ cacheRoad' = cacheRoad
    BY <1>1 DEF ChooseParsers
  <2>2. \A u \in Clients : pc'[u] = "build" => pc[u] = "build" /\ now'[u] = now[u]
    BY <1>1 DEF ChooseParsers, Goto, LocalsTyped
  <2>3. QED
    BY <2>1, <2>2, FreezeFrame
<1>2. ASSUME NEW k \in SysKeys, Read(k)
      PROVE  Keeps
  <2>1. heap' = heap /\ cacheRoad' = cacheRoad
    BY <1>2 DEF Read
  <2>2. \A u \in Clients : pc'[u] = "build" => pc[u] = "build" /\ now'[u] = now[u]
    BY <1>2 DEF Read, Goto, LocalsTyped
  <2>3. QED
    BY <2>1, <2>2, FreezeFrame
<1>3. ASSUME NEW t \in Clients, NEW v \in Versions, NEW w \in Maps, NEW c \in Circles, Query(t, v, w, c)
      PROVE  Keeps
  <2>1. heap' = heap /\ cacheRoad' = cacheRoad
    BY <1>3 DEF Query
  <2>2. \A u \in Clients : pc'[u] = "build" => pc[u] = "build" /\ now'[u] = now[u]
    BY <1>3 DEF Query, Goto, LocalsTyped
  <2>3. QED
    BY <2>1, <2>2, FreezeFrame
<1>4. ASSUME NEW t \in Clients, NEW l \in Locs, NextPoint(t, l)
      PROVE  Keeps
  <2>1. heap' = heap /\ cacheRoad' = cacheRoad
    BY <1>4 DEF NextPoint
  <2>2. \A u \in Clients : pc'[u] = "build" => pc[u] = "build" /\ now'[u] = now[u]
    BY <1>4 DEF NextPoint, Goto, LocalsTyped
  <2>3. QED
    BY <2>1, <2>2, FreezeFrame
<1>5. ASSUME NEW t \in Clients, NEW l \in Locs, PutItem(t, l)
      PROVE  Keeps
  <2>1. Msg(t) \in Msgs /\ pc[t] \in {"road", "build"}
    BY <1>5, AtRoad DEF PutItem
  <2>2. \A m \in Msgs : RoadFrozen(m) => cacheRoad[m] # Cached(t, Msg(t))
    <3>1. \A m \in Msgs, u \in Clients : Cached(u, m) = Cached(t, Msg(t)) => m = Msg(t)
      BY DEF Cached
    <3>2. RoadFrozen(Msg(t)) => cacheRoad[Msg(t)] # Cached(t, Msg(t))
      BY <1>5, <2>1 DEF PutItem, RoadFrozen, Places
    <3>3. QED
      BY <2>1, <3>1, <3>2 DEF OwnRoads, RoadFrozen
  <2>3. \A m \in Msgs : RoadFrozen(m) => heap'[cacheRoad[m]] = heap[cacheRoad[m]]
    BY <1>5, <2>2 DEF PutItem, OwnRoads, Cached, RoadFrozen
  <2>4. cacheRoad' = cacheRoad /\ now' = now
    BY <1>5 DEF PutItem
  <2>5. \A u \in Clients : pc'[u] = "build" => pc[u] = "build" \/ cacheRoad[Msg(u)] = None
    BY <1>5 DEF PutItem, Goto, LocalsTyped
  <2>6. QED
    BY <2>3, <2>4, <2>5, FreezeFrame
<1>6. ASSUME NEW t \in Clients, InResult(t)
      PROVE  Keeps
  <2>1. heap' = heap /\ cacheRoad' = cacheRoad
    BY <1>6 DEF InResult
  <2>2. \A u \in Clients : pc'[u] = "build" => pc[u] = "build" /\ now'[u] = now[u]
    BY <1>6 DEF InResult, Goto, LocalsTyped
  <2>3. QED
    BY <2>1, <2>2, FreezeFrame
<1>7. ASSUME NEW t \in Clients, InCache(t)
      PROVE  Keeps
  <2>1. heap' = heap /\ cacheRoad' = cacheRoad
    BY <1>7 DEF InCache
  <2>2. \A u \in Clients : pc'[u] = "build" => pc[u] = "build" /\ now'[u] = now[u]
    BY <1>7 DEF InCache, Goto, LocalsTyped
  <2>3. QED
    BY <2>1, <2>2, FreezeFrame
<1>8. ASSUME NEW t \in Clients, NoCityRoad(t)
      PROVE  Keeps
  <2>1. Leave(t)
    BY <1>8 DEF NoCityRoad
  <2>2. \A u \in Clients : pc'[u] = "build" => pc[u] = "build" /\ now'[u] = now[u]
    BY <2>1 DEF Leave, LocalsTyped
  <2>3. QED
    BY <2>1, <2>2, LeaveKeeps, FreezeFrame DEF RoadFrozen
<1>9. ASSUME NEW t \in Clients, Build(t)
      PROVE  Keeps
  <2>1. Msg(t) \in Msgs /\ pc[t] \in {"road", "build"}
    BY <1>9, AtRoad DEF Build
  <2>2. \A m \in Msgs : RoadFrozen(m) => cacheRoad[m] # Cached(t, Msg(t))
    <3>1. \A m \in Msgs, u \in Clients : Cached(u, m) = Cached(t, Msg(t)) => m = Msg(t)
      BY DEF Cached
    <3>2. RoadFrozen(Msg(t)) => cacheRoad[Msg(t)] # Cached(t, Msg(t))
      BY <1>9, <2>1 DEF Build, RoadFrozen, Places
    <3>3. QED
      BY <2>1, <3>1, <3>2 DEF OwnRoads, RoadFrozen
  <2>3. \A m \in Msgs : RoadFrozen(m) => heap'[cacheRoad[m]] = heap[cacheRoad[m]]
    BY <1>9, <2>2 DEF Build, OwnRoads, Cached, RoadFrozen
  <2>4. cacheRoad' = cacheRoad /\ now' = now
    BY <1>9 DEF Build
  <2>5. \A u \in Clients : pc'[u] = "build" => pc[u] = "build" \/ cacheRoad[Msg(u)] = None
    BY <1>9 DEF Build, Goto, LocalsTyped
  <2>6. QED
    BY <2>3, <2>4, <2>5, FreezeFrame
<1>10. ASSUME NEW t \in Clients, NoTable(t)
      PROVE  Keeps
  <2>1. Leave(t)
    BY <1>10 DEF NoTable
  <2>2. \A u \in Clients : pc'[u] = "build" => pc[u] = "build" /\ now'[u] = now[u]
    BY <2>1 DEF Leave, LocalsTyped
  <2>3. QED
    BY <2>1, <2>2, LeaveKeeps, FreezeFrame DEF RoadFrozen
<1>11. ASSUME NEW t \in Clients, PutRoad(t)
      PROVE  Keeps
  <2>1. Msg(t) \in Msgs /\ ~RoadFrozen(Msg(t))
    BY <1>11, AtRoad DEF PutRoad, RoadFrozen, Building
  <2>2. \A m \in Msgs \ {Msg(t)} : cacheRoad'[m] = cacheRoad[m]
    BY <1>11, <2>1 DEF PutRoad, OwnRoads
  <2>3. heap' = heap /\ now' = now /\ \A u \in Clients : pc'[u] = "build" => pc[u] = "build"
    BY <1>11 DEF PutRoad, Goto, LocalsTyped
  <2>4. QED
    BY <2>1, <2>2, <2>3, FreezeFrame
<1>12. ASSUME NEW t \in Clients, CloneRoad(t)
      PROVE  Keeps
  <2>1. \A m \in Msgs, u \in Clients : Cached(u, m) # Copy(t, Msg(t))
    BY DEF Cached, Copy
  <2>2. \A m \in Msgs : RoadFrozen(m) => heap'[cacheRoad[m]] = heap[cacheRoad[m]]
    BY <1>12, <2>1 DEF CloneRoad, Copy, OwnRoads, RoadFrozen
  <2>3. cacheRoad' = cacheRoad /\ now' = now /\ \A u \in Clients : pc'[u] = "build" => pc[u] = "build"
    BY <1>12 DEF CloneRoad, Goto, LocalsTyped
  <2>4. QED
    BY <2>2, <2>3, FreezeFrame
<1>13. ASSUME NEW t \in Clients, MarkItem(t)
      PROVE  Keeps
  <2>1. result[t][Msg(t)] = Copy(t, Msg(t))
    BY <1>13, AtRoad DEF MarkItem, Places, OwnRoads
  <2>2. \A m \in Msgs, u \in Clients : Cached(u, m) # Copy(t, Msg(t))
    BY DEF Cached, Copy
  <2>3. \A m \in Msgs : RoadFrozen(m) => heap'[cacheRoad[m]] = heap[cacheRoad[m]]
    BY <1>13, <2>1, <2>2 DEF MarkItem, OwnRoads, RoadFrozen
  <2>4. \A u \in Clients : pc'[u] = "build" => pc[u] = "build" /\ now'[u] = now[u]
    BY <1>13 DEF MarkItem, Goto, LocalsTyped
  <2>5. cacheRoad' = cacheRoad
    BY <1>13 DEF MarkItem
  <2>6. QED
    BY <2>3, <2>4, <2>5, FreezeFrame
<1>14. ASSUME NEW t \in Clients, Finish(t)
      PROVE  Keeps
  <2>1. heap' = heap /\ cacheRoad' = cacheRoad
    BY <1>14 DEF Finish
  <2>2. \A u \in Clients : pc'[u] = "build" => pc[u] = "build" /\ now'[u] = now[u]
    BY <1>14 DEF Finish, Goto, LocalsTyped
  <2>3. QED
    BY <2>1, <2>2, FreezeFrame
<1>15. ASSUME NEW t \in Clients, Answer(t)
      PROVE  Keeps
  <2>1. Leave(t)
    BY <1>15 DEF Answer
  <2>2. \A u \in Clients : pc'[u] = "build" => pc[u] = "build" /\ now'[u] = now[u]
    BY <2>1 DEF Leave, LocalsTyped
  <2>3. QED
    BY <2>1, <2>2, LeaveKeeps, FreezeFrame DEF RoadFrozen
<1>16. CASE UNCHANGED vars
  BY <1>16, FreezeFrame DEF vars
<1>17. QED
  BY <1>1, <1>2, <1>3, <1>4, <1>5, <1>6, <1>7, <1>8, <1>9,
     <1>10, <1>11, <1>12, <1>13, <1>14, <1>15, <1>16 DEF Next, Load, Run

-----------------------------------------------------------------------------
(* The theorems.                                                           *)

(* IInv is an invariant of the specification. *)
THEOREM Inductive == Spec => []IInv
<1>1. Init => IInv
  <2> SUFFICES ASSUME Init PROVE IInv
    OBVIOUS
  <2>1. TablesParsed /\ LocalsTyped /\ AtPoint
    BY DEF Init, TablesParsed, LocalsTyped, AtPoint
  <2>2. NoRoad \in Objects /\ NoRoad.inOverlay = {} /\ NoRoad.items = {}
    BY DEF NoRoad, Objects
  <2>3. OwnRoads
    BY <2>2 DEF Init, OwnRoads, NoResult
  <2>4. Places /\ Unfinished /\ CachedRoadIsWhole /\ MarksSoFar /\ EndsOfCall
    BY DEF Init, Places, Unfinished, CachedRoadIsWhole, MarksSoFar, EndsOfCall
  <2>5. QED
    BY <2>1, <2>3, <2>4 DEF IInv
<1>2. IInv /\ [Next]_vars => IInv'
  BY TablesStep, LocalsStep, PointStep, OwnStep, PlacesStep, UnfinishedStep, CacheStep,
     DoneStep, MarksStep DEF IInv
<1>3. QED
  BY <1>1, <1>2, PTL DEF Spec

(* Type correctness; the casts of tables succeed whatever is published,    *)
(* except under admin.all, where never anything but an RTable is found.    *)
THEOREM TypeCorrect == Spec => []TypeOK
<1>1. IInv => TypeOK
  <2> SUFFICES ASSUME IInv PROVE TypeOK
    OBVIOUS
  <2>1. parserList \in (SUBSET (SysKeys \X Kinds)) \cup {None}
    <3>1. CASE parserList = None
      BY <3>1
    <3>2. CASE parserList # None
      <4>1. parserList \subseteq SysKeys \X Kinds
        BY <3>2 DEF IInv, TablesParsed
      <4>2. QED
        BY <4>1
    <3>3. QED
      BY <3>1, <3>2
  <2>2. \A r \in Refs : /\ heap[r].lp \in Versions \cup {None}
                        /\ heap[r].map \in Maps \cup {None}
                        /\ heap[r].inOverlay \subseteq heap[r].items
                        /\ heap[r].items \subseteq Locs
    BY DEF IInv, OwnRoads, Objects
  <2>3. DOMAIN fileMap = SysKeys
    BY DEF IInv, TablesParsed
  <2>4. ASSUME NEW k \in SysKeys
        PROVE  /\ fileMap[k] \in Kinds \cup {None}
               /\ k # AdminKey => CastSucceeds(k)
               /\ k = AdminKey => fileMap[k] \in {"RTable", None}
    <3>1. fileMap[k] \in {ParserOf(k), None} /\ fileMap[k] \in Kinds \cup {None}
      BY DEF IInv, TablesParsed
    <3>2. QED
      BY <3>1, ParserMakesCast DEF CastSucceeds
  <2>5. QED
    BY <2>1, <2>2, <2>3, <2>4 DEF IInv, OwnRoads, LocalsTyped, TypeOK
<1>2. QED
  BY <1>1, Inductive, PTL

(* A road in the cache is the whole road of one version, without marks. *)
THEOREM CacheIsWhole == Spec => []CachedRoadIsWhole
  BY Inductive, PTL DEF IInv

(* A finished answer has the roads of its circle's groups, with the points *)
(* of its circle marked and no others.                                     *)
THEOREM AnswersMarkTheirCircle == Spec => []AnswerMarksCircle
<1>1. IInv => AnswerMarksCircle
  <2> SUFFICES ASSUME IInv, NEW t \in Clients, pc[t] = "answer", NEW m \in Msgs
               PROVE  /\ (result[t][m] # None) <=> (InCircle(t, m[1]) # {})
                      /\ result[t][m] # None =>
                           heap[result[t][m]].inOverlay =
                               InCircle(t, m[1]) \cap heap[result[t][m]].items
    BY DEF AnswerMarksCircle
  <2>1. MarksOf(t, m) /\ todo[t] = {}
    BY DEF IInv, MarksSoFar, EndsOfCall
  <2>2. Marked(t, m) = InCircle(t, m[1])
    BY <2>1 DEF Marked
  <2>3. result[t][m] # None => result[t][m] = Copy(t, m)
    BY DEF IInv, OwnRoads
  <2>4. QED
    BY <2>1, <2>2, <2>3 DEF MarksOf
<1>2. QED
  BY <1>1, Inductive, PTL

(* Once no builder is left that missed it, a message's road stays.         *)
THEOREM RoadIsFrozen == Spec => RoadFreezes
<1>1. IInv /\ [Next]_vars => Keeps
  BY FreezeStep
<1>2. IInv /\ [Next]_vars => [Keeps]_vars
  BY <1>1
<1>3. QED
  BY <1>2, Inductive, PTL DEF Spec, RoadFreezes, Keeps
=============================================================================
