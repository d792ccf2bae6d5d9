----------------------------- MODULE RoadQuery -----------------------------
(***************************************************************************)
(* The circle query of the authoring pages, and the scheduled task that    *)
(* publishes the tables it reads.                                          *)
(*                                                                         *)
(* RoadByCircleQuery.query finds the location points in a circle and       *)
(* answers with the roads of their groups, both directions of each, the    *)
(* points of the circle marked.  The roads come from cacheRoad, a static   *)
(* unsynchronised map that every request reads and fills, and whose key is *)
(* the message id: neither the version of the location table nor that of   *)
(* the map is part of it.  Each answer works on clones, because marking    *)
(* writes into the road.                                                   *)
(*                                                                         *)
(* What the location tables and the cached cities hold while they change   *)
(* is the subject of RoadCache; here they are settled, and the points that *)
(* the index finds (Points) and the roads of the city (City) are two       *)
(* constants, because a city can be older than the index.  HashMap         *)
(* operations are atomic, as they are there.                               *)
(*                                                                         *)
(* A road is an object in a heap, so that two maps can hold the same one.  *)
(* A client builds a message's road for the cache at most once, and has at *)
(* most one copy of it in an answer: both are named by client and message. *)
(***************************************************************************)
EXTENDS Naturals, Sequences, FiniteSets, SequencesExt

CONSTANTS Clients, Locs, Groups,
          Versions,     \* of the location table
          Maps,         \* the versions of the map
          Points,       \* Points[v][l]: the group of l in v's index, or None
          City,         \* City[v][g]: the points of g's road in v's city
          Circles,      \* the sets of locations that a circle can enclose
          SysKeys,      \* the names of the system properties, split at the dots
          None

Kinds == {"LPTable", "MTTable", "CorrespondingTable", "NTable", "RTable", "AdminTable"}

MtKey(v)  == <<"mt", v>>
MapKey(w) == <<"map", w>>
LpKey(v)  == <<"lp", v>>
AdminKey  == <<"admin", "all">>

(* startsWith, with the dot behind the prefix. *)
Prefixed(prefix, key) == IsPrefix(prefix, key) /\ Len(key) > Len(prefix)

(* The class that the services of the application cast the table under a   *)
(* key to.  Nobody takes a table from under the other keys: location       *)
(* tables are read from where their parser also puts the rows.             *)
CastOf(key) ==
    CASE Prefixed(<<"mt">>, key) -> "MTTable"
      [] Prefixed(<<"ct">>, key) -> "CorrespondingTable"
      [] Prefixed(<<"map", "n">>, key) -> "NTable"
      [] Prefixed(<<"map">>, key) /\ ~Prefixed(<<"map", "n">>, key) -> "RTable"
      [] key = AdminKey -> "AdminTable"
      [] OTHER -> None

ASSUME VersionsAssumption ==
    /\ \A v \in Versions : {LpKey(v), MtKey(v)} \subseteq SysKeys
    /\ \A w \in Maps : MapKey(w) \in SysKeys
    /\ Points \in [Versions -> [Locs -> Groups \cup {None}]]
    /\ City \in [Versions -> [Groups -> SUBSET Locs]]
    /\ Circles \subseteq SUBSET Locs

ASSUME KeysAssumption == SysKeys \subseteq Seq(STRING) \ {<<>>}

Msgs == Groups \X {"pos", "neg"}
Refs == Clients \X {"cached", "result"} \X Msgs
ASSUME NoneAssumption == None \notin Versions \cup Groups \cup Refs

NoRoad == [lp |-> None, map |-> None, items |-> {}, inOverlay |-> {}]

VARIABLES
    parserList,     \* the loader's parsers, as key and table; None for null
    fileMap,        \* the framework's container: the table under each key
    cacheRoad,      \* the road under each message id
    heap,           \* the contents of the road objects
    pc,
    req,            \* a client's parameters: lp, map, circle
    tables,         \* the keys that a client found a table under
    todo,           \* the points of the circle not yet gone through
    now,            \* the point a client is at, and the message it builds for it
    result          \* result[t]: the road under each message id of the answer

loaderVars == <<parserList, fileMap>>
clientVars == <<pc, req, tables, todo, now, result>>
vars == <<loaderVars, cacheRoad, heap, clientVars>>

NoResult == [m \in Msgs |-> None]

Init == /\ parserList = None
        /\ fileMap = [k \in SysKeys |-> None]
        /\ cacheRoad = [m \in Msgs |-> None]
        /\ heap = [r \in Refs |-> NoRoad]
        /\ pc = [t \in Clients |-> "idle"]
        /\ req = [t \in Clients |-> None]
        /\ tables = [t \in Clients |-> {}]
        /\ todo = [t \in Clients |-> {}]
        /\ now = [t \in Clients |-> None]
        /\ result = [t \in Clients |-> NoResult]

Goto(t, label) == pc' = [pc EXCEPT ![t] = label]

-----------------------------------------------------------------------------
(* MapLoaderTask.load: the parsers are chosen once, by the prefix of the   *)
(* key, then each run lets them read in the order of the list.  What the   *)
(* framework's read does with a file is external: the table is published   *)
(* when it is complete, or is not there.                                   *)

(* Mutant: map. is looked for before map.n. *)
ParserOfMapFirst(key) ==
    CASE Prefixed(<<"lp">>, key) -> "LPTable"
      [] Prefixed(<<"mt">>, key) -> "MTTable"
      [] Prefixed(<<"ct">>, key) -> "CorrespondingTable"
      [] Prefixed(<<"map">>, key) \/ Prefixed(<<"admin">>, key) -> "RTable"
      [] OTHER -> None

(* No key gets an AdminTableParser. *)
ParserOf(key) ==
    CASE Prefixed(<<"lp">>, key) -> "LPTable"
      [] Prefixed(<<"mt">>, key) -> "MTTable"
      [] Prefixed(<<"ct">>, key) -> "CorrespondingTable"
      [] Prefixed(<<"map", "n">>, key) -> "NTable"
      [] Prefixed(<<"map">>, key) /\ ~Prefixed(<<"map", "n">>, key) -> "RTable"
      [] Prefixed(<<"admin">>, key) -> "RTable"
      [] OTHER -> None

ChooseParsers ==
    /\ parserList = None
    /\ parserList' = {<<k, ParserOf(k)>> : k \in {s \in SysKeys : ParserOf(s) # None}}
    /\ UNCHANGED <<fileMap, cacheRoad, heap, clientVars>>

Read(k) ==
    /\ parserList # None
    /\ \E p \in parserList : p[1] = k /\ fileMap' = [fileMap EXCEPT ![k] = p[2]]
    /\ UNCHANGED <<parserList, cacheRoad, heap, clientVars>>

-----------------------------------------------------------------------------
(* RoadByCircleQuery.query                                                 *)

(* The answer is written, or an exception leaves query: the call's locals  *)
(* are gone, and with them the objects only they held.                     *)
Leave(t) ==
    /\ pc' = [pc EXCEPT ![t] = "idle"]
    /\ req' = [req EXCEPT ![t] = None]
    /\ tables' = [tables EXCEPT ![t] = {}]
    /\ todo' = [todo EXCEPT ![t] = {}]
    /\ now' = [now EXCEPT ![t] = None]
    /\ result' = [result EXCEPT ![t] = NoResult]
    /\ heap' = [r \in Refs |->
                    IF r[1] = t /\ \A m \in Msgs : cacheRoad[m] # r THEN NoRoad ELSE heap[r]]
    /\ UNCHANGED <<loaderVars, cacheRoad>>

(* The tables are looked up, here and only here; the index exists once the *)
(* location table has been read (before that the search throws, and the    *)
(* call leaves nothing), and gives the points in the circle.               *)
Query(t, v, w, c) ==
    /\ pc[t] = "idle"
    /\ fileMap[LpKey(v)] # None
    /\ req' = [req EXCEPT ![t] = [lp |-> v, map |-> w, circle |-> c]]
    /\ tables' = [tables EXCEPT ![t] = {k \in {MtKey(v), MapKey(w)} : fileMap[k] # None}]
    /\ todo' = [todo EXCEPT ![t] = {l \in c : Points[v][l] # None}]
    /\ Goto(t, "point")
    /\ UNCHANGED <<loaderVars, cacheRoad, heap, now, result>>

NextPoint(t, l) ==
    /\ pc[t] = "point" /\ l \in todo[t]
    /\ now' = [now EXCEPT ![t] = <<l, <<Points[req[t].lp][l], "pos">>>>]
    /\ todo' = [todo EXCEPT ![t] = @ \ {l}]
    /\ Goto(t, "road")
    /\ UNCHANGED <<loaderVars, cacheRoad, heap, req, tables, result>>

Loc(t) == now[t][1]
Msg(t) == now[t][2]
CityRoad(t) == City[req[t].lp][Msg(t)[1]]

-----------------------------------------------------------------------------
(* newRoad                                                                 *)

InResult(t) ==
    /\ pc[t] = "road"
    /\ result[t][Msg(t)] # None
    /\ Goto(t, "mark")
    /\ UNCHANGED <<loaderVars, cacheRoad, heap, req, tables, todo, now, result>>

InCache(t) ==
    /\ pc[t] = "road"
    /\ result[t][Msg(t)] = None
    /\ cacheRoad[Msg(t)] # None
    /\ Goto(t, "clone")
    /\ UNCHANGED <<loaderVars, cacheRoad, heap, req, tables, todo, now, result>>

(* The city has no road for the message: nothing checks, and nothing       *)
(* catches the exception.                                                  *)
NoCityRoad(t) ==
    /\ pc[t] = "road"
    /\ result[t][Msg(t)] = None /\ cacheRoad[Msg(t)] = None
    /\ CityRoad(t) = {}
    /\ Leave(t)

(* Mutant: the cache is not looked at. *)
BuildAlways(t) ==
    /\ pc[t] = "road"
    /\ result[t][Msg(t)] = None
    /\ CityRoad(t) # {}
    /\ heap' = [heap EXCEPT ![<<t, "cached", Msg(t)>>] =
                    [NoRoad EXCEPT !.lp = req[t].lp, !.map = req[t].map]]
    /\ Goto(t, "build")
    /\ UNCHANGED <<loaderVars, cacheRoad, req, tables, todo, now, result>>

(* Mutant: the road is put in the cache before its points are in it. *)
BuildInCache(t) ==
    /\ pc[t] = "road"
    /\ result[t][Msg(t)] = None /\ cacheRoad[Msg(t)] = None
    /\ CityRoad(t) # {}
    /\ heap' = [heap EXCEPT ![<<t, "cached", Msg(t)>>] =
                    [NoRoad EXCEPT !.lp = req[t].lp, !.map = req[t].map]]
    /\ cacheRoad' = [cacheRoad EXCEPT ![Msg(t)] = <<t, "cached", Msg(t)>>]
    /\ Goto(t, "build")
    /\ UNCHANGED <<loaderVars, req, tables, todo, now, result>>

Build(t) ==
    /\ pc[t] = "road"
    /\ result[t][Msg(t)] = None /\ cacheRoad[Msg(t)] = None
    /\ CityRoad(t) # {}
    /\ heap' = [heap EXCEPT ![<<t, "cached", Msg(t)>>] =
                    [NoRoad EXCEPT !.lp = req[t].lp, !.map = req[t].map]]
    /\ Goto(t, "build")
    /\ UNCHANGED <<loaderVars, cacheRoad, req, tables, todo, now, result>>

(* A point of the city's road, with the shape that this request's tables   *)
(* draw.                                                                   *)
PutItem(t, l) ==
    LET r == <<t, "cached", Msg(t)>> IN
    /\ pc[t] = "build"
    /\ l \in CityRoad(t) \ heap[r].items
    /\ tables[t] = {MtKey(req[t].lp), MapKey(req[t].map)}
    /\ heap' = [heap EXCEPT ![r].items = @ \cup {l}]
    /\ UNCHANGED <<loaderVars, cacheRoad, clientVars>>

(* One of the tables was not published when query looked: the first point  *)
(* that has links, which every point has here, throws; the road is lost.   *)
NoTable(t) ==
    /\ pc[t] = "build"
    /\ tables[t] # {MtKey(req[t].lp), MapKey(req[t].map)}
    /\ Leave(t)

(* Whatever another request put since this one looked. *)
PutRoad(t) ==
    LET r == <<t, "cached", Msg(t)>> IN
    /\ pc[t] = "build"
    /\ heap[r].items = CityRoad(t)
    /\ cacheRoad' = [cacheRoad EXCEPT ![Msg(t)] = r]
    /\ Goto(t, "clone")
    /\ UNCHANGED <<loaderVars, heap, req, tables, todo, now, result>>

(* Mutant: the answer shares the road of the cache. *)
ShareRoad(t) ==
    /\ pc[t] = "clone"
    /\ result' = [result EXCEPT ![t][Msg(t)] = cacheRoad[Msg(t)]]
    /\ Goto(t, "mark")
    /\ UNCHANGED <<loaderVars, cacheRoad, heap, req, tables, todo, now>>

CloneRoad(t) ==
    LET r == <<t, "result", Msg(t)>> IN
    /\ pc[t] = "clone"
    /\ heap' = [heap EXCEPT ![r] = heap[cacheRoad[Msg(t)]]]
    /\ result' = [result EXCEPT ![t][Msg(t)] = r]
    /\ Goto(t, "mark")
    /\ UNCHANGED <<loaderVars, cacheRoad, req, tables, todo, now>>

(* The point is marked if the road has it (a road of another version, or   *)
(* of an older city, need not: only a line on the console tells), and the  *)
(* other direction, or the next point, follows.                            *)
MarkItem(t) ==
    LET r == result[t][Msg(t)] IN
    /\ pc[t] = "mark"
    /\ heap' = [heap EXCEPT ![r].inOverlay = @ \cup ({Loc(t)} \cap heap[r].items)]
    /\ IF Msg(t)[2] = "pos"
       THEN now' = [now EXCEPT ![t] = <<Loc(t), <<Msg(t)[1], "neg">>>>] /\ Goto(t, "road")
       ELSE now' = [now EXCEPT ![t] = None] /\ Goto(t, "point")
    /\ UNCHANGED <<loaderVars, cacheRoad, req, tables, todo, result>>

(* query returns; the framework writes its answer later. *)
Finish(t) ==
    /\ pc[t] = "point" /\ todo[t] = {}
    /\ Goto(t, "answer")
    /\ UNCHANGED <<loaderVars, cacheRoad, heap, req, tables, todo, now, result>>

Answer(t) == pc[t] = "answer" /\ Leave(t)

-----------------------------------------------------------------------------
Load == ChooseParsers \/ \E k \in SysKeys : Read(k)

Run(t) == \/ \E l \in Locs : NextPoint(t, l) \/ PutItem(t, l)
          \/ InResult(t) \/ InCache(t) \/ NoCityRoad(t)
          \/ Build(t) \/ NoTable(t) \/ PutRoad(t) \/ CloneRoad(t)
          \/ MarkItem(t) \/ Finish(t) \/ Answer(t)

Next == \/ Load
        \/ \E t \in Clients, v \in Versions, w \in Maps, c \in Circles : Query(t, v, w, c)
        \/ \E t \in Clients : Run(t)

Spec == Init /\ [][Next]_vars

-----------------------------------------------------------------------------
(* Properties.                                                             *)

(* A service that finds a table under a key can cast it as it does. *)
CastSucceeds(k) == None \in {fileMap[k], CastOf(k)} \/ fileMap[k] = CastOf(k)

(* The range of every variable.  The casts to MTTable, CorrespondingTable, *)
(* NTable and RTable succeed whatever has been published, although map.n.  *)
(* keys are map. keys too.  That to AdminTable, of what is found under     *)
(* admin.all (MapQueryAdminServiceImpl 22, MapLPQueryRectangleServiceImpl  *)
(* 30), does not: an RTable is all that is ever published there.           *)
TypeOK ==
    /\ parserList \in (SUBSET (SysKeys \X Kinds)) \cup {None}
    /\ DOMAIN fileMap = SysKeys
    /\ \A k \in SysKeys : /\ fileMap[k] \in Kinds \cup {None}
                          /\ k # AdminKey => CastSucceeds(k)
                          /\ k = AdminKey => fileMap[k] \in {"RTable", None}
    /\ cacheRoad \in [Msgs -> Refs \cup {None}]
    /\ DOMAIN heap = Refs
    /\ \A r \in Refs : /\ heap[r].lp \in Versions \cup {None}
                       /\ heap[r].map \in Maps \cup {None}
                       /\ heap[r].inOverlay \subseteq heap[r].items
                       /\ heap[r].items \subseteq Locs
    /\ pc \in [Clients -> {"idle", "point", "road", "build", "clone", "mark", "answer"}]
    /\ todo \in [Clients -> SUBSET Locs]
    /\ result \in [Clients -> [Msgs -> Refs \cup {None}]]

(* A finished answer has both roads of every group in its circle and no    *)
(* other, and each of them has exactly the points of this circle marked,   *)
(* as far as it has them: nothing that another request, running now or     *)
(* before, marked shows up in it.                                          *)
InCircle(t, g) == {l \in req[t].circle : Points[req[t].lp][l] = g}

AnswerMarksCircle ==
    \A t \in Clients : pc[t] = "answer" =>
        \A m \in Msgs :
            /\ (result[t][m] # None) <=> (InCircle(t, m[1]) # {})
            /\ result[t][m] # None =>
                 LET road == heap[result[t][m]] IN
                 road.inOverlay = InCircle(t, m[1]) \cap road.items

(* Another request can find a road in the cache at any moment: it is the   *)
(* whole road of one version's city, drawn, and without marks.             *)
CachedRoadIsWhole ==
    \A m \in Msgs : cacheRoad[m] # None =>
        LET road == heap[cacheRoad[m]] IN
        /\ road.lp # None
        /\ road.items = City[road.lp][m[1]]
        /\ road.inOverlay = {}

(* Once a message has a road in the cache, and no request that missed it   *)
(* is still building another, that road is answered for ever, whichever    *)
(* version is asked for and whatever tables are published later.           *)
Building(t, m) == pc[t] = "build" /\ Msg(t) = m
RoadFrozen(m) == cacheRoad[m] # None /\ \A t \in Clients : ~Building(t, m)

RoadFreezes ==
    [][\A m \in Msgs : RoadFrozen(m) =>
            /\ RoadFrozen(m)'
            /\ cacheRoad'[m] = cacheRoad[m]
            /\ heap'[cacheRoad[m]] = heap[cacheRoad[m]]]_vars
=============================================================================
