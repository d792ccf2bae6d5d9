----------------------------- MODULE RoadCache -----------------------------
(***************************************************************************)
(* The location tables and the road cache behind every TMC request.        *)
(*                                                                         *)
(* LPInfoContainer keeps, in a static unsynchronised map, one container of *)
(* location rows per map version; MapLoaderTask's LPTableParser fills it   *)
(* in place, a row at a time, while requests read it.  NRoadLoader, meant  *)
(* to be a singleton, keeps per version the City it once built from those  *)
(* rows.  Nothing here takes a lock that excludes anybody.                 *)
(*                                                                         *)
(* Readers are the threads that call NRoadLoader.instance().execute; Task  *)
(* is the scheduled thread.  One location table number per version is      *)
(* modelled, so a version is the key of both maps.  A thread creates at    *)
(* most one NRoadLoader, and at most one container per version, so both    *)
(* are named by their creator.  A row is a location and the revision of    *)
(* the file it came from; 0 stands for no row.                             *)
(*                                                                         *)
(* HashMap operations are atomic here, except iteration, which goes row by *)
(* row: what two simultaneous puts can do inside a HashMap is left out.    *)
(***************************************************************************)
EXTENDS Naturals, FiniteSets, Sequences

CONSTANTS Readers, Task, Versions, Locs,
          Files,        \* Files[v][r]: the locations listed by revision r of v's file
          None

Threads == Readers \cup {Task}

ASSUME ThreadsAssumption == Task \notin Readers /\ None \notin Threads
ASSUME FilesAssumption ==
    /\ Locs \subseteq Nat \ {0}
    /\ Files \in [Versions -> Seq(SUBSET Locs)]

VARIABLES
    pc,         \* where each thread is
    want,       \* the version a reader asks for, or the Task loads
    instance,   \* NRoadLoader.instance
    mine,       \* the NRoadLoader a reader got from instance()
    citys,      \* citys[l][v]: the rows of the city cached by NRoadLoader l
    instanceMap,\* LPInfoContainer.instanceMap: the creator of v's container
    box,        \* the container a thread got from getInstance()
    alllp,      \* alllp[<<t, v>>]: the rows of the container t created for v
    nocity,     \* alllp_nocity[<<t, v>>]: every row ever added, in order
    tree,       \* prtree_nocity: how many rows of nocity the index covers
    city,       \* the city a reader builds or returns, None for null
    todo,       \* the locations a reader, or the Task, has yet to go through
    file,       \* the latest revision of v's file on disk
    loaded      \* the revision of v's file that the Task last loaded

readerVars == <<instance, mine, citys, city>>
tableVars  == <<alllp, nocity, tree>>
fileVars   == <<file, loaded>>
vars == <<pc, want, instanceMap, box, todo, readerVars, tableVars, fileVars>>

Containers == Threads \X Versions
NoRows == [l \in Locs |-> 0]
RowsOf(rows) == {l \in Locs : rows[l] # 0}
NoCitys == [v \in Versions |-> None]

Goto(t, label) == pc' = [pc EXCEPT ![t] = label]

(* A call returns: its locals are gone, the city it returned is what its   *)
(* caller has.                                                             *)
Return(t) == /\ pc' = [pc EXCEPT ![t] = "idle"]
             /\ want' = [want EXCEPT ![t] = None]
             /\ box' = [box EXCEPT ![t] = None]
             /\ mine' = IF t \in Readers THEN [mine EXCEPT ![t] = None] ELSE mine

Init == /\ pc = [t \in Threads |-> "idle"]
        /\ want = [t \in Threads |-> None]
        /\ instance = None
        /\ mine = [t \in Readers |-> None]
        /\ citys = [l \in Readers |-> NoCitys]
        /\ instanceMap = [v \in Versions |-> None]
        /\ box = [t \in Threads |-> None]
        /\ alllp = [c \in Containers |-> NoRows]
        /\ nocity = [c \in Containers |-> <<>>]
        /\ tree = [c \in Containers |-> None]
        /\ city = [t \in Readers |-> None]
        /\ todo = [t \in Threads |-> {}]
        /\ file = [v \in Versions |-> 0]
        /\ loaded = [v \in Versions |-> 0]

-----------------------------------------------------------------------------
(* NRoadLoader.instance                                                    *)

Request(t, v) ==
    /\ pc[t] = "idle"
    /\ Goto(t, "instance")
    /\ want' = [want EXCEPT ![t] = v]
    /\ city' = [city EXCEPT ![t] = None]
    /\ UNCHANGED <<instance, mine, citys, instanceMap, box, todo, tableVars, fileVars>>

(* Mutant: instance() creates without looking. *)
AlwaysCreate(t) ==
    /\ pc[t] = "instance"
    /\ Goto(t, "create")
    /\ UNCHANGED <<want, instanceMap, box, todo, readerVars, tableVars, fileVars>>

CheckInstance(t) ==
    /\ pc[t] = "instance"
    /\ Goto(t, IF instance = None THEN "create" ELSE "return")
    /\ UNCHANGED <<want, instanceMap, box, todo, readerVars, tableVars, fileVars>>

(* Inside synchronized, but without looking at instance again. *)
CreateInstance(t) ==
    /\ pc[t] = "create"
    /\ instance' = t
    /\ Goto(t, "return")
    /\ UNCHANGED <<want, mine, citys, city, instanceMap, box, todo, tableVars, fileVars>>

ReturnInstance(t) ==
    /\ pc[t] = "return"
    /\ mine' = [mine EXCEPT ![t] = instance]
    /\ Goto(t, "test")
    /\ UNCHANGED <<want, instance, citys, city, instanceMap, box, todo, tableVars, fileVars>>

-----------------------------------------------------------------------------
(* NRoadLoader.execute                                                     *)

(* Mutant: every call starts from a new map. *)
AlwaysReset(t) ==
    /\ pc[t] = "test"
    /\ Goto(t, "reset")
    /\ UNCHANGED <<want, instanceMap, box, todo, readerVars, tableVars, fileVars>>

TestCitys(t) ==
    /\ pc[t] = "test"
    /\ Goto(t, IF citys[mine[t]] = NoCitys THEN "reset" ELSE "lookup")
    /\ UNCHANGED <<want, instanceMap, box, todo, readerVars, tableVars, fileVars>>

(* Mutant: citys = null. *)
ResetCitysToNull(t) ==
    /\ pc[t] = "reset"
    /\ citys' = [citys EXCEPT ![mine[t]] = None]
    /\ Goto(t, "lookup")
    /\ UNCHANGED <<want, instance, mine, city, instanceMap, box, todo, tableVars, fileVars>>

(* citys = new HashMap: drops what was put since the test. *)
ResetCitys(t) ==
    /\ pc[t] = "reset"
    /\ citys' = [citys EXCEPT ![mine[t]] = NoCitys]
    /\ Goto(t, "lookup")
    /\ UNCHANGED <<want, instance, mine, city, instanceMap, box, todo, tableVars, fileVars>>

(* A cached city is returned as it is, however old. *)
Lookup(t) ==
    /\ pc[t] = "lookup"
    /\ city' = [city EXCEPT ![t] = citys[mine[t]][want[t]]]
    /\ IF citys[mine[t]][want[t]] = None
       THEN Goto(t, "container") /\ UNCHANGED <<want, box, mine>>
       ELSE Return(t)
    /\ UNCHANGED <<instance, citys, instanceMap, todo, tableVars, fileVars>>

-----------------------------------------------------------------------------
(* LPInfoContainer.getInstance, called by readers and by the Task: look    *)
(* the version up; if it is missing, create an empty container and put it, *)
(* whatever was put meanwhile.                                             *)

(* Mutant: getInstance creates without looking. *)
AlwaysRegister(t) ==
    /\ pc[t] = "container"
    /\ box' = [box EXCEPT ![t] = instanceMap[want[t]]]
    /\ Goto(t, "register")
    /\ UNCHANGED <<want, instanceMap, todo, readerVars, tableVars, fileVars>>

FindContainer(t) ==
    /\ pc[t] = "container"
    /\ box' = [box EXCEPT ![t] = instanceMap[want[t]]]
    /\ Goto(t, IF instanceMap[want[t]] = None THEN "register" ELSE "open")
    /\ UNCHANGED <<want, instanceMap, todo, readerVars, tableVars, fileVars>>

RegisterContainer(t) ==
    /\ pc[t] = "register"
    /\ instanceMap' = [instanceMap EXCEPT ![want[t]] = t]
    /\ box' = [box EXCEPT ![t] = t]
    /\ Goto(t, "open")
    /\ UNCHANGED <<want, todo, readerVars, tableVars, fileVars>>

(* The rows of the container that t works on. *)
Rows(t) == alllp[<<box[t], want[t]>>]

-----------------------------------------------------------------------------
(* LPInfoContainer.readPosLPsInGrids, and the rest of execute.             *)

StartRead(t) ==
    /\ pc[t] = "open" /\ t \in Readers
    /\ todo' = [todo EXCEPT ![t] = RowsOf(Rows(t))]
    /\ city' = [city EXCEPT ![t] = NoRows]
    /\ Goto(t, "read")
    /\ UNCHANGED <<want, instance, mine, citys, instanceMap, box, tableVars, fileVars>>

(* The iterator looks whether a row was inserted since it started.         *)
Undisturbed(t) == RowsOf(Rows(t)) = RowsOf(city[t]) \cup todo[t]

ReadRow(t, l) ==
    /\ pc[t] = "read" /\ l \in todo[t]
    /\ Undisturbed(t)
    /\ city' = [city EXCEPT ![t][l] = Rows(t)[l]]
    /\ todo' = [todo EXCEPT ![t] = @ \ {l}]
    /\ UNCHANGED <<pc, want, instance, mine, citys, instanceMap, box, tableVars, fileVars>>

(* ConcurrentModificationException: nothing in execute catches it. *)
Throw(t) ==
    /\ pc[t] = "read" /\ todo[t] # {}
    /\ ~Undisturbed(t)
    /\ city' = [city EXCEPT ![t] = None]
    /\ todo' = [todo EXCEPT ![t] = {}]
    /\ Return(t)
    /\ UNCHANGED <<instance, citys, instanceMap, tableVars, fileVars>>

(* Mutant: with no row, look again. *)
RetryNull(t) ==
    /\ pc[t] = "read" /\ todo[t] = {}
    /\ city[t] = NoRows
    /\ Goto(t, "container")
    /\ UNCHANGED <<want, instanceMap, box, todo, readerVars, tableVars, fileVars>>

(* No row: execute returns null and caches nothing. *)
ReturnNull(t) ==
    /\ pc[t] = "read" /\ todo[t] = {}
    /\ city[t] = NoRows
    /\ city' = [city EXCEPT ![t] = None]
    /\ Return(t)
    /\ UNCHANGED <<instance, citys, instanceMap, todo, tableVars, fileVars>>

(* Mutant: the cache key has no version. *)
PutCityForAll(t) ==
    /\ pc[t] = "read" /\ todo[t] = {}
    /\ city[t] # NoRows
    /\ citys' = [citys EXCEPT ![mine[t]] = [v \in Versions |-> city[t]]]
    /\ Return(t)
    /\ UNCHANGED <<instance, city, instanceMap, todo, tableVars, fileVars>>

(* The roads are sorted from the rows read, the city is put in the cache,  *)
(* and a clone of it is returned.                                          *)
PutCity(t) ==
    /\ pc[t] = "read" /\ todo[t] = {}
    /\ city[t] # NoRows
    /\ citys' = [citys EXCEPT ![mine[t]][want[t]] = city[t]]
    /\ Return(t)
    /\ UNCHANGED <<instance, city, instanceMap, todo, tableVars, fileVars>>

-----------------------------------------------------------------------------
(* The files, and the scheduled Task that loads them.                      *)

(* An operator puts a new revision of v's file in place. *)
Publish(v) ==
    /\ file[v] < Len(Files[v])
    /\ file' = [file EXCEPT ![v] = @ + 1]
    /\ UNCHANGED <<pc, want, instanceMap, box, todo, readerVars, tableVars, loaded>>

(* The loader task of the framework hands a changed file to LPTableParser. *)
StartLoad(v) ==
    /\ pc[Task] = "idle"
    /\ loaded[v] < file[v]
    /\ loaded' = [loaded EXCEPT ![v] = file[v]]
    /\ want' = [want EXCEPT ![Task] = v]
    /\ Goto(Task, "container")
    /\ UNCHANGED <<instanceMap, box, todo, readerVars, tableVars, file>>

OpenFile ==
    /\ pc[Task] = "open"
    /\ todo' = [todo EXCEPT ![Task] = Files[want[Task]][loaded[want[Task]]]]
    /\ Goto(Task, "load")
    /\ UNCHANGED <<want, instanceMap, box, readerVars, tableVars, fileVars>>

(* loadData adds a row to the list, and to the table in place of the row   *)
(* the location had; it clears neither.                                    *)
LoadRow(l) ==
    LET v == want[Task]  c == <<box[Task], v>> IN
    /\ pc[Task] = "load" /\ l \in todo[Task]
    /\ alllp' = [alllp EXCEPT ![c][l] = loaded[v]]
    /\ nocity' = [nocity EXCEPT ![c] = Append(@, <<l, loaded[v]>>)]
    /\ todo' = [todo EXCEPT ![Task] = @ \ {l}]
    /\ UNCHANGED <<pc, want, instanceMap, box, tree, readerVars, fileVars>>

(* A malformed row: putData2Container logs the exception and goes on; the  *)
(* rows before it stay, the rest of the file is not read.                  *)
AbortLoad ==
    /\ pc[Task] = "load" /\ todo[Task] # {}
    /\ todo' = [todo EXCEPT ![Task] = {}]
    /\ UNCHANGED <<pc, want, instanceMap, box, readerVars, tableVars, fileVars>>

(* Mutant: a container that has an index is not indexed again. *)
IndexOnce ==
    /\ pc[Task] = "load" /\ todo[Task] = {}
    /\ tree' = [c \in Containers |-> IF instanceMap[c[2]] = c[1] /\ tree[c] = None
                                     THEN Len(nocity[c]) ELSE tree[c]]
    /\ Return(Task)
    /\ UNCHANGED <<instance, citys, city, instanceMap, todo, alllp, nocity, fileVars>>

(* afterLoaded: index every container that is in the map. *)
AfterLoaded ==
    /\ pc[Task] = "load" /\ todo[Task] = {}
    /\ tree' = [c \in Containers |-> IF instanceMap[c[2]] = c[1]
                                     THEN Len(nocity[c]) ELSE tree[c]]
    /\ Return(Task)
    /\ UNCHANGED <<instance, citys, city, instanceMap, todo, alllp, nocity, fileVars>>

-----------------------------------------------------------------------------
Execute(t) == \/ CheckInstance(t) \/ CreateInstance(t) \/ ReturnInstance(t)
              \/ TestCitys(t) \/ ResetCitys(t) \/ Lookup(t)
              \/ FindContainer(t) \/ RegisterContainer(t)
              \/ StartRead(t) \/ \E l \in Locs : ReadRow(t, l)
              \/ Throw(t) \/ ReturnNull(t) \/ PutCity(t)

Load == \/ \E v \in Versions : StartLoad(v)
        \/ FindContainer(Task) \/ RegisterContainer(Task)
        \/ OpenFile \/ \E l \in Locs : LoadRow(l)
        \/ AbortLoad \/ AfterLoaded

Next == \/ \E t \in Readers, v \in Versions : Request(t, v)
        \/ \E t \in Readers : Execute(t)
        \/ \E v \in Versions : Publish(v)
        \/ Load

Spec == Init /\ [][Next]_vars

(* Request threads and the scheduled thread run when they can; nobody has  *)
(* to send a request or publish a file.                                    *)
FairSpec == Spec /\ WF_vars(Load) /\ \A t \in Readers : WF_vars(Execute(t))

-----------------------------------------------------------------------------
(* Properties.                                                             *)

Rowsets == [Locs -> Nat]

(* The range of every variable. *)
TypeOK ==
    /\ pc \in [Threads -> {"idle", "instance", "create", "return", "test", "reset",
                           "lookup", "container", "register", "open", "read", "load"}]
    /\ want \in [Threads -> Versions \cup {None}]
    /\ instance \in Readers \cup {None}
    /\ mine \in [Readers -> Readers \cup {None}]
    /\ citys \in [Readers -> [Versions -> Rowsets \cup {None}]]
    /\ instanceMap \in [Versions -> Threads \cup {None}]
    /\ box \in [Threads -> Threads \cup {None}]
    /\ alllp \in [Containers -> Rowsets]
    /\ nocity \in [Containers -> Seq(Locs \X Nat)]
    /\ tree \in [Containers -> Nat \cup {None}]
    /\ city \in [Readers -> Rowsets \cup {None}]
    /\ todo \in [Threads -> SUBSET Locs]
    /\ file \in [Versions -> Nat]
    /\ loaded \in [Versions -> Nat]

(* What NRoadLoader.instance promises in its comment: there is one object. *)
SingleLoader ==
    \A t, u \in Readers : mine[t] # None /\ mine[u] # None => mine[t] = mine[u]

(* What it gives: several objects may be made, but only by threads that    *)
(* looked before the first one was there; after them it never changes.     *)
LoaderSettled == instance # None /\ \A t \in Readers : pc[t] # "create"
LoaderSettles == [][LoaderSettled => LoaderSettled' /\ UNCHANGED instance]_vars

(* A version's container is settled when it is in the map, no thread is    *)
(* about to put another in its place, and the Task is not filling one that *)
(* has lost its place.                                                     *)
ContainerSettled(v) ==
    /\ instanceMap[v] # None
    /\ \A t \in Threads : want[t] = v => pc[t] # "register"
    /\ want[Task] = v /\ pc[Task] \in {"open", "load"} => box[Task] = instanceMap[v]

(* Once settled it stays so: every later load fills the container that     *)
(* requests read.  Before, a request that raced the first load can leave   *)
(* the loaded rows in a container nobody finds again.                      *)
ContainerSettles ==
    [][\A v \in Versions : ContainerSettled(v) =>
            ContainerSettled(v)' /\ instanceMap'[v] = instanceMap[v]]_vars

(* A cached city is frozen when no thread is about to replace the map it   *)
(* is in, or is building another city for the same key.                    *)
CityFrozen(l, v) ==
    /\ citys[l][v] # None
    /\ \A t \in Readers : mine[t] = l =>
          /\ pc[t] # "reset"
          /\ want[t] = v => pc[t] \notin {"container", "register", "open", "read"}

(* A frozen city is never replaced, whatever is loaded afterwards: it is   *)
(* what every later request of that version gets.                          *)
CityFreezes ==
    [][\A l \in Readers, v \in Versions : CityFrozen(l, v) =>
            CityFrozen(l, v)' /\ citys'[l][v] = citys[l][v]]_vars

(* A cached city has a row, and every row of it was in a revision of its   *)
(* own version's file, under the same location, that has been loaded.      *)
CityFromItsFile ==
    \A l \in Readers, v \in Versions : citys[l][v] # None =>
        LET rows == citys[l][v] IN
        /\ RowsOf(rows) # {}
        /\ \A x \in RowsOf(rows) : rows[x] <= loaded[v] /\ x \in Files[v][rows[x]]

(* While no load is under way, the index of every container that requests  *)
(* can reach, if it has one, covers every row of its table.                *)
IndexCoversTable ==
    pc[Task] = "idle" =>
        \A v \in Versions : instanceMap[v] # None =>
            LET c == <<instanceMap[v], v>> IN
            tree[c] # None =>
                \A x \in RowsOf(alllp[c]) :
                    \E k \in 1..tree[c] : nocity[c][k] = <<x, alllp[c][x]>>

(* Every call of execute ends: with a city, with null or with an exception. *)
EveryRequestEnds == \A t \in Readers : pc[t] # "idle" ~> pc[t] = "idle"
=============================================================================
