-------------------------- MODULE RoadCacheProofs --------------------------
(***************************************************************************)
(* What holds of RoadCache for any number of request threads and versions: *)
(* the invariants the runs check, and the properties of what settles.      *)
(***************************************************************************)
EXTENDS RoadCache, TLAPS

(***************************************************************************)
(* The inductive invariant, in parts.                                      *)
(***************************************************************************)

(* What a thread has, depending on where it is. *)
Control ==
    /\ \A t \in Threads : /\ pc[t] # "idle" => want[t] \in Versions
                          /\ pc[t] \in {"open", "read", "load"} => box[t] \in Threads
    /\ \A t \in Readers :
          /\ pc[t] # "load"
          /\ pc[t] = "return" => instance # None
          /\ pc[t] \notin {"idle", "instance", "create", "return"} => mine[t] \in Readers
          /\ pc[t] = "read" => city[t] \in Rowsets
    /\ pc[Task] \in {"idle", "container", "register", "open", "load"}

(* The Task loads a revision that is on disk, and only its locations.      *)
LoadsFromFile ==
    /\ \A v \in Versions : loaded[v] \in 0..file[v] /\ file[v] \in 0..Len(Files[v])
    /\ pc[Task] # "idle" => loaded[want[Task]] # 0
    /\ pc[Task] = "load" => todo[Task] \subseteq Files[want[Task]][loaded[want[Task]]]

(* A row that v's file has had, in a revision that was loaded.             *)
Genuine(v, l, r) == r <= loaded[v] /\ l \in Files[v][r]

TablesGenuine ==
    \A t \in Threads, v \in Versions, l \in Locs :
        alllp[<<t, v>>][l] # 0 => Genuine(v, l, alllp[<<t, v>>][l])

ReadersGenuine ==
    \A t \in Readers, l \in Locs :
        pc[t] = "read" /\ city[t][l] # 0 => Genuine(want[t], l, city[t][l])

CachesGenuine ==
    \A r \in Readers, v \in Versions : citys[r][v] # None =>
        /\ \E l \in Locs : citys[r][v][l] # 0
        /\ \A l \in Locs : citys[r][v][l] # 0 => Genuine(v, l, citys[r][v][l])

(* Every row of a table is in the list the index is built from.            *)
Among(s, n, row) == \E k \in 1..n : s[k] = row

Listed(t, v, n) ==
    \A l \in Locs : alllp[<<t, v>>][l] # 0 =>
        Among(nocity[<<t, v>>], n, <<l, alllp[<<t, v>>][l]>>)

TablesListed == \A t \in Threads, v \in Versions : Listed(t, v, Len(nocity[<<t, v>>]))

(* t has not yet put its container for v in the map. *)
Fresh(t, v) ==
    /\ instanceMap[v] # t
    /\ \A u \in Threads :
          want[u] = v /\ pc[u] \in {"open", "read", "load"} => box[u] # t
    /\ tree[<<t, v>>] = None

(* A container enters the map once, without an index.                      *)
EntersFresh ==
    \A t \in Threads, v \in Versions :
        instanceMap[v] = None \/ (pc[t] = "register" /\ want[t] = v) => Fresh(t, v)

-----------------------------------------------------------------------------
(* Every step keeps the ranges; a city read or a container found is one     *)
(* because of where the thread is.                                         *)
LEMMA TypeStep ==
  ASSUME TypeOK, Control, LoadsFromFile, [Next]_vars
  PROVE  TypeOK'
  <1>. USE ThreadsAssumption, FilesAssumption
     DEF TypeOK, Rowsets, Threads, Containers, readerVars, tableVars, fileVars, vars
  <1>1. ASSUME NEW t \in Readers, NEW v \in Versions, Request(t, v) PROVE TypeOK'
      BY <1>1 DEF Request, Goto
  <1>2. ASSUME NEW t \in Readers, CheckInstance(t) PROVE TypeOK'
      BY <1>2 DEF CheckInstance, Goto
  <1>3. ASSUME NEW t \in Readers, CreateInstance(t) PROVE TypeOK'
      BY <1>3 DEF CreateInstance, Goto
  <1>4. ASSUME NEW t \in Readers, ReturnInstance(t) PROVE TypeOK'
      BY <1>4 DEF ReturnInstance, Goto
  <1>5. ASSUME NEW t \in Readers, TestCitys(t) PROVE TypeOK'
      BY <1>5 DEF TestCitys, Goto
  <1>6. ASSUME NEW t \in Readers, ResetCitys(t) PROVE TypeOK'
      BY <1>6 DEF ResetCitys, Goto, NoCitys
  <1>7. ASSUME NEW t \in Readers, Lookup(t) PROVE TypeOK'
      <2>1. t \in Threads /\ mine[t] \in Readers /\ want[t] \in Versions
        BY <1>7 DEF Control, Lookup
      <2>2. citys[mine[t]][want[t]] \in Rowsets \cup {None}
        BY <2>1
      <2>3. city' \in [Readers -> Rowsets \cup {None}]
        BY <1>7, <2>2 DEF Lookup
      <2>4. /\ \/ pc' = [pc EXCEPT ![t] = "container"]
               \/ pc' = [pc EXCEPT ![t] = "idle"]
            /\ want' \in [Threads -> Versions \cup {None}]
            /\ box' \in [Threads -> Threads \cup {None}]
            /\ mine' \in [Readers -> Readers \cup {None}]
        BY <1>7, <2>1 DEF Lookup, Goto, Return
      <2>5. UNCHANGED <<instance, citys, instanceMap, todo, alllp, nocity, tree, file, loaded>>
        BY <1>7 DEF Lookup
      <2>6. QED
        BY <2>1, <2>3, <2>4, <2>5
  <1>8. ASSUME NEW t \in Threads, FindContainer(t) PROVE TypeOK'
      BY <1>8 DEF FindContainer, Goto, Control
  <1>9. ASSUME NEW t \in Threads, RegisterContainer(t) PROVE TypeOK'
      BY <1>9 DEF RegisterContainer, Goto, Control
  <1>10. ASSUME NEW t \in Readers, StartRead(t) PROVE TypeOK'
      BY <1>10 DEF StartRead, Goto, NoRows, RowsOf, Rows, Control
  <1>11. ASSUME NEW t \in Readers, NEW l \in Locs, ReadRow(t, l) PROVE TypeOK'
      BY <1>11 DEF ReadRow, Rows, Control
  <1>12. ASSUME NEW t \in Readers, Throw(t) PROVE TypeOK'
      BY <1>12 DEF Throw, Return
  <1>13. ASSUME NEW t \in Readers, ReturnNull(t) PROVE TypeOK'
      BY <1>13 DEF ReturnNull, Return
  <1>14. ASSUME NEW t \in Readers, PutCity(t) PROVE TypeOK'
      BY <1>14 DEF PutCity, Return
  <1>15. ASSUME NEW v \in Versions, Publish(v) PROVE TypeOK'
      BY <1>15 DEF Publish
  <1>16. ASSUME NEW v \in Versions, StartLoad(v) PROVE TypeOK'
      BY <1>16 DEF StartLoad, Goto
  <1>17. CASE OpenFile
      BY <1>17 DEF OpenFile, Goto, Control, LoadsFromFile
  <1>18. ASSUME NEW l \in Locs, LoadRow(l) PROVE TypeOK'
      <2>. DEFINE v == want[Task]
                  c == <<box[Task], v>>
      <2>1. v \in Versions /\ c \in Containers /\ loaded[v] \in Nat
        BY <1>18 DEF Control, LoadRow
      <2>2. alllp' \in [Containers -> Rowsets]
        BY <1>18, <2>1 DEF LoadRow
      <2>3. nocity' \in [Containers -> Seq(Locs \X Nat)]
        <3>1. Append(nocity[c], <<l, loaded[v]>>) \in Seq(Locs \X Nat)
          BY <2>1
        <3>2. QED
          BY <1>18, <2>1, <3>1 DEF LoadRow
      <2>4. QED
        BY <1>18, <2>2, <2>3 DEF LoadRow
  <1>19. CASE AbortLoad
      BY <1>19 DEF AbortLoad
  <1>20. CASE AfterLoaded
      BY <1>20 DEF AfterLoaded, Return
  <1>21. CASE UNCHANGED vars
      BY <1>21
  <1>22. QED
      BY <1>1, <1>2, <1>3, <1>4, <1>5, <1>6, <1>7, <1>8, <1>9, <1>10, <1>11, <1>12,
      <1>13, <1>14, <1>15, <1>16, <1>17, <1>18, <1>19, <1>20, <1>21
         DEF Next, Execute, Load, Threads

(* Every step leaves a thread with what its new place requires.             *)
LEMMA ControlStep ==
  ASSUME TypeOK, Control, [Next]_vars
  PROVE  Control'
  <1>. USE ThreadsAssumption
     DEF TypeOK, Control, Rowsets, Threads, Containers, readerVars, tableVars,
         fileVars, vars
  <1>1. ASSUME NEW t \in Readers, NEW v \in Versions, Request(t, v) PROVE Control'
      BY <1>1 DEF Request, Goto
  <1>2. ASSUME NEW t \in Readers, CheckInstance(t) PROVE Control'
      BY <1>2 DEF CheckInstance, Goto
  <1>3. ASSUME NEW t \in Readers, CreateInstance(t) PROVE Control'
      BY <1>3 DEF CreateInstance, Goto
  <1>4. ASSUME NEW t \in Readers, ReturnInstance(t) PROVE Control'
      BY <1>4 DEF ReturnInstance, Goto
  <1>5. ASSUME NEW t \in Readers, TestCitys(t) PROVE Control'
      BY <1>5 DEF TestCitys, Goto
  <1>6. ASSUME NEW t \in Readers, ResetCitys(t) PROVE Control'
      BY <1>6 DEF ResetCitys, Goto, NoCitys
  <1>7. ASSUME NEW t \in Readers, Lookup(t) PROVE Control'
      <2>1. \A u \in Readers \ {t} : city'[u] = city[u]
        BY <1>7 DEF Lookup
      <2>2. \/ Goto(t, "container") /\ UNCHANGED <<want, box, mine>>
            \/ Return(t)
        BY <1>7 DEF Lookup
      <2>3. pc[t] = "lookup" /\ UNCHANGED instance
        BY <1>7 DEF Lookup
      <2>4. CASE Goto(t, "container") /\ UNCHANGED <<want, box, mine>>
        BY <2>1, <2>3, <2>4 DEF Goto
      <2>5. CASE Return(t)
        BY <2>1, <2>3, <2>5 DEF Return
      <2>6. QED
        BY <2>2, <2>4, <2>5
  <1>8. ASSUME NEW t \in Threads, FindContainer(t) PROVE Control'
      BY <1>8 DEF FindContainer, Goto
  <1>9. ASSUME NEW t \in Threads, RegisterContainer(t) PROVE Control'
      BY <1>9 DEF RegisterContainer, Goto
  <1>10. ASSUME NEW t \in Readers, StartRead(t) PROVE Control'
      BY <1>10 DEF StartRead, Goto, NoRows
  <1>11. ASSUME NEW t \in Readers, NEW l \in Locs, ReadRow(t, l) PROVE Control'
      BY <1>11 DEF ReadRow, Rows
  <1>12. ASSUME NEW t \in Readers, Throw(t) PROVE Control'
      BY <1>12 DEF Throw, Return
  <1>13. ASSUME NEW t \in Readers, ReturnNull(t) PROVE Control'
      BY <1>13 DEF ReturnNull, Return
  <1>14. ASSUME NEW t \in Readers, PutCity(t) PROVE Control'
      BY <1>14 DEF PutCity, Return
  <1>15. ASSUME NEW v \in Versions, Publish(v) PROVE Control'
      BY <1>15 DEF Publish
  <1>16. ASSUME NEW v \in Versions, StartLoad(v) PROVE Control'
      BY <1>16 DEF StartLoad, Goto
  <1>17. CASE OpenFile
      BY <1>17 DEF OpenFile, Goto
  <1>18. ASSUME NEW l \in Locs, LoadRow(l) PROVE Control'
      BY <1>18 DEF LoadRow
  <1>19. CASE AbortLoad
      BY <1>19 DEF AbortLoad
  <1>20. CASE AfterLoaded
      BY <1>20 DEF AfterLoaded, Return
  <1>21. CASE UNCHANGED vars
      BY <1>21
  <1>22. QED
      BY <1>1, <1>2, <1>3, <1>4, <1>5, <1>6, <1>7, <1>8, <1>9, <1>10, <1>11, <1>12,
      <1>13, <1>14, <1>15, <1>16, <1>17, <1>18, <1>19, <1>20, <1>21
         DEF Next, Execute, Load, Threads

(* Revisions only grow, and the Task goes through the one it noted.         *)
LEMMA LoadsStep ==
  ASSUME TypeOK, Control, LoadsFromFile, [Next]_vars
  PROVE  LoadsFromFile'
  <1>. USE ThreadsAssumption, FilesAssumption
     DEF TypeOK, Control, LoadsFromFile, Threads, Containers, readerVars, tableVars,
         fileVars, vars
  <1>1. ASSUME NEW t \in Readers, NEW v \in Versions, Request(t, v) PROVE LoadsFromFile'
      BY <1>1 DEF Request, Goto
  <1>2. ASSUME NEW t \in Readers, CheckInstance(t) PROVE LoadsFromFile'
      BY <1>2 DEF CheckInstance, Goto
  <1>3. ASSUME NEW t \in Readers, CreateInstance(t) PROVE LoadsFromFile'
      BY <1>3 DEF CreateInstance, Goto
  <1>4. ASSUME NEW t \in Readers, ReturnInstance(t) PROVE LoadsFromFile'
      BY <1>4 DEF ReturnInstance, Goto
  <1>5. ASSUME NEW t \in Readers, TestCitys(t) PROVE LoadsFromFile'
      BY <1>5 DEF TestCitys, Goto
  <1>6. ASSUME NEW t \in Readers, ResetCitys(t) PROVE LoadsFromFile'
      BY <1>6 DEF ResetCitys, Goto
  <1>7. ASSUME NEW t \in Readers, Lookup(t) PROVE LoadsFromFile'
      BY <1>7 DEF Lookup, Goto, Return
  <1>8. ASSUME NEW t \in Threads, FindContainer(t) PROVE LoadsFromFile'
      BY <1>8 DEF FindContainer, Goto
  <1>9. ASSUME NEW t \in Threads, RegisterContainer(t) PROVE LoadsFromFile'
      BY <1>9 DEF RegisterContainer, Goto
  <1>10. ASSUME NEW t \in Readers, StartRead(t) PROVE LoadsFromFile'
      BY <1>10 DEF StartRead, Goto
  <1>11. ASSUME NEW t \in Readers, NEW l \in Locs, ReadRow(t, l) PROVE LoadsFromFile'
      BY <1>11 DEF ReadRow
  <1>12. ASSUME NEW t \in Readers, Throw(t) PROVE LoadsFromFile'
      BY <1>12 DEF Throw, Return
  <1>13. ASSUME NEW t \in Readers, ReturnNull(t) PROVE LoadsFromFile'
      BY <1>13 DEF ReturnNull, Return
  <1>14. ASSUME NEW t \in Readers, PutCity(t) PROVE LoadsFromFile'
      BY <1>14 DEF PutCity, Return
  <1>15. ASSUME NEW v \in Versions, Publish(v) PROVE LoadsFromFile'
      BY <1>15 DEF Publish
  <1>16. ASSUME NEW v \in Versions, StartLoad(v) PROVE LoadsFromFile'
      BY <1>16 DEF StartLoad, Goto
  <1>17. CASE OpenFile
      BY <1>17 DEF OpenFile, Goto
  <1>18. ASSUME NEW l \in Locs, LoadRow(l) PROVE LoadsFromFile'
      BY <1>18 DEF LoadRow
  <1>19. CASE AbortLoad
      BY <1>19 DEF AbortLoad
  <1>20. CASE AfterLoaded
      BY <1>20 DEF AfterLoaded, Return
  <1>21. CASE UNCHANGED vars
      BY <1>21
  <1>22. QED
      BY <1>1, <1>2, <1>3, <1>4, <1>5, <1>6, <1>7, <1>8, <1>9, <1>10, <1>11, <1>12,
      <1>13, <1>14, <1>15, <1>16, <1>17, <1>18, <1>19, <1>20, <1>21
         DEF Next, Execute, Load, Threads

-----------------------------------------------------------------------------
(* What a loaded revision has listed, it has listed for good.              *)
LEMMA GenuineStays ==
  ASSUME TypeOK, LoadsFromFile, [Next]_vars,
         NEW v \in Versions, NEW l, NEW r \in Nat, Genuine(v, l, r)
  PROVE  Genuine(v, l, r)'
  <1>1. loaded'[v] \in Nat /\ loaded[v] <= loaded'[v]
    <2>1. ASSUME NEW w \in Versions, StartLoad(w) PROVE loaded'[v] \in Nat /\ loaded[v] <= loaded'[v]
      BY <2>1 DEF TypeOK, LoadsFromFile, StartLoad
    <2>2. CASE UNCHANGED loaded
      BY <2>2 DEF TypeOK
    <2>3. QED
      BY <2>1, <2>2
         DEF Next, Execute, Load, Request, CheckInstance, CreateInstance,
             ReturnInstance, TestCitys, ResetCitys, Lookup, FindContainer,
             RegisterContainer, StartRead, ReadRow, Throw, ReturnNull, PutCity,
             Publish, StartLoad, OpenFile, LoadRow, AbortLoad, AfterLoaded, Goto,
             Return, Threads, Containers, readerVars, tableVars, fileVars, vars
  <1>2. QED
    BY <1>1 DEF Genuine, TypeOK

(* Rows enter a table through LoadRow only. *)
LEMMA TablesGenuineStep ==
  ASSUME TypeOK, Control, LoadsFromFile, TablesGenuine, [Next]_vars
  PROVE  TablesGenuine'
  <1>. SUFFICES ASSUME NEW t \in Threads, NEW v \in Versions, NEW l \in Locs,
                       alllp'[<<t, v>>][l] # 0
                PROVE  Genuine(v, l, alllp[<<t, v>>][l])'
    BY DEF TablesGenuine
  <1>1. CASE alllp'[<<t, v>>][l] = alllp[<<t, v>>][l]
    BY <1>1, GenuineStays DEF TablesGenuine, Genuine, TypeOK, Containers, Rowsets
  <1>2. ASSUME NEW k \in Locs, LoadRow(k), alllp'[<<t, v>>][l] # alllp[<<t, v>>][l]
        PROVE  Genuine(v, l, alllp[<<t, v>>][l])'
    <2>1. <<t, v>> = <<box[Task], want[Task]>> /\ k = l /\ alllp'[<<t, v>>][l] = loaded[v]
      BY <1>2 DEF LoadRow, TypeOK, Containers, Rowsets
    <2>2. l \in Files[v][loaded[v]] /\ loaded' = loaded
      BY <1>2, <2>1 DEF LoadRow, LoadsFromFile, fileVars
    <2>3. QED
      BY <2>1, <2>2 DEF Genuine, TypeOK
  <1>3. CASE UNCHANGED alllp
    BY <1>1, <1>3
  <1>4. QED
    BY <1>1, <1>2, <1>3
       DEF Next, Execute, Load, Request, CheckInstance, CreateInstance, ReturnInstance,
           TestCitys, ResetCitys, Lookup, FindContainer, RegisterContainer, StartRead,
           ReadRow, Throw, ReturnNull, PutCity, Publish, StartLoad, OpenFile, LoadRow,
           AbortLoad, AfterLoaded, Goto, Return, Threads, Containers, readerVars,
           tableVars, fileVars, vars

(* A reader's city grows by the rows of the table of the version it wants. *)
LEMMA ReadersGenuineStep ==
  ASSUME TypeOK, Control, LoadsFromFile, TablesGenuine, ReadersGenuine, [Next]_vars
  PROVE  ReadersGenuine'
  <1>. SUFFICES ASSUME NEW t \in Readers, NEW l \in Locs,
                       pc'[t] = "read", city'[t][l] # 0
                PROVE  Genuine(want[t], l, city[t][l])'
    BY DEF ReadersGenuine
  <1>1. CASE pc[t] = "read" /\ want'[t] = want[t] /\ city'[t][l] = city[t][l]
    <2>1. want[t] \in Versions /\ city[t][l] \in Nat
      BY <1>1 DEF Control, Threads, Rowsets
    <2>2. QED
      BY <1>1, <2>1, GenuineStays DEF ReadersGenuine, Genuine
  <1>2. ASSUME NEW u \in Readers, StartRead(u) PROVE Genuine(want[t], l, city[t][l])'
    <2>1. t # u
      BY <1>2 DEF StartRead, NoRows, TypeOK
    <2>2. QED
      BY <1>1, <1>2, <2>1 DEF StartRead, Goto, TypeOK, Threads
  <1>3. ASSUME NEW u \in Readers, NEW k \in Locs, ReadRow(u, k)
        PROVE  Genuine(want[t], l, city[t][l])'
    <2>1. CASE t = u /\ k = l
      <3>1. pc[t] = "read" /\ want'[t] = want[t] /\ UNCHANGED <<alllp, loaded>>
        BY <1>3, <2>1 DEF ReadRow, tableVars, fileVars
      <3>2. want[t] \in Versions /\ box[t] \in Threads /\ city[t] \in Rowsets
        BY <3>1 DEF Control, Threads
      <3>3. city'[t][l] = alllp[<<box[t], want[t]>>][l]
        BY <1>3, <2>1, <3>2 DEF ReadRow, Rows, TypeOK, Rowsets
      <3>4. QED
        BY <3>1, <3>2, <3>3 DEF TablesGenuine, Genuine
    <2>2. CASE t # u \/ k # l
      <3>1. city[u] \in Rowsets
        BY <1>3 DEF ReadRow, Control
      <3>2. pc[t] = "read" /\ want'[t] = want[t] /\ city'[t][l] = city[t][l]
        BY <1>3, <2>2, <3>1 DEF ReadRow, TypeOK, Rowsets
      <3>3. QED
        BY <1>1, <3>2
    <2>3. QED
      BY <2>1, <2>2
  <1>4. ASSUME NEW u \in Threads,
               \/ \E v \in Versions : Request(u, v)
               \/ u \in Readers /\ (CheckInstance(u) \/ CreateInstance(u) \/ ReturnInstance(u))
               \/ u \in Readers /\ (TestCitys(u) \/ ResetCitys(u))
               \/ FindContainer(u) \/ RegisterContainer(u)
        PROVE  Genuine(want[t], l, city[t][l])'
    <2>1. t # u
      BY <1>4
         DEF TypeOK, Threads, Request, CheckInstance, CreateInstance, ReturnInstance,
             TestCitys, ResetCitys, FindContainer, RegisterContainer, Goto
    <2>2. pc[t] = "read" /\ want'[t] = want[t] /\ city'[t] = city[t]
      BY <1>4, <2>1
         DEF TypeOK, Threads, Request, CheckInstance, CreateInstance, ReturnInstance,
             TestCitys, ResetCitys, FindContainer, RegisterContainer, Goto, readerVars
    <2>3. QED
      BY <1>1, <2>2
  <1>5. ASSUME NEW u \in Readers, Lookup(u) \/ Throw(u) \/ ReturnNull(u) \/ PutCity(u)
        PROVE  Genuine(want[t], l, city[t][l])'
    <2>1. pc'[u] \in {"idle", "container"}
      BY <1>5 DEF TypeOK, Threads, Lookup, Throw, ReturnNull, PutCity, Goto, Return
    <2>2. t # u
      BY <2>1
    <2>3. city'[t] = city[t]
      BY <1>5, <2>2 DEF TypeOK, Lookup, Throw, ReturnNull, PutCity
    <2>4. pc[t] = "read" /\ want'[t] = want[t]
      BY <1>5, <2>2
         DEF TypeOK, Threads, Lookup, Throw, ReturnNull, PutCity, Goto, Return
    <2>5. QED
      BY <1>1, <2>3, <2>4
  <1>6. CASE \/ \E v \in Versions : Publish(v) \/ StartLoad(v)
             \/ OpenFile \/ (\E k \in Locs : LoadRow(k)) \/ AbortLoad \/ AfterLoaded
    <2>1. pc[t] = "read" /\ want'[t] = want[t] /\ city'[t] = city[t]
      BY <1>6, ThreadsAssumption
         DEF TypeOK, Threads, Publish, StartLoad, OpenFile, LoadRow, AbortLoad,
             AfterLoaded, Goto, Return, readerVars
    <2>2. QED
      BY <1>1, <2>1
  <1>7. CASE UNCHANGED vars
    BY <1>1, <1>7 DEF vars, readerVars
  <1>8. QED
    BY <1>2, <1>3, <1>4, <1>6, <1>7, <1>5 DEF Next, Execute, Load, Threads

(* A city is cached by PutCity only, and only with a row in it.            *)
LEMMA CachesGenuineStep ==
  ASSUME TypeOK, Control, LoadsFromFile, ReadersGenuine, CachesGenuine, [Next]_vars
  PROVE  CachesGenuine'
  <1>. SUFFICES ASSUME NEW r \in Readers, NEW v \in Versions, citys'[r][v] # None
                PROVE  /\ \E l \in Locs : citys'[r][v][l] # 0
                       /\ \A l \in Locs : citys'[r][v][l] # 0 => Genuine(v, l, citys[r][v][l])'
    BY DEF CachesGenuine
  <1>1. CASE citys'[r][v] = citys[r][v]
    BY <1>1, GenuineStays DEF CachesGenuine, Genuine, TypeOK, Rowsets
  <1>2. ASSUME NEW t \in Readers, ResetCitys(t) PROVE citys'[r][v] = citys[r][v]
    BY <1>2 DEF ResetCitys, NoCitys, TypeOK
  <1>3. ASSUME NEW t \in Readers, PutCity(t), citys'[r][v] # citys[r][v]
        PROVE  /\ \E l \in Locs : citys'[r][v][l] # 0
               /\ \A l \in Locs : citys'[r][v][l] # 0 => Genuine(v, l, citys[r][v][l])'
    <2>1. want[t] = v /\ citys'[r][v] = city[t]
      BY <1>3 DEF PutCity, TypeOK
    <2>2. pc[t] = "read" /\ city[t] \in Rowsets /\ city[t] # NoRows /\ loaded' = loaded
      BY <1>3 DEF PutCity, Control, fileVars
    <2>3. \E l \in Locs : city[t][l] # 0
      BY <2>2 DEF NoRows, Rowsets
    <2>4. QED
      BY <2>1, <2>2, <2>3 DEF ReadersGenuine, Genuine
  <1>4. CASE UNCHANGED citys
    BY <1>1, <1>4
  <1>5. QED
    BY <1>1, <1>2, <1>3, <1>4
       DEF Next, Execute, Load, Request, CheckInstance, CreateInstance, ReturnInstance,
           TestCitys, ResetCitys, Lookup, FindContainer, RegisterContainer, StartRead,
           ReadRow, Throw, ReturnNull, PutCity, Publish, StartLoad, OpenFile, LoadRow,
           AbortLoad, AfterLoaded, Goto, Return, Threads, Containers, readerVars,
           tableVars, fileVars, vars

-----------------------------------------------------------------------------
(* Append keeps what a list had and adds the new element. *)
LEMMA AppendAmong ==
  ASSUME NEW S, NEW s \in Seq(S), NEW e \in S, NEW row
  PROVE  /\ Among(Append(s, e), Len(Append(s, e)), e)
         /\ Among(s, Len(s), row) => Among(Append(s, e), Len(Append(s, e)), row)
  <1>1. /\ Len(s) \in Nat /\ Len(Append(s, e)) = Len(s) + 1
        /\ Append(s, e)[Len(s) + 1] = e
        /\ \A k \in 1..Len(s) : Append(s, e)[k] = s[k]
    OBVIOUS
  <1>2. Len(s) + 1 \in 1..Len(Append(s, e)) /\ 1..Len(s) \subseteq 1..Len(Append(s, e))
    BY <1>1
  <1>3. QED
    BY <1>1, <1>2 DEF Among

(* LoadRow lists the row it puts in the table. *)
LEMMA TablesListedStep ==
  ASSUME TypeOK, Control, TablesListed, [Next]_vars
  PROVE  TablesListed'
  <1>. SUFFICES ASSUME NEW t \in Threads, NEW v \in Versions, NEW l \in Locs,
                       alllp'[<<t, v>>][l] # 0
                PROVE  Among(nocity'[<<t, v>>], Len(nocity'[<<t, v>>]),
                             <<l, alllp'[<<t, v>>][l]>>)
    BY DEF TablesListed, Listed, Among
  <1>1. ASSUME alllp'[<<t, v>>][l] = alllp[<<t, v>>][l]
        PROVE  Among(nocity[<<t, v>>], Len(nocity[<<t, v>>]), <<l, alllp'[<<t, v>>][l]>>)
    BY <1>1 DEF TablesListed, Listed
  <1>2. CASE UNCHANGED <<alllp, nocity>>
    BY <1>1, <1>2
  <1>3. ASSUME NEW x \in Locs, LoadRow(x), <<t, v>> # <<box[Task], want[Task]>>
        PROVE  UNCHANGED <<alllp[<<t, v>>], nocity[<<t, v>>]>>
    BY <1>3 DEF LoadRow, TypeOK, Containers
  <1>4. ASSUME NEW x \in Locs, LoadRow(x), <<t, v>> = <<box[Task], want[Task]>>
        PROVE  Among(nocity'[<<t, v>>], Len(nocity'[<<t, v>>]), <<l, alllp'[<<t, v>>][l]>>)
    <2>1. nocity[<<t, v>>] \in Seq(Locs \X Nat) /\ alllp[<<t, v>>] \in Rowsets
      BY DEF TypeOK, Containers
    <2>2. /\ nocity'[<<t, v>>] = Append(nocity[<<t, v>>], <<x, loaded[v]>>)
          /\ alllp'[<<t, v>>] = [alllp[<<t, v>>] EXCEPT ![x] = loaded[v]]
      BY <1>4 DEF LoadRow, TypeOK, Containers
    <2>3. <<x, loaded[v]>> \in Locs \X Nat
      BY DEF TypeOK
    <2>4. CASE x = l
      <3>1. alllp'[<<t, v>>][l] = loaded[v]
        BY <2>1, <2>2, <2>4 DEF Rowsets
      <3>2. Among(Append(nocity[<<t, v>>], <<x, loaded[v]>>),
                  Len(Append(nocity[<<t, v>>], <<x, loaded[v]>>)), <<x, loaded[v]>>)
        BY <2>1, <2>3, AppendAmong
      <3>3. QED
        BY <2>2, <2>4, <3>1, <3>2
    <2>5. CASE x # l
      <3>1. alllp'[<<t, v>>][l] = alllp[<<t, v>>][l]
        BY <2>1, <2>2, <2>5 DEF Rowsets
      <3>2. QED
        BY <1>1, <2>1, <2>2, <2>3, <3>1, AppendAmong
    <2>6. QED
      BY <2>4, <2>5
  <1>5. QED
    BY <1>1, <1>2, <1>3, <1>4
       DEF Next, Execute, Load, Request, CheckInstance, CreateInstance, ReturnInstance,
           TestCitys, ResetCitys, Lookup, FindContainer, RegisterContainer, StartRead,
           ReadRow, Throw, ReturnNull, PutCity, Publish, StartLoad, OpenFile, LoadRow,
           AbortLoad, AfterLoaded, Goto, Return, Threads, Containers, readerVars,
           tableVars, fileVars, vars

(* A version's entry in the map is only ever written, by RegisterContainer. *)
LEMMA MapStep ==
  ASSUME TypeOK, [Next]_vars, NEW v \in Versions
  PROVE  \/ instanceMap'[v] = instanceMap[v]
         \/ \E u \in Threads : RegisterContainer(u) /\ want[u] = v /\ instanceMap'[v] = u
  <1>1. ASSUME NEW u \in Threads, RegisterContainer(u), instanceMap'[v] # instanceMap[v]
        PROVE  want[u] = v /\ instanceMap'[v] = u
    BY <1>1 DEF RegisterContainer, TypeOK
  <1>2. QED
    BY <1>1
       DEF Next, Execute, Load, Request, CheckInstance, CreateInstance, ReturnInstance,
           TestCitys, ResetCitys, Lookup, FindContainer, RegisterContainer, StartRead,
           ReadRow, Throw, ReturnNull, PutCity, Publish, StartLoad, OpenFile, LoadRow,
           AbortLoad, AfterLoaded, Goto, Return, Threads, Containers, readerVars,
           tableVars, fileVars, vars

(* What a step does to one thread, as far as containers are concerned.     *)
LEMMA ThreadStep ==
  ASSUME TypeOK, Control, [Next]_vars, NEW t \in Threads
  PROVE  \/ pc'[t] = pc[t] /\ want'[t] = want[t] /\ box'[t] = box[t]
         \/ FindContainer(t)
         \/ RegisterContainer(t)
         \/ /\ pc[t] = "open" /\ pc'[t] \in {"read", "load"}
            /\ want'[t] = want[t] /\ box'[t] = box[t]
         \/ pc'[t] \notin {"register", "open", "read", "load"}
  <1>. USE ThreadsAssumption DEF TypeOK, Threads, Goto, Return
  <1>. DEFINE Same  == pc'[t] = pc[t] /\ want'[t] = want[t] /\ box'[t] = box[t]
              Opens == /\ pc[t] = "open" /\ pc'[t] \in {"read", "load"}
                       /\ want'[t] = want[t] /\ box'[t] = box[t]
              Other == pc'[t] \notin {"register", "open", "read", "load"}
  <1>1. ASSUME NEW u \in Readers, NEW v \in Versions, Request(u, v) PROVE Same \/ Other
    BY <1>1 DEF Request
  <1>2. ASSUME NEW u \in Readers, CheckInstance(u) PROVE Same \/ Other
    BY <1>2 DEF CheckInstance
  <1>3. ASSUME NEW u \in Readers, CreateInstance(u) PROVE Same \/ Other
    BY <1>3 DEF CreateInstance
  <1>4. ASSUME NEW u \in Readers, ReturnInstance(u) PROVE Same \/ Other
    BY <1>4 DEF ReturnInstance
  <1>5. ASSUME NEW u \in Readers, TestCitys(u) PROVE Same \/ Other
    BY <1>5 DEF TestCitys
  <1>6. ASSUME NEW u \in Readers, ResetCitys(u) PROVE Same \/ Other
    BY <1>6 DEF ResetCitys
  <1>7. ASSUME NEW u \in Readers, Lookup(u) PROVE Same \/ Other
    BY <1>7 DEF Lookup
  <1>8. ASSUME NEW u \in Threads, FindContainer(u) PROVE Same \/ FindContainer(t)
    BY <1>8 DEF FindContainer
  <1>9. ASSUME NEW u \in Threads, RegisterContainer(u) PROVE Same \/ RegisterContainer(t)
    BY <1>9 DEF RegisterContainer
  <1>10. ASSUME NEW u \in Readers, StartRead(u) PROVE Same \/ Opens
    BY <1>10 DEF StartRead
  <1>11. ASSUME NEW u \in Readers, NEW l \in Locs, ReadRow(u, l) PROVE Same
    BY <1>11 DEF ReadRow
  <1>12. ASSUME NEW u \in Readers, Throw(u) PROVE Same \/ Other
    BY <1>12 DEF Throw
  <1>13. ASSUME NEW u \in Readers, ReturnNull(u) PROVE Same \/ Other
    BY <1>13 DEF ReturnNull
  <1>14. ASSUME NEW u \in Readers, PutCity(u) PROVE Same \/ Other
    BY <1>14 DEF PutCity
  <1>15. ASSUME NEW v \in Versions, Publish(v) PROVE Same
    BY <1>15 DEF Publish
  <1>16. ASSUME NEW v \in Versions, StartLoad(v) PROVE Same \/ Other
    BY <1>16 DEF StartLoad
  <1>17. ASSUME OpenFile PROVE Same \/ Opens
    BY <1>17 DEF OpenFile
  <1>18. ASSUME NEW l \in Locs, LoadRow(l) PROVE Same
    BY <1>18 DEF LoadRow
  <1>19. ASSUME AbortLoad PROVE Same
    BY <1>19 DEF AbortLoad
  <1>20. ASSUME AfterLoaded PROVE Same \/ Other
    BY <1>20 DEF AfterLoaded
  <1>21. ASSUME UNCHANGED vars PROVE Same
    BY <1>21 DEF vars
  <1>22. QED
    BY <1>1, <1>2, <1>3, <1>4, <1>5, <1>6, <1>7, <1>8, <1>9, <1>10, <1>11, <1>12,
    <1>13, <1>14, <1>15, <1>16, <1>17, <1>18, <1>19, <1>20, <1>21
       DEF Next, Execute, Load

(* A thread that is about to register a container found none, and a step   *)
(* that registers one makes the thread leave that place.                   *)
LEMMA EntersFreshStep ==
  ASSUME TypeOK, Control, EntersFresh, [Next]_vars
  PROVE  EntersFresh'
  <1>. USE ThreadsAssumption
  <1>. SUFFICES ASSUME NEW t \in Threads, NEW v \in Versions,
                       instanceMap'[v] = None \/ (pc'[t] = "register" /\ want'[t] = v)
                PROVE  Fresh(t, v)'
    BY DEF EntersFresh
  <1>1. instanceMap'[v] = None => instanceMap[v] = None
    BY MapStep DEF Threads
  <1>2. ASSUME pc'[t] = "register", want'[t] = v
        PROVE  instanceMap[v] = None \/ (pc[t] = "register" /\ want[t] = v)
    <2>1. CASE pc'[t] = pc[t] /\ want'[t] = want[t]
      BY <1>2, <2>1
    <2>2. CASE FindContainer(t)
      BY <1>2, <2>2 DEF FindContainer, Goto, TypeOK
    <2>3. CASE RegisterContainer(t)
      BY <1>2, <2>3 DEF RegisterContainer, Goto, TypeOK
    <2>4. QED
      BY <1>2, <2>1, <2>2, <2>3, ThreadStep
  <1>3. Fresh(t, v)
    BY <1>1, <1>2 DEF EntersFresh
  <1>4. ASSUME RegisterContainer(t), want[t] = v PROVE FALSE
    BY <1>4 DEF RegisterContainer, Goto, TypeOK, Threads
  <1>5. instanceMap'[v] # t
    BY <1>3, <1>4, MapStep DEF Fresh
  <1>6. ASSUME NEW u \in Threads, want'[u] = v, pc'[u] \in {"open", "read", "load"}
        PROVE  box'[u] # t
    <2>1. CASE /\ want[u] = v /\ pc[u] \in {"open", "read", "load"}
               /\ box'[u] = box[u]
      BY <1>3, <2>1 DEF Fresh
    <2>2. CASE FindContainer(u)
      BY <1>3, <1>6, <2>2 DEF FindContainer, Goto, TypeOK, Fresh
    <2>3. CASE RegisterContainer(u)
      BY <1>4, <1>6, <2>3 DEF RegisterContainer, Goto, TypeOK
    <2>4. QED
      BY <1>6, <2>1, <2>2, <2>3, ThreadStep
  <1>7. tree'[<<t, v>>] = None
    <2>1. CASE AfterLoaded
      BY <1>3, <2>1 DEF AfterLoaded, Fresh, Containers
    <2>2. CASE UNCHANGED tree
      BY <1>3, <2>2 DEF Fresh
    <2>3. QED
      BY <2>1, <2>2
         DEF Next, Execute, Load, Request, CheckInstance, CreateInstance,
             ReturnInstance, TestCitys, ResetCitys, Lookup, FindContainer,
             RegisterContainer, StartRead, ReadRow, Throw, ReturnNull, PutCity,
             Publish, StartLoad, OpenFile, LoadRow, AbortLoad, AfterLoaded, Goto,
             Return, Threads, Containers, readerVars, tableVars, fileVars, vars
  <1>8. QED
    BY <1>5, <1>6, <1>7 DEF Fresh

(* AfterLoaded indexes every container of the map; one that enters the map *)
(* later has no index.                                                     *)
LEMMA IndexStep ==
  ASSUME TypeOK, Control, TablesListed, EntersFresh, IndexCoversTable, [Next]_vars
  PROVE  IndexCoversTable'
  <1>. USE ThreadsAssumption
  <1>. SUFFICES ASSUME NEW v \in Versions, NEW l \in Locs,
                       pc'[Task] = "idle", instanceMap'[v] # None,
                       tree'[<<instanceMap'[v], v>>] # None,
                       alllp'[<<instanceMap'[v], v>>][l] # 0
                PROVE  \E k \in 1..tree'[<<instanceMap'[v], v>>] :
                          nocity'[<<instanceMap'[v], v>>][k]
                            = <<l, alllp'[<<instanceMap'[v], v>>][l]>>
    BY DEF IndexCoversTable, RowsOf
  <1>1. CASE AfterLoaded
    <2>1. UNCHANGED <<instanceMap, alllp, nocity>>
      BY <1>1 DEF AfterLoaded
    <2>2. instanceMap[v] \in Threads
      BY <2>1 DEF TypeOK
    <2>3. tree'[<<instanceMap[v], v>>] = Len(nocity[<<instanceMap[v], v>>])
      BY <1>1, <2>2 DEF AfterLoaded, Containers
    <2>4. QED
      BY <2>1, <2>2, <2>3 DEF TablesListed, Listed, Among
  <1>2. CASE UNCHANGED tableVars /\ pc[Task] = "idle"
    <2>1. CASE instanceMap'[v] = instanceMap[v]
      BY <1>2, <2>1 DEF IndexCoversTable, RowsOf, tableVars
    <2>2. ASSUME NEW u \in Threads, RegisterContainer(u), want[u] = v, instanceMap'[v] = u
          PROVE  FALSE
      <3>1. tree[<<u, v>>] = None
        BY <2>2 DEF EntersFresh, Fresh, RegisterContainer
      <3>2. QED
        BY <1>2, <2>2, <3>1 DEF tableVars
    <2>3. QED
      BY <2>1, <2>2, MapStep
  <1>3. QED
    BY <1>1, <1>2
       DEF TypeOK, Next, Execute, Load, Request, CheckInstance, CreateInstance,
           ReturnInstance, TestCitys, ResetCitys, Lookup, FindContainer,
           RegisterContainer, StartRead, ReadRow, Throw, ReturnNull, PutCity, Publish,
           StartLoad, OpenFile, LoadRow, AbortLoad, AfterLoaded, Goto, Return, Threads,
           Containers, readerVars, tableVars, fileVars, vars

-----------------------------------------------------------------------------
(* The action properties.                                                  *)

(* instance is written by a thread that is at "create", and a thread gets  *)
(* there only while instance is null.                                      *)
LEMMA LoaderStep ==
  ASSUME TypeOK, [Next]_vars, LoaderSettled
  PROVE  LoaderSettled' /\ UNCHANGED instance
  <1>1. UNCHANGED instance
    <2>1. ASSUME NEW t \in Readers, CreateInstance(t) PROVE FALSE
      BY <2>1 DEF CreateInstance, LoaderSettled
    <2>2. QED
      BY <2>1
         DEF Next, Execute, Load, Request, CheckInstance, CreateInstance,
             ReturnInstance, TestCitys, ResetCitys, Lookup, FindContainer,
             RegisterContainer, StartRead, ReadRow, Throw, ReturnNull, PutCity,
             Publish, StartLoad, OpenFile, LoadRow, AbortLoad, AfterLoaded, Goto,
             Return, Threads, Containers, readerVars, tableVars, fileVars, vars
  <1>2. ASSUME NEW t \in Readers PROVE pc'[t] # "create"
    <2>1. ASSUME NEW u \in Readers, CheckInstance(u) PROVE pc'[t] # "create"
      BY <2>1 DEF CheckInstance, Goto, LoaderSettled, TypeOK
    <2>2. ASSUME ~\E u \in Readers : CheckInstance(u) PROVE pc'[t] # "create"
      BY <2>2
         DEF LoaderSettled, TypeOK, Next, Execute, Load, Request, CheckInstance,
             CreateInstance, ReturnInstance, TestCitys, ResetCitys, Lookup,
             FindContainer, RegisterContainer, StartRead, ReadRow, Throw, ReturnNull,
             PutCity, Publish, StartLoad, OpenFile, LoadRow, AbortLoad, AfterLoaded,
             Goto, Return, Threads, Containers, readerVars, tableVars, fileVars, vars
    <2>3. QED
      BY <2>1, <2>2
  <1>3. QED
    BY <1>1, <1>2 DEF LoaderSettled

(* Nobody is about to register, so everybody finds what is there.          *)
LEMMA ContainerStep ==
  ASSUME TypeOK, Control, [Next]_vars, NEW v \in Versions, ContainerSettled(v)
  PROVE  ContainerSettled(v)' /\ instanceMap'[v] = instanceMap[v]
  <1>1. ASSUME NEW u \in Threads, RegisterContainer(u), want[u] = v PROVE FALSE
    BY <1>1 DEF RegisterContainer, ContainerSettled
  <1>2. instanceMap'[v] = instanceMap[v]
    BY <1>1, MapStep
  <1>3. ASSUME NEW t \in Threads, want'[t] = v PROVE pc'[t] # "register"
    <2>1. CASE FindContainer(t)
      BY <1>3, <2>1 DEF FindContainer, Goto, ContainerSettled, TypeOK
    <2>2. CASE RegisterContainer(t)
      BY <1>3, <2>2 DEF RegisterContainer, Goto, TypeOK
    <2>3. QED
      BY <1>3, <2>1, <2>2, ThreadStep DEF ContainerSettled
  <1>4. ASSUME want'[Task] = v, pc'[Task] \in {"open", "load"}
        PROVE  box'[Task] = instanceMap[v]
    <2>. Task \in Threads
      BY DEF Threads
    <2>1. CASE FindContainer(Task)
      BY <1>4, <2>1 DEF FindContainer, TypeOK
    <2>2. CASE RegisterContainer(Task)
      BY <1>1, <1>4, <2>2 DEF RegisterContainer
    <2>3. QED
      BY <1>4, <2>1, <2>2, ThreadStep DEF ContainerSettled
  <1>5. QED
    BY <1>2, <1>3, <1>4 DEF ContainerSettled

(* The map of a frozen city is not empty, so nobody replaces it; the city  *)
(* is not null, so nobody builds it again.                                 *)
LEMMA CityStep ==
  ASSUME TypeOK, Control, [Next]_vars, NEW l \in Readers, NEW v \in Versions, CityFrozen(l, v)
  PROVE  CityFrozen(l, v)' /\ citys'[l][v] = citys[l][v]
  <1>. USE ThreadsAssumption
  <1>. DEFINE Safe(t) == /\ pc[t] # "reset"
                         /\ want[t] = v => pc[t] \notin {"container", "register", "open", "read"}
  <1>1. citys'[l][v] = citys[l][v]
    <2>1. ASSUME NEW u \in Readers, ResetCitys(u) PROVE citys'[l][v] = citys[l][v]
      BY <2>1 DEF ResetCitys, CityFrozen, TypeOK
    <2>2. ASSUME NEW u \in Readers, PutCity(u) PROVE citys'[l][v] = citys[l][v]
      BY <2>2 DEF PutCity, CityFrozen, TypeOK
    <2>3. QED
      BY <2>1, <2>2
         DEF Next, Execute, Load, Request, CheckInstance, CreateInstance,
             ReturnInstance, TestCitys, ResetCitys, Lookup, FindContainer,
             RegisterContainer, StartRead, ReadRow, Throw, ReturnNull, PutCity,
             Publish, StartLoad, OpenFile, LoadRow, AbortLoad, AfterLoaded, Goto,
             Return, Threads, Containers, readerVars, tableVars, fileVars, vars
  <1>2. citys[l] # NoCitys
    BY DEF CityFrozen, NoCitys
  <1>3. ASSUME NEW t \in Readers, mine'[t] = l PROVE Safe(t)'
    <2>. USE <1>3
       DEF CityFrozen, TypeOK, Control, Threads, Goto, Return, readerVars, vars
    <2>1. ASSUME NEW u \in Readers, NEW w \in Versions, Request(u, w) PROVE Safe(t)'
      BY <2>1 DEF Request
    <2>2. ASSUME NEW u \in Readers, CheckInstance(u) PROVE Safe(t)'
      BY <2>2 DEF CheckInstance
    <2>3. ASSUME NEW u \in Readers, CreateInstance(u) PROVE Safe(t)'
      BY <2>3 DEF CreateInstance
    <2>4. ASSUME NEW u \in Readers, ReturnInstance(u) PROVE Safe(t)'
      BY <2>4 DEF ReturnInstance
    <2>5. ASSUME NEW u \in Readers, TestCitys(u) PROVE Safe(t)'
      BY <2>5, <1>2 DEF TestCitys, NoCitys
    <2>6. ASSUME NEW u \in Readers, ResetCitys(u) PROVE Safe(t)'
      BY <2>6 DEF ResetCitys
    <2>7. ASSUME NEW u \in Readers, Lookup(u) PROVE Safe(t)'
      BY <2>7 DEF Lookup
    <2>8. ASSUME NEW u \in Threads, FindContainer(u) PROVE Safe(t)'
      BY <2>8 DEF FindContainer
    <2>9. ASSUME NEW u \in Threads, RegisterContainer(u) PROVE Safe(t)'
      BY <2>9 DEF RegisterContainer
    <2>10. ASSUME NEW u \in Readers, StartRead(u) PROVE Safe(t)'
      BY <2>10 DEF StartRead
    <2>11. ASSUME NEW u \in Readers, NEW x \in Locs, ReadRow(u, x) PROVE Safe(t)'
      BY <2>11 DEF ReadRow
    <2>12. ASSUME NEW u \in Readers, Throw(u) PROVE Safe(t)'
      BY <2>12 DEF Throw
    <2>13. ASSUME NEW u \in Readers, ReturnNull(u) PROVE Safe(t)'
      BY <2>13 DEF ReturnNull
    <2>14. ASSUME NEW u \in Readers, PutCity(u) PROVE Safe(t)'
      BY <2>14 DEF PutCity
    <2>15. ASSUME NEW w \in Versions, Publish(w) PROVE Safe(t)'
      BY <2>15 DEF Publish
    <2>16. ASSUME NEW w \in Versions, StartLoad(w) PROVE Safe(t)'
      BY <2>16 DEF StartLoad
    <2>17. CASE OpenFile
      BY <2>17 DEF OpenFile
    <2>18. ASSUME NEW x \in Locs, LoadRow(x) PROVE Safe(t)'
      BY <2>18 DEF LoadRow
    <2>19. CASE AbortLoad
      BY <2>19 DEF AbortLoad
    <2>20. CASE AfterLoaded
      BY <2>20 DEF AfterLoaded
    <2>21. CASE UNCHANGED vars
      BY <2>21
    <2>22. QED
      BY <2>1, <2>2, <2>3, <2>4, <2>5, <2>6, <2>7, <2>8, <2>9, <2>10, <2>11, <2>12,
      <2>13, <2>14, <2>15, <2>16, <2>17, <2>18, <2>19, <2>20, <2>21
         DEF Next, Execute, Load
  <1>4. QED
    BY <1>1, <1>3 DEF CityFrozen

-----------------------------------------------------------------------------
(* All of it. *)
IInv == /\ TypeOK /\ Control /\ LoadsFromFile
        /\ TablesGenuine /\ ReadersGenuine /\ CachesGenuine
        /\ TablesListed /\ EntersFresh /\ IndexCoversTable

(* Before the first request and the first load there is nothing to check.   *)
LEMMA InitHolds == Init => IInv
  <1>. SUFFICES ASSUME Init PROVE IInv
    OBVIOUS
  <1>. USE ThreadsAssumption, FilesAssumption
  <1>1. TypeOK
    BY DEF Init, TypeOK, Threads, Containers, NoRows, NoCitys, Rowsets
  <1>2. Control /\ LoadsFromFile
    BY DEF Init, Control, LoadsFromFile, Threads
  <1>3. TablesGenuine /\ TablesListed
    BY DEF Init, TablesGenuine, TablesListed, Listed, Containers, NoRows
  <1>4. ReadersGenuine /\ CachesGenuine
    BY DEF Init, ReadersGenuine, CachesGenuine, NoCitys, Threads
  <1>5. EntersFresh
    BY DEF Init, EntersFresh, Fresh, Containers, Threads
  <1>6. IndexCoversTable
    BY DEF Init, IndexCoversTable
  <1>7. QED
    BY <1>1, <1>2, <1>3, <1>4, <1>5, <1>6 DEF IInv

(* IInv is an invariant of RoadCache, for every set of readers, versions   *)
(* and locations, and every history of files.                              *)
THEOREM Inductive == Spec => []IInv
  <1>1. IInv /\ [Next]_vars => IInv'
    BY TypeStep, ControlStep, LoadsStep, TablesGenuineStep, ReadersGenuineStep,
       CachesGenuineStep, TablesListedStep, EntersFreshStep, IndexStep
       DEF IInv
  <1>2. QED
    BY InitHolds, <1>1, PTL DEF Spec

(* The variables keep their ranges. *)
THEOREM TypeCorrect == Spec => []TypeOK
  BY Inductive, PTL DEF IInv

(* NRoadLoader never caches a city without rows, nor with a row its version's *)
(* loaded files did not have.                                                 *)
THEOREM CitiesAreGenuine == Spec => []CityFromItsFile
  <1>1. IInv => CityFromItsFile
    <2>. SUFFICES ASSUME IInv, NEW r \in Readers, NEW v \in Versions, citys[r][v] # None
                  PROVE  /\ RowsOf(citys[r][v]) # {}
                         /\ \A x \in RowsOf(citys[r][v]) :
                               citys[r][v][x] <= loaded[v] /\ x \in Files[v][citys[r][v][x]]
      BY DEF CityFromItsFile
    <2>. QED
      BY DEF IInv, CachesGenuine, Genuine, RowsOf
  <1>2. QED
    BY Inductive, <1>1, PTL

(* Between loads, no index lags behind its table, however often files were *)
(* loaded, aborted or loaded into a container that lost its place.         *)
THEOREM IndexIsComplete == Spec => []IndexCoversTable
  BY Inductive, PTL DEF IInv

(* After the first callers of NRoadLoader.instance, the object is the same *)
(* for ever.                                                               *)
THEOREM LoaderIsSettled == Spec => LoaderSettles
  <1>1. IInv /\ [Next]_vars => [LoaderSettled => LoaderSettled' /\ UNCHANGED instance]_vars
    BY LoaderStep DEF IInv
  <1>2. QED
    BY Inductive, <1>1, PTL DEF Spec, LoaderSettles

(* After the first callers of LPInfoContainer.getInstance, a version keeps *)
(* its container, and every load fills that one.                           *)
THEOREM ContainerIsSettled == Spec => ContainerSettles
  <1>1. IInv /\ [Next]_vars =>
          [\A v \in Versions : ContainerSettled(v) =>
              ContainerSettled(v)' /\ instanceMap'[v] = instanceMap[v]]_vars
    BY ContainerStep DEF IInv
  <1>2. QED
    BY Inductive, <1>1, PTL DEF Spec, ContainerSettles

(* A cached city that no thread is replacing stays as it is for ever: what *)
(* NRoadLoader once built from a part of a table is never corrected.       *)
THEOREM CityIsFrozen == Spec => CityFreezes
  <1>1. IInv /\ [Next]_vars =>
          [\A l \in Readers, v \in Versions : CityFrozen(l, v) =>
              CityFrozen(l, v)' /\ citys'[l][v] = citys[l][v]]_vars
    BY CityStep DEF IInv
  <1>2. QED
    BY Inductive, <1>1, PTL DEF Spec, CityFreezes
=============================================================================
