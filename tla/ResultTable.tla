---------------------------- MODULE ResultTable ----------------------------
(***************************************************************************)
(* The page that shows decoded messages: a table whose rows are checked to *)
(* be drawn on the map and to be written to a new file.  Four parties hold *)
(* a part of it and none asks the others: the table widget has the checked *)
(* state of the rows, the map has the lines, a hidden field has the bytes  *)
(* the rows were decoded from, and the Output button is enabled or not.    *)
(*                                                                         *)
(* A parse page posts the bytes of a file; a simulate page asks a service  *)
(* for bytes and then has them decoded.  Answers come in any order.        *)
(***************************************************************************)
EXTENDS Integers, Sequences, FiniteSets, SequencesExt

CONSTANTS
    Files,          \* payloads
    RowsOf,         \* payload -> its messages, in the order they are decoded
    Texts, Shows,   \* search texts, and the messages a text lets through
    PageSize,       \* rows on one page of the table
    MaxPosts        \* requests a user sends

NoFile == "no file"
AllRows == UNION {ToSet(RowsOf[f]) : f \in Files}

(* lines: how many overlays create_overlay makes of a message. *)
ASSUME RowsAssumption ==
    /\ NoFile \notin Files /\ PageSize \in Nat \ {0} /\ MaxPosts \in Nat
    /\ \A f \in Files : /\ RowsOf[f] \in Seq([file : {f}, at : Nat, id : Nat,
                                              type : {"TFP", "TEC"}, lines : Nat])
                        /\ IsInjective(RowsOf[f])
    /\ "" \in Texts /\ Shows \in [Texts -> SUBSET AllRows] /\ Shows[""] = AllRows

VARIABLES
    page,       \* which page: parse or simulate
    value,      \* #file_value of a parse page, #base64Result of a simulate page
    posts,      \* requests in flight: what is asked, and for which bytes
    sent,
    table,      \* NoTable, or the rows (all), those of the search (view), the page number (at)
    selected,   \* rows whose state field is set
    enabled,    \* the Output button
    maps,       \* maps made on this page; only the last is seen
    drawn,      \* overlays of rows on the last map
    event,      \* what the last event did, where a property asks for it
    disturbed   \* history: the value may have changed under the table

vars == <<page, value, posts, sent, table, selected, enabled, maps, drawn, event, disturbed>>

NoTable == [file |-> NoFile, all |-> <<>>, view |-> <<>>, text |-> "", at |-> 1]
NoEvent == [kind |-> "none"]

Over(r) == {<<r, k>> : k \in 0..r.lines - 1}

Init == /\ page \in {"parse", "simulate"}
        /\ value = NoFile /\ posts = <<>> /\ sent = 0
        /\ table = NoTable /\ selected = {} /\ enabled = FALSE
        /\ maps = (IF page = "parse" THEN 0 ELSE 1)
        /\ drawn = {} /\ event = NoEvent /\ disturbed = FALSE

-----------------------------------------------------------------------------
(* The widget.                                                             *)

Key(r, column) == CASE column = "messageid" -> r.id
                    [] column = "datatype" -> IF r.type = "TEC" THEN 1 ELSE 2

(* The orders of the rows that the comparisons allow.  The comparison of   *)
(* two equal numbers says "greater" both ways, and a sort need not keep    *)
(* rows of one type in their order, so ties may come out in any order.     *)
Ordered(rows, column, desc) ==
    {p \in [DOMAIN rows -> DOMAIN rows] :
        \A a, b \in DOMAIN rows :
            a < b => IF desc THEN Key(rows[p[a]], column) >= Key(rows[p[b]], column)
                             ELSE Key(rows[p[a]], column) <= Key(rows[p[b]], column)}

initSortOverwriting(rows, column, desc) ==
    {[n \in DOMAIN rows |-> rows[p[n]]] : p \in Ordered(rows, column, desc)}

initSort(rows, column, desc) ==
    {[n \in DOMAIN rows |-> rows[p[n]]] :
        p \in {p \in Ordered(rows, column, desc) : IsInjective(p)}}

(* initSearch: $.grep, unless there is nothing to search for *)
initSearch(text) ==
    LET kept == {i \in DOMAIN table.all : table.all[i] \in Shows[text]}
    IN IF text = "" THEN table.all
       ELSE [n \in 1..Cardinality(kept) |->
                table.all[CHOOSE i \in kept : Cardinality({k \in kept : k <= i}) = n]]

totalPages == (Len(table.view) + PageSize - 1) \div PageSize

\* the rows that have a check box now
PageRows == {table.view[i] : i \in {k \in DOMAIN table.view :
                                       (k - 1) \div PageSize = table.at - 1}}

getSelections == selected \intersect ToSet(table.view)
getAllSelections == selected \intersect ToSet(table.all)

(* outputCheckFunc, after the widget has changed the states *)
outputCheckFunc(Selections) == enabled' = (Selections # {})

(* The loop never ends: nothing else runs on the page. *)
Hung == event.kind = "tree" /\ ~event.ended

unchangedByRows == UNCHANGED <<page, value, posts, sent, maps, disturbed>>

(* The click on a check box, and the handlers of check and uncheck *)
Check(r) ==
    /\ UNCHANGED table /\ ~Hung /\ r \in PageRows \ selected
    /\ selected' = selected \union {r}
    /\ outputCheckFunc(getAllSelections')
    /\ drawn' = drawn \union Over(r)
    /\ event' = NoEvent /\ unchangedByRows

Uncheck(r) ==
    /\ UNCHANGED table /\ ~Hung /\ r \in PageRows \intersect selected
    /\ selected' = selected \ {r}
    /\ outputCheckFunc(getAllSelections')
    /\ drawn' = drawn \ Over(r)
    /\ event' = NoEvent /\ unchangedByRows

(* checkAll_ sets the boxes of the page; its event carries every selected  *)
(* row of the view.                                                        *)
CheckAll ==
    /\ UNCHANGED table /\ ~Hung /\ table # NoTable
    /\ selected' = selected \union PageRows
    /\ outputCheckFunc(getAllSelections')
    /\ drawn' = drawn \union UNION {Over(r) : r \in getSelections'}
    /\ event' = NoEvent /\ unchangedByRows

UncheckAll ==
    /\ UNCHANGED table /\ ~Hung /\ table # NoTable
    /\ selected' = selected \ PageRows
    /\ outputCheckFunc(getAllSelections')
    /\ drawn' = {}
    /\ event' = NoEvent /\ unchangedByRows

(* updatePagination: resetRows takes the state of the view's rows and      *)
(* tells nobody.                                                           *)
resetRows(view) == selected \ ToSet(view)

GotoPage(n) ==
    /\ ~Hung /\ n \in 1..totalPages \ {table.at}
    /\ table' = [table EXCEPT !.at = n]
    /\ selected' = resetRows(table.view)
    /\ event' = NoEvent /\ UNCHANGED <<drawn, enabled>> /\ unchangedByRows

onSearch(text) ==
    /\ ~Hung /\ table # NoTable /\ text # table.text
    /\ table' = [table EXCEPT !.text = text, !.view = initSearch(text), !.at = 1]
    /\ selected' = resetRows(initSearch(text))
    /\ event' = NoEvent /\ UNCHANGED <<drawn, enabled>> /\ unchangedByRows

(* Sorting sorts the view in place, which is the data themselves when      *)
(* nothing is searched; the page shown keeps its number and may get other  *)
(* rows.                                                                   *)
onSort(column, desc) ==
    /\ ~Hung /\ table # NoTable
    /\ \E view \in initSort(table.view, column, desc) :
          table' = [table EXCEPT !.view = view, !.all = IF table.text = "" THEN view ELSE @]
    /\ event' = NoEvent /\ UNCHANGED <<selected, drawn, enabled>> /\ unchangedByRows

-----------------------------------------------------------------------------
(* The tree of a row: selecting its nodes draws the sections selected.  A  *)
(* node is the number of a section, or Other.                              *)
Other == -1
Nodes(r) == {Other} \union IF r.type = "TFP" THEN 0..r.lines - 1 ELSE {}
NodeSeqs == [r \in AllRows |-> UNION {{s \in [1..n -> Nodes(r)] : IsInjective(s)} : n \in 0..3}]

(* The loop variable is declared again inside the loop: behind a section   *)
(* it goes on from the section's number.                                   *)
treeNextNoStep(nodes, i) == IF nodes[i] = Other THEN i + 1 ELSE nodes[i] + 1

treeNext(nodes, i) == IF nodes[i] = Other THEN i + 1 ELSE nodes[i] + 2

(* The places of the list the loop comes to, from the first one on. *)
Visited(nodes) ==
    {i \in DOMAIN nodes :
        \A V \in SUBSET DOMAIN nodes :
            1 \in V /\ (\A k \in V : treeNext(nodes, k) \in DOMAIN nodes => treeNext(nodes, k) \in V)
            => i \in V}

(* A row gets one popover, made by the handler attached first: its content *)
(* draws on the map of that time.                                          *)
SelectInTree(r, nodes) ==
    LET seen == {nodes[i] : i \in Visited(nodes)} \ {Other}
        ended == nodes = <<>> \/ \E i \in Visited(nodes) : treeNext(nodes, i) \notin DOMAIN nodes
    IN /\ ~Hung /\ r \in PageRows
       /\ drawn' = IF maps = 1 THEN (drawn \ Over(r)) \union {<<r, k>> : k \in seen} ELSE drawn
       /\ event' = [kind |-> "tree", nodes |-> nodes, ended |-> ended]
       /\ UNCHANGED <<table, selected, enabled>> /\ unchangedByRows

(* The map's menu of a simulate page; its own marker is not of a row. *)
SelectPoint ==
    /\ ~Hung /\ page = "simulate" /\ drawn' = {}
    /\ event' = NoEvent /\ UNCHANGED <<table, selected, enabled>> /\ unchangedByRows

-----------------------------------------------------------------------------
(* Output: the ids of the selected rows go to the server with the bytes of *)
(* the moment; the server decodes them and keeps a message once for every  *)
(* equal id, which is how often it is written.  A destroyed table gives the id "undefined", no row the empty *)
(* one: both fail to parse as a number.                                    *)
WrittenWithoutTEC(file, rows) ==
    [m \in ToSet(RowsOf[file]) |->
        IF m.type = "TFP" THEN Cardinality({r \in rows : r.id = m.id}) ELSE 0]

Written(file, rows) ==
    [m \in ToSet(RowsOf[file]) |-> Cardinality({r \in rows : r.id = m.id})]

do_ouput ==
    /\ ~Hung /\ enabled
    /\ event' = [kind |-> "output", shown |-> table.file, picked |-> getAllSelections, from |-> value,
                 written |-> IF getAllSelections = {} \/ value = NoFile THEN <<>>
                             ELSE Written(value, getAllSelections)]
    /\ UNCHANGED <<table, selected, drawn, enabled>> /\ unchangedByRows

-----------------------------------------------------------------------------
(* Requests and answers.                                                   *)

destroyNothing == UNCHANGED <<table, selected>>

destroy == table' = NoTable /\ selected' = {}

(* The FileReader has read the file that was chosen. *)
fileSelect(f) ==
    /\ ~Hung /\ page = "parse" /\ f # value
    /\ value' = f
    /\ disturbed' = (disturbed \/ posts # <<>> \/ table # NoTable)
    /\ event' = NoEvent
    /\ UNCHANGED <<page, posts, sent, table, selected, enabled, maps, drawn>>

(* A second post while the step is open needs the keyboard: the mask over  *)
(* the first step stops the mouse only.                                    *)
function_to_step2_decode ==
    /\ ~Hung /\ page = "parse" /\ value # NoFile /\ sent < MaxPosts
    /\ posts' = Append(posts, [ask |-> "decode", file |-> value])
    /\ sent' = sent + 1
    /\ disturbed' = (disturbed \/ posts # <<>>)
    /\ event' = NoEvent
    /\ UNCHANGED <<page, value, table, selected, enabled, maps, drawn>>

(* getMessageBmw, Renault, Daimler and Mib2 *)
getMessage ==
    /\ ~Hung /\ page = "simulate" /\ sent < MaxPosts
    /\ destroy
    /\ posts' = Append(posts, [ask |-> "bytes", file |-> NoFile])
    /\ sent' = sent + 1
    /\ disturbed' = (posts # <<>>)
    /\ event' = NoEvent
    /\ UNCHANGED <<page, value, enabled, maps, drawn>>

(* The bytes arrive: they are stored and posted for decoding at once. *)
Received(i, f) ==
    /\ ~Hung /\ posts[i].ask = "bytes"
    /\ value' = f
    /\ posts' = Append(RemoveAt(posts, i), [ask |-> "decode", file |-> f])
    /\ event' = NoEvent
    /\ UNCHANGED <<page, sent, table, selected, enabled, maps, drawn, disturbed>>

showMapReusing == IF page = "parse" THEN maps' = 1 /\ UNCHANGED drawn ELSE UNCHANGED <<maps, drawn>>

showMap == IF page = "parse" THEN maps' = maps + 1 /\ drawn' = {}
           ELSE UNCHANGED <<maps, drawn>>

show_intable(f) ==
    /\ \E rows \in initSort(RowsOf[f], "messageid", TRUE) :
          table' = [NoTable EXCEPT !.file = f, !.all = rows, !.view = rows]
    /\ selected' = {}

Decoded(i) ==
    /\ ~Hung /\ posts[i].ask = "decode"
    /\ showMap
    /\ show_intable(posts[i].file)
    /\ posts' = RemoveAt(posts, i)
    /\ event' = NoEvent
    /\ UNCHANGED <<page, value, sent, enabled, disturbed>>

(* An empty or failed answer: an alert, or nothing. *)
Fails(i) ==
    /\ ~Hung
    /\ posts' = RemoveAt(posts, i)
    /\ event' = NoEvent
    /\ UNCHANGED <<page, value, sent, table, selected, enabled, maps, drawn, disturbed>>

Next == \/ \E r \in AllRows : Check(r) \/ Uncheck(r) \/ \E nodes \in NodeSeqs[r] : SelectInTree(r, nodes)
        \/ CheckAll \/ UncheckAll \/ SelectPoint \/ do_ouput
        \/ \E n \in 1..Cardinality(AllRows) : GotoPage(n)
        \/ \E text \in Texts : onSearch(text)
        \/ \E column \in {"messageid", "datatype"}, desc \in BOOLEAN : onSort(column, desc)
        \/ \E f \in Files : fileSelect(f)
        \/ function_to_step2_decode \/ getMessage
        \/ \E i \in DOMAIN posts : Decoded(i) \/ Fails(i) \/ \E f \in Files : Received(i, f)

Spec == Init /\ [][Next]_vars

-----------------------------------------------------------------------------
(* The state: the widget selects among the rows it has, shows one of its   *)
(* pages, and keeps every row through sorting and searching.               *)
TypeOK ==
    /\ selected \subseteq ToSet(table.all)
    /\ IsInjective(table.all) /\ ToSet(table.view) \subseteq ToSet(table.all)
    /\ table.file \in Files => ToSet(table.all) = ToSet(RowsOf[table.file])
    /\ table.at \in 1..totalPages \union {1}
    /\ drawn \subseteq UNION {Over(r) : r \in AllRows}
    /\ value \in Files \union {NoFile} /\ enabled \in BOOLEAN

(* Whenever a row is selected the Output button works, whatever was        *)
(* checked, unchecked, hidden by a search or moved to another page before: *)
(* outputCheckFunc looks at the selections of all rows, not of those shown.*)
SelectedCanBeOutput == selected # {} => enabled

(* The file that Output makes from the bytes of the table has exactly the  *)
(* selected messages, each once, if and only if no message shares the id   *)
(* of a selected one: the server knows messages by id alone, TFP and TEC   *)
(* alike.                                                                  *)
OutputIsSelection ==
    event.kind = "output" /\ event.picked # {} /\ event.from = event.shown =>
        LET unshared == \A r \in event.picked, m \in ToSet(RowsOf[event.from]) : r.id = m.id => r = m
        IN unshared <=> \A m \in ToSet(RowsOf[event.from]) :
                            event.written[m] = IF m \in event.picked THEN 1 ELSE 0

(* Output takes its bytes from the hidden field at the time of the click,  *)
(* not from the table.  They are the table's unless requests overlapped or *)
(* another file was chosen under the table: a simulate page destroys the   *)
(* table before it asks for new bytes.                                     *)
OutputFromShownData ==
    event.kind = "output" /\ event.picked # {} => event.from = event.shown \/ disturbed

(* On a parse page whatever is drawn belongs to the rows of the table, so  *)
(* that unchecking can take it away again: each answer gets a new map.     *)
DrawnBelongsToTable ==
    page = "parse" => drawn \subseteq UNION {Over(r) : r \in ToSet(table.all)}

(* The loop over the selected nodes of a tree ends if no section comes     *)
(* behind as many nodes as its number plus one or more; sections selected  *)
(* alone and in their order are such a selection.                          *)
TreeLoopEnds ==
    event.kind = "tree" =>
        ((\A i \in DOMAIN event.nodes : event.nodes[i] # Other => event.nodes[i] + 1 >= i) => event.ended)
=============================================================================
