----------------------------- MODULE TfpMessage -----------------------------
(***************************************************************************)
(* The way of a TMC traffic message through the system: an author enters   *)
(* traffic for locations of a road on the page, the page posts them, the   *)
(* service encodes them as the sections of one message, and the matcher    *)
(* walks the road again and gives each location its traffic.               *)
(*                                                                         *)
(* One message on one direction of one road of location table 32, the      *)
(* only one createLRC writes.  Positions along the links of a location are *)
(* integers, from 0 to their common length, so that a share of a segment   *)
(* is exact; every location that has links has the same shape.             *)
(***************************************************************************)
EXTENDS Integers, Sequences, FiniteSets, SequencesExt

CONSTANTS
    Points,     \* locations of the road that have links
    Rows,       \* what an author may enter for a location: rows of length and los
    Shape,      \* the vertices of the links of a location
    Hundred     \* a hundred metres, the unit of a relative section

Los == {1, 3, 4, 5}

(* How far it is from the beginning of each row to the end.                *)
ToEnd(rows) ==
    LET toEnd[i \in DOMAIN rows] ==
            IF i = Len(rows) THEN rows[i].length ELSE rows[i].length + toEnd[i + 1]
    IN toEnd

ASSUME RowsAssumption ==
    /\ Points \in Nat \ {0} /\ Hundred \in Nat \ {0}
    /\ Rows \subseteq Seq([length : Nat \ {0}, los : Los]) \ {<<>>}
    /\ Shape \in Seq(Nat) /\ Len(Shape) > 1 /\ Head(Shape) = 0
    /\ \A i, k \in DOMAIN Shape : i < k => Shape[i] < Shape[k]

(* The numbers of a finite set in ascending order.                         *)
Ascending(S) ==
    CHOOSE s \in [1..Cardinality(S) -> S] : \A i, k \in DOMAIN s : i < k => s[i] < s[k]

Start == Points + 1     \* the start of the road

VARIABLES
    isLoopRoad,
    tmcs,           \* the road of the version the author picked, in driving order
    known,          \* the road of the version the message is decoded with
    pc,
    message,        \* on the page: location -> losshape
    roaditems,      \* the locations of the posted message
    j, lastLos,     \* structSection
    sections,
    shows,          \* run: the located stretch, in driving order
    lastTMCIndex,
    outcome         \* none, shown, unlocated, error (level SS), thrown

page    == <<isLoopRoad, tmcs, known, message>>
encoder == <<roaditems, j, lastLos, sections>>
decoder == <<shows, lastTMCIndex, outcome>>
vars    == <<page, encoder, decoder, pc>>

(* A loop has its first point twice.  The later version may lack the       *)
(* beginning of a road.  No links lead to where an open road begins.       *)
Init == /\ isLoopRoad \in BOOLEAN
        /\ \E ids \in SetToSeqs(1..Points) :
              tmcs = <<IF isLoopRoad THEN Head(ids) ELSE Start>> \o ids
        /\ known \in IF isLoopRoad THEN {tmcs} ELSE {tmcs, Tail(tmcs)}
        /\ pc = "edit"
        /\ message = <<>>
        /\ roaditems = <<>> /\ j = 1 /\ lastLos = -1 /\ sections = <<>>
        /\ shows = <<>> /\ lastTMCIndex = 0 /\ outcome = "none"

-----------------------------------------------------------------------------
(* The page.                                                               *)

(* How many vertices there are before the first one beyond a limit.        *)
Until(line, limit) ==
    CHOOSE n \in 0..Len(line) : /\ \A i \in 1..n : line[i] <= limit
                                /\ n < Len(line) => line[n + 1] > limit

(* One row of do_submit_formdata_tfp_tmc: the last row takes what is left  *)
(* of the shape; another takes the vertices within its length and a cut of *)
(* the next segment, whose end is not put back.  Without a next vertex the *)
(* page throws.                                                            *)
CutRow(a, row, isLast) ==
    LET n    == Until(a.rest, a.at + row.length)
        near == SubSeq(a.rest, 1, n)
        far  == SubSeq(a.rest, n + 1, Len(a.rest))
        base == Last(<<a.at>> \o near)
        to   == IF isLast THEN a.rest
                ELSE IF far = <<>> THEN near
                ELSE Append(near, Head(far) - (a.at + row.length - base))
    IN IF a.thrown \/ (~isLast /\ a.rest = <<>>) THEN [a EXCEPT !.thrown = TRUE]
       ELSE [at   |-> Last(<<a.at>> \o to),
             rest |-> IF isLast \/ far = <<>> THEN <<>> ELSE Tail(far),
             thrown   |-> FALSE,
             losshape |-> Append(a.losshape, [length |-> row.length, los |-> row.los,
                                              shape  |-> <<a.at>> \o to])]

Uncut == [at |-> Head(Shape), rest |-> Tail(Shape), thrown |-> FALSE, losshape |-> <<>>]

Cut(rows) ==
    LET cut[n \in 0..Len(rows)] == IF n = 0 THEN Uncut ELSE CutRow(cut[n - 1], rows[n], n = Len(rows))
    IN cut[Len(rows)]

store(id, losshape) ==
    [x \in DOMAIN message \union {id} |-> IF x = id THEN losshape ELSE message[x]]

Submit(id, rows) ==
    /\ pc = "edit"
    /\ ~Cut(rows).thrown
    /\ message' = store(id, Cut(rows).losshape)
    /\ UNCHANGED <<isLoopRoad, tmcs, known, encoder, decoder, pc>>

(* The page throws: the item is not stored, but one that is the stored     *)
(* object has lost its old rows by then.                                   *)
SubmitThrows(id, rows) ==
    /\ pc = "edit"
    /\ Cut(rows).thrown
    /\ id \in DOMAIN message
    /\ message' = store(id, Cut(rows).losshape)
    /\ UNCHANGED <<isLoopRoad, tmcs, known, encoder, decoder, pc>>

(* function_to_step3_createfile goes over the properties of an object      *)
(* keyed by location, which come in ascending order.                       *)
Create == /\ pc = "edit"
          /\ message # <<>>
          /\ roaditems' = Ascending(DOMAIN message)
          /\ pc' = "encode"
          /\ UNCHANGED <<page, j, lastLos, sections, decoder>>

-----------------------------------------------------------------------------
(* The encoder.                                                            *)

(* The last of each group of neighbours with the same los.                 *)
Changes(rows) == {i \in DOMAIN rows : i = Len(rows) \/ rows[i].los # rows[i + 1].los}

(* sortList: equal neighbours are one section, with the place of the last  *)
(* of them; the length of a section is its distance to the end.            *)
sortList(rows) ==
    LET kept == Ascending(Changes(rows))
    IN [n \in DOMAIN kept |-> [los |-> rows[kept[n]].los, length |-> ToEnd(rows)[kept[n]]]]

TMCSection(offset, los) == [resolution |-> "TMCLocations", offset |-> offset, los |-> los]
RELSection(length, los) == [resolution |-> "RELATIVE100M", offset |-> length \div Hundred, los |-> los]

(* Mutant: one location too many. *)
offsetPlusOne == Len(roaditems) - j + 2

spatialOffset == Len(roaditems) - j + 1

(* structSection for one item.  lastLos changes with the first section of  *)
(* an item only, and a section like it is passed over.                     *)
structSection ==
    /\ pc = "encode" /\ j <= Len(roaditems)
    /\ LET list  == sortList(message[roaditems[j]])
           first == IF Head(list).los = lastLos THEN <<>>
                    ELSE <<TMCSection(spatialOffset, Head(list).los)>>
           more  == Ascending({n \in DOMAIN list : list[n].los # Head(list).los})
       IN /\ sections' = sections \o first
                         \o [n \in DOMAIN more |-> RELSection(list[more[n]].length, list[more[n]].los)]
          /\ lastLos' = Head(list).los
    /\ j' = j + 1
    /\ UNCHANGED <<page, roaditems, decoder, pc>>

(* The location reference is the last item, the extent their number.       *)
LocID  == Last(roaditems)
Extent == Len(roaditems)

(* Saved, downloaded, and opened with some version.                        *)
Save == /\ pc = "encode" /\ j > Len(roaditems)
        /\ pc' = "match"
        /\ UNCHANGED <<page, encoder, decoder>>

-----------------------------------------------------------------------------
(* The decoder: indices of lists are the code's plus one.                  *)

Min2(a, b) == IF a < b THEN a ELSE b

(* getIndex begins with the second entry: -1 is "not found", and so is the *)
(* first entry.                                                            *)
getIndex(id) == LET found == {i \in 2..Len(known) : known[i] = id}
                IN IF found = {} THEN -1 ELSE (CHOOSE i \in found : \A k \in found : i <= k) - 1

NotLocated == /\ pc = "match"
              /\ getIndex(LocID) <= 0
              /\ outcome' = "unlocated"
              /\ pc' = "done"
              /\ UNCHANGED <<page, encoder, shows, lastTMCIndex>>

(* Mutant: no clamp. *)
alloffsetFree == Extent

alloffset == Min2(Extent, Len(known) - 1)
walked    == (getIndex(LocID) - alloffset + 1)..getIndex(LocID)

(* Outside the try: the exception leaves match.                            *)
WalkThrows == /\ pc = "match"
              /\ getIndex(LocID) > 0
              /\ ~isLoopRoad /\ \E i \in walked : i < 0
              /\ outcome' = "thrown"
              /\ pc' = "done"
              /\ UNCHANGED <<page, encoder, shows, lastTMCIndex>>

(* Mutant: around a loop the walk counts the doubled entry. *)
entryDoubled(i) == known[IF isLoopRoad /\ i < 0 THEN Len(known) + i ELSE i + 1]

entry(i) == known[IF isLoopRoad /\ i < 1 THEN Len(known) + i ELSE i + 1]

Walk == /\ pc = "match"
        /\ getIndex(LocID) > 0
        /\ isLoopRoad \/ \A i \in walked : i >= 0
        /\ shows' = [k \in 1..alloffset |->
                       [id |-> entry(getIndex(LocID) - alloffset + k), los |-> 1, tempShape |-> <<>>]]
        /\ pc' = "sections"
        /\ UNCHANGED <<page, encoder, lastTMCIndex, outcome>>

(* How many vertices there are up to the last one beyond a distance from   *)
(* the end.                                                                *)
Beyond(line, distance) ==
    CHOOSE n \in 0..Len(line) : /\ \A i \in n + 1..Len(line) : Last(line) - line[i] <= distance
                                /\ n > 0 => Last(line) - line[n] > distance

(* Mutant: the first part keeps the whole shape. *)
splitShapeKeeping(piece, distance, los) ==
    LET end  == Last(piece.shape)
        n    == Beyond(piece.shape, distance)
        far  == SubSeq(piece.shape, 1, n)
        near == SubSeq(piece.shape, n + 1, Len(piece.shape))
        cut  == Last(far) + (distance - (end - Head(near)))
    IN IF far = <<>> THEN <<piece, [los |-> los, shape |-> near]>>
       ELSE <<piece, [los |-> los, shape |-> <<cut>> \o near]>>

(* splitShape: the vertices within the distance from the end, and a cut of *)
(* the next segment, whose far vertex goes to neither part.                *)
splitShape(piece, distance, los) ==
    LET end  == Last(piece.shape)
        n    == Beyond(piece.shape, distance)
        far  == SubSeq(piece.shape, 1, n)
        near == SubSeq(piece.shape, n + 1, Len(piece.shape))
        cut  == Last(far) + (distance - (end - Head(near)))
    IN IF far = <<>> THEN <<[piece EXCEPT !.shape = <<>>], [los |-> los, shape |-> near]>>
       ELSE <<[piece EXCEPT !.shape = Append(Front(far), cut)],
              [los |-> los, shape |-> <<cut>> \o near]>>

(* No links lead to the first entry of an open road, and its shape is      *)
(* empty: splitShape makes of it a part of no point and one of a null,     *)
(* which are both a part without positions here.                           *)
Unlinked(id) == ~isLoopRoad /\ id = Head(known)

Links(id) == IF Unlinked(id) THEN <<>> ELSE Shape

(* doLengthSpatialResolution: the last part there is, or the whole.        *)
doLengthSpatialResolution(ts, distance, los) ==
    [ts EXCEPT !.tempShape =
        IF @ = <<>> THEN splitShape([los |-> ts.los, shape |-> Links(ts.id)], distance, los)
        ELSE Front(@) \o splitShape(Last(@), distance, los)]

section == Head(sections)

(* Mutant: one location further. *)
coveredNext == Len(shows) - Min2(section.offset, Len(known) - 1) + 2

(* The first location a section of whole locations covers.                 *)
covered == Len(shows) - Min2(section.offset, Len(known) - 1) + 1

(* One turn of the loop over the sections.  An index outside the list is   *)
(* caught, and the message has no result.                                  *)
SectionTMC ==
    /\ pc = "sections" /\ sections # <<>>
    /\ section.resolution = "TMCLocations"
    /\ IF covered < 1
       THEN outcome' = "error" /\ pc' = "done" /\ UNCHANGED <<shows, lastTMCIndex>>
       ELSE /\ shows' = [k \in DOMAIN shows |->
                           IF k >= covered THEN [shows[k] EXCEPT !.los = section.los] ELSE shows[k]]
            /\ lastTMCIndex' = covered
            /\ UNCHANGED <<outcome, pc>>
    /\ sections' = Tail(sections)
    /\ UNCHANGED <<page, roaditems, j, lastLos>>

SectionRelative ==
    /\ pc = "sections" /\ sections # <<>>
    /\ section.resolution = "RELATIVE100M"
    /\ IF lastTMCIndex = 0
       THEN outcome' = "error" /\ pc' = "done" /\ UNCHANGED shows
       ELSE /\ shows' = [shows EXCEPT ![lastTMCIndex] =
                           doLengthSpatialResolution(@, section.offset * Hundred, section.los)]
            /\ UNCHANGED <<outcome, pc>>
    /\ sections' = Tail(sections)
    /\ UNCHANGED <<page, roaditems, j, lastLos, lastTMCIndex>>

(* Some part has a null for a point.                                       *)
NullDrawn == \E k \in DOMAIN shows : Unlinked(shows[k].id) /\ shows[k].tempShape # <<>>

(* cutPointByAngle, of a library, thins each shape out: it may fail on the *)
(* null, inside the try.                                                   *)
ShowResults == /\ pc = "sections" /\ sections = <<>>
               /\ \/ outcome' = "shown"
                  \/ NullDrawn /\ outcome' = "error"
               /\ pc' = "done"
               /\ UNCHANGED <<page, encoder, shows, lastTMCIndex>>

Next == \/ \E id \in 1..Points, rows \in Rows : Submit(id, rows) \/ SubmitThrows(id, rows)
        \/ Create \/ structSection \/ Save
        \/ NotLocated \/ WalkThrows \/ Walk
        \/ SectionTMC \/ SectionRelative \/ ShowResults

Spec == Init /\ [][Next]_vars

-----------------------------------------------------------------------------
(* Properties.                                                             *)

Losshape == [length : Nat, los : Los, shape : Seq(Nat)]

(* The range of every variable. *)
TypeOK ==
    /\ isLoopRoad \in BOOLEAN
    /\ tmcs \in Seq(1..Start) /\ known \in {tmcs, Tail(tmcs)}
    /\ pc \in {"edit", "encode", "match", "sections", "done"}
    /\ DOMAIN message \subseteq 1..Points
    /\ \A id \in DOMAIN message : message[id] \in Seq(Losshape) \ {<<>>}
    /\ roaditems \in Seq(DOMAIN message)
    /\ j \in 1..(Len(roaditems) + 1)
    /\ lastLos \in Los \union {-1}
    /\ sections \in Seq([resolution : {"TMCLocations", "RELATIVE100M"}, offset : Nat, los : Los])
    /\ shows \in Seq([id : 1..Start, los : Los,
                      tempShape : Seq([los : Los, shape : Seq(Nat)])])
    /\ lastTMCIndex \in 0..Len(shows)
    /\ outcome \in {"none", "shown", "unlocated", "error", "thrown"}

(* The los of the parts of a location, equal neighbours taken together, as *)
(* the author entered it and as it is shown.                               *)
LosOf(parts) == LET kept == Ascending(Changes(parts))
                IN [n \in DOMAIN kept |-> parts[kept[n]].los]

Authored == [k \in DOMAIN roaditems |-> <<roaditems[k], LosOf(message[roaditems[k]])>>]

Shown == [k \in DOMAIN shows |->
            <<shows[k].id, IF shows[k].tempShape = <<>> THEN <<shows[k].los>>
                                                       ELSE LosOf(shows[k].tempShape)>>]

(* The posted items are a stretch of the road in driving order.            *)
InOrder ==
    \A k \in 1..(Len(roaditems) - 1) :
        \E i \in 1..Len(tmcs) :
            /\ tmcs[i] = roaditems[k]
            /\ roaditems[k + 1] = IF i < Len(tmcs) THEN tmcs[i + 1]
                                  ELSE IF isLoopRoad THEN tmcs[2] ELSE 0

(* No location comes back to the los it begins with, and one with several  *)
(* rows does not begin with the los the location before it begins with.    *)
Expressible ==
    \A k \in DOMAIN roaditems :
        LET los == Authored[k][2] IN
        /\ \A n \in 2..Len(los) : los[n] # los[1]
        /\ Len(los) > 1 /\ k > 1 => los[1] # Authored[k - 1][2][1]

(* A message of locations in driving order, opened with the version it was *)
(* made with, shows every location the los that was entered, in order,     *)
(* exactly if it is Expressible: structSection passes over a section like  *)
(* lastLos, and run gives what follows to the wrong location or to none.   *)
ShownAsAuthored ==
    pc = "done" /\ InOrder /\ known = tmcs =>
        (outcome = "shown" /\ Shown = Authored <=> Expressible)

(* Opened with a version that lacks the beginning of the road, a message   *)
(* of one row for each location still gives the right los to each location *)
(* that it shows.                                                          *)
ShorterRoadShowsSuffix ==
    outcome = "shown" /\ InOrder /\ (\A k \in DOMAIN roaditems : Len(message[roaditems[k]]) = 1) =>
        \A k \in DOMAIN Shown : Shown[k] \in Range(Authored)

(* The encoder writes no section that the decoder's indices cannot take,   *)
(* and what fails on a relative section is one for the beginning of a      *)
(* road.  The walk leaves or begins the road only if the items are out of  *)
(* order or the road has become shorter.                                   *)
EncodedIsDecodable ==
    /\ outcome = "error" => NullDrawn
    /\ pc = "done" /\ InOrder /\ known = tmcs => outcome = "shown"

(* The parts of a location with links follow each other up to its end and  *)
(* do not overlap; of one without nothing is drawn.  There may be a gap:   *)
(* splitShape drops the vertex before a cut, and with it the segment's     *)
(* beginning if no other vertex precedes it.                               *)
PartsInOrder ==
    \A k \in DOMAIN shows :
        LET parts == shows[k].tempShape
            drawn == {n \in DOMAIN parts : parts[n].shape # <<>>}
        IN /\ \A m, n \in drawn : m < n => Last(parts[m].shape) <= Head(parts[n].shape)
           /\ parts # <<>> => IF Unlinked(shows[k].id) THEN drawn = {}
                              ELSE Len(parts) \in drawn /\ Last(Last(parts).shape) = Last(Shape)
           /\ \A n \in drawn : \A x, y \in DOMAIN parts[n].shape :
                 x < y => parts[n].shape[x] <= parts[n].shape[y]

(* "losshape: the coordinates of the affected length": what the page draws *)
(* for a row has the length that was entered for it.                       *)
RowDrawnAtItsLength ==
    \A id \in DOMAIN message : \A n \in DOMAIN message[id] :
        LET row == message[id][n] IN Last(row.shape) - Head(row.shape) = row.length
=============================================================================
