----------------------- MODULE SimulateSessionProofs -----------------------
(***************************************************************************)
(* Proofs about SimulateSession, for any number of visits, sessions and    *)
(* messages: which page is under which mask, whose session a page holds,   *)
(* and what a request carries.                                             *)
(***************************************************************************)
EXTENDS SimulateSession, SequenceTheorems, TLAPS

-----------------------------------------------------------------------------
(* The inductive invariant.                                                *)

Pieces == [service : Services, page : {0, 1, 2},
           sessionId : Sessions \cup {None}, getMessageUrl : Sessions \cup {None},
           next : BOOLEAN, lp : Lps \cup {None}, versions : {"free", "used", "changed"}]

(* The stages of a visit: what is in the document, what moves and what is  *)
(* masked.  Underneath is the first page when the second is over it.       *)
First      == dom[1].service
Underneath == {Menu, <<First, 1>>}
Moving(ops, s, p) ==
    moving \in Moves /\ moving.op \in ops /\ moving.service = s /\ moving.page = p

LoadsFirst == \E s \in Services : Moving({"load"}, s, 1)

AtMenu   == Len(dom) = 0 /\ moving = None /\ masks = {}
ToFirst  == /\ Len(dom) = 0 /\ masks = {Menu}
            /\ \E s \in Services : Moving({"load", "unmask"}, s, 1)
AtFirst  == /\ Len(dom) = 1 /\ masks = {Menu} /\ dom[1].page \in {0, 1}
            /\ moving = None \/ (Moving({"fade"}, First, 1) /\ dom[1].page = 1)
ToSecond == /\ Len(dom) = 1 /\ masks = Underneath /\ dom[1].page = 1
            /\ Moving({"load", "unmask"}, First, 2)
AtSecond == /\ Len(dom) = 2 /\ masks = Underneath /\ dom[1].page = 1
            /\ dom[2].service = First /\ dom[2].page \in {0, 2}
            /\ moving = None \/ (Moving({"fade"}, First, 2) /\ dom[2].page = 2)

Shape == /\ dom \in Seq(Pieces)
         /\ AtMenu \/ ToFirst \/ AtFirst \/ ToSecond \/ AtSecond

(* Requests know the visit they were sent in, and those of this visit were *)
(* sent by the service that is open.                                       *)
RequestsTyped ==
    /\ visit \in Nat /\ stray \in BOOLEAN
    /\ sent \in [init : Nat, get : Nat]
    /\ \A r \in inits : /\ r.id \in 0..MaxInits /\ r.service \in Services \ {"bmw"} /\ r.lp \in Lps
                        /\ r.visit \in Nat /\ r.visit <= visit
    /\ \A g \in gets : g.visit \in Nat /\ g.visit <= visit
    /\ \A d \in decodes : d.onVisit \in Nat /\ d.onVisit <= visit

OfThisVisit ==
    /\ \A r \in inits : r.visit = visit => \A i \in DOMAIN dom : dom[i].service = r.service
    /\ LoadsFirst => \A r \in inits \cup gets : r.visit # visit

(* An answer writes the session and its url together, and the select       *)
(* always has a value.                                                     *)
UrlIsSession ==
    \A i \in DOMAIN dom : dom[i].page = 1 =>
        /\ dom[i].lp \in Lps
        /\ IF dom[i].service = "bmw" THEN dom[i].sessionId = None
           ELSE dom[i].getMessageUrl = dom[i].sessionId

(* What the select of a first page tells of the sessions of the visit. *)
VersionsTell ==
    ~stray => \A i \in DOMAIN dom : dom[i].page = 1 =>
        /\ dom[i].versions = "free" =>
              /\ dom[i].sessionId = None
              /\ \A r \in inits : r.visit # visit
              /\ \A g \in gets : g.visit = visit => g.sessionId = None
        /\ dom[i].versions = "used" =>
              /\ dom[i].sessionId # None => dom[i].sessionId.lp = dom[i].lp
              /\ \A r \in inits : r.visit = visit => r.lp = dom[i].lp
              /\ \A g \in gets : g.visit = visit /\ g.sessionId # None =>
                    g.sessionId.lp = dom[i].lp

IInv == /\ Shape
        /\ RequestsTyped
        /\ OfThisVisit
        /\ UrlIsSession
        /\ VersionsTell
        /\ SessionIsOwn
        /\ RequestsMatchSession

-----------------------------------------------------------------------------
(* The document.                                                           *)

(* The fields are those of the first piece, when it is a first page. *)
LEMMA FieldsAreFirst ==
    ASSUME Shape
    PROVE  /\ Len(dom) \in Nat /\ DOMAIN dom = 1..Len(dom)
           /\ Fields = IF Len(dom) > 0 /\ dom[1].page = 1 THEN 1 ELSE 0
           /\ \A i \in DOMAIN dom : dom[i] \in Pieces
           /\ \A i \in DOMAIN dom : dom[i].page = 1 => i = 1
           /\ \A i \in DOMAIN dom : dom[i].service = First
           /\ Len(dom) > 0 => First \in Services
<1>1. /\ Len(dom) \in Nat /\ DOMAIN dom = 1..Len(dom)
      /\ \A i \in DOMAIN dom : dom[i] \in Pieces
  BY DEF Shape
<1>2. Len(dom) \in {0, 1, 2}
  BY DEF Shape, AtMenu, ToFirst, AtFirst, ToSecond, AtSecond
<1>3. /\ \A i \in DOMAIN dom : dom[i].page = 1 => i = 1
      /\ \A i \in DOMAIN dom : dom[i].service = First
  <2>1. ASSUME NEW i \in DOMAIN dom
        PROVE  (dom[i].page = 1 => i = 1) /\ dom[i].service = First
    <3>1. i = 1 \/ (i = 2 /\ Len(dom) = 2)
      BY <1>1, <1>2
    <3>2. CASE i = 1
      BY <3>2 DEF First
    <3>3. CASE i = 2 /\ Len(dom) = 2
      BY <3>3 DEF Shape, AtMenu, ToFirst, AtFirst, ToSecond, AtSecond
    <3>4. QED
      BY <3>1, <3>2, <3>3
  <2>2. QED
    BY <2>1
<1> DEFINE I == {i \in 1..Len(dom) : dom[i].page = 1}
<1>4. Fields = IF I # {} THEN Min(I) ELSE 0
  BY DEF Fields, SelectInSeq
<1>5. CASE Len(dom) > 0 /\ dom[1].page = 1
  <2>1. I = {1}
    BY <1>1, <1>3, <1>5
  <2>2. Min({1}) = 1
    BY DEF Min
  <2>3. QED
    BY <1>1, <1>3, <1>4, <1>5, <2>1, <2>2 DEF First, Pieces
<1>6. CASE ~(Len(dom) > 0 /\ dom[1].page = 1)
  <2>1. I = {}
    BY <1>1, <1>3, <1>6
  <2>2. Len(dom) > 0 => First \in Services
    BY <1>1 DEF First, Pieces
  <2>3. QED
    BY <1>1, <1>3, <1>4, <1>6, <2>1, <2>2
<1>7. QED
  BY <1>5, <1>6

(* Writing to the fields of a first page leaves the pieces what they are. *)
LEMMA EditKeepsShape ==
    ASSUME Shape, NEW c \in Pieces, Len(dom) > 0, dom[1].page = 1,
           dom' = [dom EXCEPT ![1] = c], c.service = dom[1].service, c.page = 1,
           masks' = masks, moving' = moving
    PROVE  Shape' /\ Len(dom') = Len(dom) /\ First' = First /\ DOMAIN dom' = DOMAIN dom
<1>1. /\ dom' \in Seq(Pieces) /\ Len(dom') = Len(dom) /\ dom'[1] = c /\ DOMAIN dom' = DOMAIN dom
      /\ Len(dom) = 2 => dom'[2] = dom[2]
  BY FieldsAreFirst DEF Shape
<1>2. First' = First
  BY <1>1 DEF First
<1>3. QED
  BY <1>1, <1>2 DEF Shape, AtMenu, ToFirst, AtFirst, ToSecond, AtSecond, Underneath, Moving

(* What Write leaves of the document. *)
LEMMA WriteKeepsShape ==
    ASSUME Shape, NEW session \in Sessions \cup {None}, NEW next \in BOOLEAN, Write(session, next),
           masks' = masks, moving' = moving
    PROVE  /\ Shape' /\ Len(dom') = Len(dom) /\ First' = First /\ DOMAIN dom' = DOMAIN dom
           /\ \A i \in DOMAIN dom : dom[i].page # 1 => dom'[i] = dom[i]
           /\ \A i \in DOMAIN dom : dom[i].page = 1 =>
                 /\ dom'[i].sessionId = IF First = "bmw" THEN dom[i].sessionId ELSE session
                 /\ dom'[i].getMessageUrl = session
                 /\ dom'[i].next = next
                 /\ dom'[i].page = 1 /\ dom'[i].service = dom[i].service
                 /\ dom'[i].lp = dom[i].lp /\ dom'[i].versions = dom[i].versions
<1>1. CASE Len(dom) > 0 /\ dom[1].page = 1
  <2> DEFINE c == Filled(dom[1], session, next)
  <2>1. dom[1] \in Pieces /\ Fields = 1 /\ 1 \in DOMAIN dom
    BY <1>1, FieldsAreFirst
  <2>3. c \in Pieces /\ c.service = dom[1].service /\ c.page = 1
    BY <1>1, <2>1 DEF Pieces, Filled
  <2>4. dom' = [dom EXCEPT ![1] = c]
    BY <2>1 DEF Write
  <2>5. /\ c.sessionId = IF First = "bmw" THEN dom[1].sessionId ELSE session
        /\ c.getMessageUrl = session /\ c.next = next
        /\ c.lp = dom[1].lp /\ c.versions = dom[1].versions
    BY <2>1 DEF Pieces, Filled, First
  <2> HIDE DEF c
  <2>6. Shape' /\ Len(dom') = Len(dom) /\ First' = First /\ DOMAIN dom' = DOMAIN dom
    BY <1>1, <2>3, <2>4, EditKeepsShape
  <2>7. dom'[1] = c /\ \A i \in DOMAIN dom : i # 1 => dom'[i] = dom[i]
    BY <2>1, <2>4
  <2>8. \A i \in DOMAIN dom : dom[i].page = 1 <=> i = 1
    BY <1>1, FieldsAreFirst
  <2>9. QED
    BY <2>3, <2>5, <2>6, <2>7, <2>8
<1>2. CASE ~(Len(dom) > 0 /\ dom[1].page = 1)
  <2>1. dom' = dom
    BY <1>2, FieldsAreFirst DEF Write
  <2>2. \A i \in DOMAIN dom : dom[i].page # 1
    BY <1>2, FieldsAreFirst
  <2>3. Shape'
    BY <2>1 DEF Shape, AtMenu, ToFirst, AtFirst, ToSecond, AtSecond, Underneath, Moving, First
  <2>4. QED
    BY <2>1, <2>2, <2>3 DEF First
<1>3. QED
  BY <1>1, <1>2

-----------------------------------------------------------------------------
(* Steps.                                                                  *)

(* A page that can be clicked on is the last one, and nothing moves. *)
LEMMA OpenIsLast ==
    ASSUME Shape, NEW s, NEW p \in {1, 2}, Open(s, p)
    PROVE  /\ moving = None /\ s = First /\ Len(dom) = p /\ dom[p].page = p /\ dom[1].page = 1
           /\ Menu \in masks /\ (p = 1 => AtFirst) /\ (p = 2 => AtSecond)
<1>1. PICK i \in DOMAIN dom : dom[i].service = s /\ dom[i].page = p
  BY DEF Open
<1>2. s = First /\ (p = 1 => i = 1) /\ i \in 1..Len(dom)
  BY <1>1, FieldsAreFirst
<1>3. moving = None /\ <<s, p>> \notin masks
  BY DEF Open
<1>4. AtFirst \/ AtSecond
  BY <1>2, <1>3, NoneAssumption DEF Shape, AtMenu, ToFirst, ToSecond, Moving
<1>5. CASE AtFirst
  BY <1>1, <1>2, <1>3, <1>5 DEF AtFirst
<1>6. CASE AtSecond
  <2>1. p = 2
    BY <1>2, <1>3, <1>6 DEF AtSecond, Underneath
  <2>2. i = 2
    BY <1>1, <1>2, <1>6, <2>1 DEF AtSecond
  <2>3. QED
    BY <1>1, <1>2, <1>3, <1>6, <2>1, <2>2 DEF AtSecond, Underneath
<1>7. QED
  BY <1>4, <1>5, <1>6

(* A new piece. *)
LEMMA PieceIsTyped ==
    ASSUME NEW s \in Services, NEW p \in {0, 1, 2}
    PROVE  Piece(s, p) \in Pieces
  BY LpsAssumption DEF Piece, Pieces

(* Where a page writes to its own fields: INIT SESSION and the select. *)
LEMMA InitSessionEdits ==
    ASSUME Shape, NEW s \in Services, initSession(s)
    PROVE  /\ Shape' /\ DOMAIN dom' = DOMAIN dom /\ First' = First /\ s = First
           /\ moving = None /\ AtFirst /\ dom[1].page = 1 /\ Val("lp") = dom[1].lp
           /\ \A i \in DOMAIN dom :
                 /\ i = 1 /\ dom'[i].page = 1 /\ dom'[i].service = First
                 /\ dom'[i].sessionId = dom[i].sessionId
                 /\ dom'[i].getMessageUrl = dom[i].getMessageUrl
                 /\ dom'[i].lp = dom[i].lp
                 /\ dom'[i].next = IF s = "mib2" THEN dom[i].next ELSE FALSE
                 /\ dom'[i].versions = IF dom[i].versions = "free" THEN "used" ELSE dom[i].versions
<1>1. /\ s = First /\ Len(dom) = 1 /\ dom[1].page = 1 /\ moving = None /\ AtFirst
  BY OpenIsLast DEF initSession
<1>2. Fields = 1 /\ dom[1] \in Pieces /\ DOMAIN dom = {1}
  BY <1>1, FieldsAreFirst
<1> DEFINE c == Asking(dom[1])
<1>3. dom' = [dom EXCEPT ![1] = c] /\ masks' = masks /\ moving' = moving
  BY <1>2 DEF initSession
<1>4. /\ c \in Pieces /\ c.service = dom[1].service /\ c.page = 1
      /\ c.sessionId = dom[1].sessionId /\ c.getMessageUrl = dom[1].getMessageUrl /\ c.lp = dom[1].lp
      /\ c.next = IF s = "mib2" THEN dom[1].next ELSE FALSE
      /\ c.versions = IF dom[1].versions = "free" THEN "used" ELSE dom[1].versions
  BY <1>1, <1>2 DEF Pieces, Asking, First
<1>5. Val("lp") = dom[1].lp
  BY <1>2 DEF Val
<1> HIDE DEF c
<1>9. Len(dom) > 0 /\ c \in Pieces
  BY <1>1, <1>4
<1>6. Shape' /\ Len(dom') = Len(dom) /\ First' = First /\ DOMAIN dom' = DOMAIN dom
  BY <1>1, <1>3, <1>4, <1>9, EditKeepsShape
<1>7. dom'[1] = c
  BY <1>2, <1>3
<1>8. QED
  BY <1>1, <1>2, <1>4, <1>5, <1>6, <1>7 DEF First

LEMMA ChangeEdits ==
    ASSUME Shape, NEW s \in Services, NEW lp \in Lps, ChangeVersion(s, lp)
    PROVE  /\ Shape' /\ DOMAIN dom' = DOMAIN dom /\ First' = First /\ moving = None
           /\ \A i \in DOMAIN dom :
                 /\ i = 1 /\ dom[i].page = 1 /\ dom'[i].page = 1 /\ dom'[i].service = First
                 /\ dom'[i].lp = lp
                 /\ dom'[i].sessionId = dom[i].sessionId
                 /\ dom'[i].getMessageUrl = dom[i].getMessageUrl
                 /\ dom'[i].next = dom[i].next
                 /\ dom'[i].versions = IF dom[i].versions = "free" THEN "free" ELSE "changed"
<1>1. /\ s = First /\ Len(dom) = 1 /\ dom[1].page = 1 /\ moving = None
  BY OpenIsLast DEF ChangeVersion
<1>2. Fields = 1 /\ dom[1] \in Pieces /\ DOMAIN dom = {1}
  BY <1>1, FieldsAreFirst
<1> DEFINE c == Selected(dom[1], lp)
<1>3. dom' = [dom EXCEPT ![1] = c] /\ masks' = masks /\ moving' = moving
  BY <1>2 DEF ChangeVersion
<1>4. /\ c \in Pieces /\ c.service = dom[1].service /\ c.page = 1
      /\ c.sessionId = dom[1].sessionId /\ c.getMessageUrl = dom[1].getMessageUrl
      /\ c.next = dom[1].next /\ c.lp = lp
      /\ c.versions = IF dom[1].versions = "free" THEN "free" ELSE "changed"
  BY <1>1, <1>2 DEF Pieces, Selected
<1> HIDE DEF c
<1>9. Len(dom) > 0 /\ c \in Pieces
  BY <1>1, <1>4
<1>5. Shape' /\ Len(dom') = Len(dom) /\ First' = First /\ DOMAIN dom' = DOMAIN dom
  BY <1>1, <1>3, <1>4, <1>9, EditKeepsShape
<1>6. dom'[1] = c
  BY <1>2, <1>3
<1>7. QED
  BY <1>1, <1>2, <1>4, <1>5, <1>6 DEF First

(* Where an answer writes to the fields that are there. *)
LEMMA AnswerEdits ==
    ASSUME Shape, RequestsTyped, NEW r \in inits, SessionOpened(r) \/ SessionFails(r)
    PROVE  /\ Shape' /\ DOMAIN dom' = DOMAIN dom /\ First' = First
           /\ masks' = masks /\ moving' = moving
<1>1. masks' = masks /\ moving' = moving
  BY DEF SessionOpened, SessionFails
<1>2. CASE SessionOpened(r)
  <2>1. [id |-> r.id, service |-> r.service, lp |-> r.lp] \in Sessions
    BY DEF RequestsTyped, Sessions
  <2>2. QED
    BY <1>1, <1>2, <2>1, WriteKeepsShape DEF SessionOpened
<1>3. CASE SessionFails(r) /\ r.service = "daimler"
  <2>1. dom' = dom
    BY <1>3 DEF SessionFails
  <2>2. QED
    BY <1>1, <2>1 DEF Shape, AtMenu, ToFirst, AtFirst, ToSecond, AtSecond, Underneath, Moving, First
<1>4. CASE SessionFails(r) /\ r.service # "daimler"
  BY <1>1, <1>4, WriteKeepsShape DEF SessionFails
<1>5. QED
  BY <1>2, <1>3, <1>4

(* The pieces follow each other as next_click and last_click say. *)
LEMMA ShapeStep ==
    ASSUME IInv, [Next]_vars
    PROVE  Shape'
<1> USE DEF IInv
<1>1. ASSUME NEW s \in Services, OpenService(s)
      PROVE  Shape'
  <2>1. Len(dom) = 0 /\ masks = {}
    BY <1>1, NoneAssumption DEF OpenService, Shape, AtMenu, ToFirst, AtFirst, ToSecond, AtSecond, Underneath
  <2>2. ToFirst'
    <3>1. [op |-> "load", service |-> s, page |-> 1] \in Moves
      BY DEF Moves
    <3>2. QED
      BY <1>1, <2>1, <3>1 DEF OpenService, ToFirst, Moving
  <2>3. QED
    BY <1>1, <2>2 DEF Shape, OpenService
<1>2. ASSUME NEW s \in Services, NextStep(s)
      PROVE  Shape'
  <2>1. AtFirst /\ s = First /\ dom[1].page = 1
    BY <1>2, OpenIsLast DEF NextStep
  <2>2. [op |-> "load", service |-> s, page |-> 2] \in Moves
    BY DEF Moves
  <2>3. ToSecond'
    BY <1>2, <2>1, <2>2 DEF NextStep, AtFirst, ToSecond, Moving, First, Underneath
  <2>4. QED
    BY <1>2, <2>3 DEF Shape, NextStep
<1>3. ASSUME NEW s \in Services, NEW p \in {1, 2}, last_click(s, p)
      PROVE  Shape'
  <2>1. s = First /\ Len(dom) = p /\ dom[p].page = p /\ (p = 1 => AtFirst) /\ (p = 2 => AtSecond)
    BY <1>3, OpenIsLast DEF last_click
  <2>2. [op |-> "fade", service |-> s, page |-> p] \in Moves
    BY DEF Moves
  <2>3. CASE p = 1
    <3>1. AtFirst'
      BY <1>3, <2>1, <2>2, <2>3 DEF last_click, AtFirst, Moving, First
    <3>2. QED
      BY <1>3, <3>1 DEF Shape, last_click
  <2>4. CASE p = 2
    <3>1. AtSecond'
      BY <1>3, <2>1, <2>2, <2>4 DEF last_click, AtSecond, Moving, First, Underneath
    <3>2. QED
      BY <1>3, <3>1 DEF Shape, last_click
  <2>5. QED
    BY <2>3, <2>4
<1>4. CASE Loaded \/ LoadFails
  <2>1. PICK p \in {0, 1, 2} : /\ dom' = Append(dom, Piece(moving.service, p))
                               /\ moving.op = "load" /\ moving # None /\ moving' = None /\ masks' = masks
                               /\ p \in {0, moving.page}
    BY <1>4 DEF Loaded, LoadFails, Shape, AtMenu, ToFirst, AtFirst, ToSecond, AtSecond, Moving, Moves
  <2>2. moving \in Moves /\ Piece(moving.service, p) \in Pieces
    BY <2>1, PieceIsTyped DEF Shape, AtMenu, ToFirst, AtFirst, ToSecond, AtSecond, Moving, Moves
  <2>3. /\ dom' \in Seq(Pieces) /\ Len(dom') = Len(dom) + 1
        /\ dom'[Len(dom) + 1] = Piece(moving.service, p)
        /\ \A i \in 1..Len(dom) : dom'[i] = dom[i]
    BY <2>1, <2>2, AppendProperties DEF Shape
  <2>4. Piece(moving.service, p).page = p /\ Piece(moving.service, p).service = moving.service
    BY DEF Piece
  <2>5. CASE ToFirst
    <3>1. AtFirst'
      BY <2>1, <2>3, <2>4, <2>5 DEF ToFirst, AtFirst, Moving
    <3>2. QED
      BY <2>3, <3>1 DEF Shape
  <2>6. CASE ToSecond
    <3>1. Len(dom') = 2 /\ dom'[1] = dom[1] /\ dom'[2] = Piece(moving.service, p)
      BY <2>3, <2>6 DEF ToSecond
    <3>2. AtSecond'
      BY <2>1, <2>4, <2>6, <3>1 DEF ToSecond, AtSecond, Moving, First, Underneath
    <3>3. QED
      BY <2>3, <3>2 DEF Shape
  <2>7. QED
    BY <2>1, <2>5, <2>6 DEF Shape, AtMenu, AtFirst, AtSecond, Moving
<1>5. CASE Removed
  <2>1. PICK i \in DOMAIN dom : /\ moving # None /\ moving.op = "fade"
                                /\ dom[i].service = moving.service /\ dom[i].page = moving.page
                                /\ dom' = RemoveAt(dom, i)
                                /\ moving' = [moving EXCEPT !.op = "unmask"] /\ masks' = masks
    BY <1>5 DEF Removed
  <2>2. CASE AtFirst
    <3>1. i = 1 /\ dom' = <<>> /\ moving \in Moves /\ moving.page = 1
      BY <2>1, <2>2, FieldsAreFirst DEF AtFirst, Moving, RemoveAt
    <3>2. moving' \in Moves /\ moving'.op = "unmask" /\ moving'.page = 1 /\ moving'.service \in Services
      BY <2>1, <3>1 DEF Moves
    <3>3. ToFirst' /\ dom' \in Seq(Pieces)
      <4>1. dom' \in Seq(Pieces) /\ Len(dom') = 0
        BY <3>1
      <4>2. ToFirst'
        BY <2>1, <2>2, <3>2, <4>1 DEF AtFirst, ToFirst, Moving
      <4>3. QED
        BY <4>1, <4>2
    <3>4. QED
      BY <3>3 DEF Shape
  <2>3. CASE AtSecond
    <3>1. i = 2 /\ moving \in Moves /\ moving.page = 2 /\ moving.service = First
      BY <2>1, <2>3, FieldsAreFirst DEF AtSecond, Moving
    <3>2. dom' \in Seq(Pieces) /\ Len(dom') = 1 /\ dom'[1] = dom[1]
      BY <2>1, <2>3, <3>1, FieldsAreFirst DEF AtSecond, RemoveAt, Shape
    <3>3. moving' \in Moves /\ moving'.op = "unmask" /\ moving'.page = 2 /\ moving'.service = First
      BY <2>1, <3>1 DEF Moves
    <3>4. ToSecond'
      BY <2>1, <2>3, <3>2, <3>3 DEF AtSecond, ToSecond, Moving, First, Underneath
    <3>5. QED
      BY <3>2, <3>4 DEF Shape
  <2>4. QED
    BY <2>1, <2>2, <2>3, NoneAssumption DEF Shape, AtMenu, ToFirst, ToSecond, Moving
<1>6. CASE Unmask
  <2>1. CASE ToFirst
    <3>1. AtMenu'
      BY <1>6, <2>1 DEF Unmask, ToFirst, AtMenu, Moving
    <3>2. QED
      BY <1>6, <3>1 DEF Shape, Unmask
  <2>2. CASE ToSecond
    <3>1. masks' = {Menu}
      BY <1>6, <2>2 DEF Unmask, ToSecond, Underneath, Moving, Menu
    <3>2. AtFirst'
      BY <1>6, <2>2, <3>1 DEF Unmask, ToSecond, AtFirst
    <3>3. QED
      BY <1>6, <3>2 DEF Shape, Unmask
  <2>3. QED
    BY <1>6, <2>1, <2>2 DEF Unmask, Shape, AtMenu, AtFirst, AtSecond, Moving
<1>7. ASSUME NEW s \in Services, initSession(s)
      PROVE  Shape'
  BY <1>7, InitSessionEdits DEF initSession
<1>8. ASSUME NEW s \in Services, NEW lp \in Lps, ChangeVersion(s, lp)
      PROVE  Shape'
  BY <1>8, ChangeEdits
<1>9. ASSUME NEW r \in inits, SessionOpened(r) \/ SessionFails(r)
      PROVE  Shape'
  BY <1>9, AnswerEdits
<1>10. CASE UNCHANGED <<dom, masks, moving>>
  BY <1>10 DEF Shape, AtMenu, ToFirst, AtFirst, ToSecond, AtSecond, Underneath, Moving, First
<1>11. QED
  BY <1>1, <1>2, <1>3, <1>4, <1>5, <1>6, <1>7, <1>8, <1>9, <1>10
  DEF Next, Click, Move, Answer, getMessage, PostFails, MessageReceived, MessageFails, Decoded, vars

-----------------------------------------------------------------------------
(* What a step does to the pieces and the requests.                        *)

(* The steps that write to no piece, open no visit and send no request. *)
Rest == /\ \A i \in DOMAIN dom' : i \in DOMAIN dom /\ dom'[i] = dom[i]
        /\ UNCHANGED <<visit, stray, sent>>
        /\ inits' \subseteq inits /\ gets' \subseteq gets /\ decodes' \subseteq decodes
        /\ LoadsFirst' => LoadsFirst

(* A piece that is removed leaves the others as they are. *)
LEMMA RemovedRests ==
    ASSUME Shape, Removed
    PROVE  Rest
<1>1. PICK i \in DOMAIN dom : /\ moving # None /\ moving.op = "fade"
                              /\ dom[i].service = moving.service /\ dom[i].page = moving.page
                              /\ dom' = RemoveAt(dom, i)
                              /\ moving' = [moving EXCEPT !.op = "unmask"]
                              /\ UNCHANGED <<masks, visit, stray, posts>>
  BY DEF Removed
<1>2. \A j \in DOMAIN dom' : j \in DOMAIN dom /\ dom'[j] = dom[j]
  <2>1. CASE AtFirst
    <3>1. i = 1 /\ dom' = <<>>
      BY <1>1, <2>1, FieldsAreFirst DEF AtFirst, RemoveAt
    <3>2. QED
      BY <3>1
  <2>2. CASE AtSecond
    <3>1. i = 2
      BY <1>1, <2>2, FieldsAreFirst, NoneAssumption DEF AtSecond, Moving, Moves
    <3>2. Len(dom') = 1 /\ dom'[1] = dom[1] /\ DOMAIN dom' = 1..1
      BY <1>1, <2>2, <3>1, FieldsAreFirst DEF AtSecond, RemoveAt, Shape
    <3>3. QED
      BY <2>2, <3>2, FieldsAreFirst DEF AtSecond
  <2>3. QED
    BY <1>1, <2>1, <2>2, NoneAssumption DEF Shape, AtMenu, ToFirst, ToSecond, Moving
<1>3. ~LoadsFirst'
  <2>1. moving \in Moves
    BY <1>1 DEF Shape, AtMenu, ToFirst, AtFirst, ToSecond, AtSecond, Moving
  <2>2. moving'.op = "unmask"
    BY <1>1, <2>1 DEF Moves
  <2>3. QED
    BY <2>2 DEF LoadsFirst, Moving
<1>4. QED
  BY <1>1, <1>2, <1>3 DEF Rest, posts

(* A load adds a piece; a first page is added only in a document without   *)
(* pieces, and any other piece to that of its own service.                 *)
LEMMA LoadAdds ==
    ASSUME Shape, Loaded \/ LoadFails
    PROVE  /\ \A i \in DOMAIN dom' :
                 \/ i \in DOMAIN dom /\ dom'[i] = dom[i]
                 \/ \E p \in {0, 1, 2} : /\ dom'[i] = Piece(moving.service, p)
                                         /\ p = 1 => LoadsFirst
                                         /\ LoadsFirst \/ (1 \in DOMAIN dom /\ moving.service = First)
           /\ moving' = None /\ UNCHANGED <<visit, stray, posts>>
<1>1. PICK p \in {0, 1, 2} : /\ dom' = Append(dom, Piece(moving.service, p))
                             /\ moving.op = "load" /\ moving # None /\ moving' = None
                             /\ p \in {0, moving.page}
                             /\ UNCHANGED <<visit, stray, posts>>
  BY DEF Loaded, LoadFails, Shape, AtMenu, ToFirst, AtFirst, ToSecond, AtSecond, Moving, Moves
<1>2. moving \in Moves /\ Piece(moving.service, p) \in Pieces
  BY <1>1, PieceIsTyped DEF Shape, AtMenu, ToFirst, AtFirst, ToSecond, AtSecond, Moving, Moves
<1>3. /\ DOMAIN dom' = 1..(Len(dom) + 1) /\ DOMAIN dom = 1..Len(dom) /\ Len(dom) \in Nat
      /\ dom'[Len(dom) + 1] = Piece(moving.service, p)
      /\ \A i \in 1..Len(dom) : dom'[i] = dom[i]
  BY <1>1, <1>2, AppendProperties DEF Shape
<1>4. /\ p = 1 => LoadsFirst
      /\ LoadsFirst \/ (Len(dom) = 1 /\ moving.service = First)
  BY <1>1 DEF Shape, AtMenu, ToFirst, AtFirst, ToSecond, AtSecond, Moving, LoadsFirst
<1>5. QED
  BY <1>1, <1>3, <1>4

(* Nothing is written to the pieces but by INIT SESSION, the select and the *)
(* answers; and only GET MESSAGE and its answer add to gets and decodes.    *)
LEMMA StepCases ==
    ASSUME Shape, [Next]_vars
    PROVE  \/ \E s \in Services : OpenService(s) \/ initSession(s) \/ getMessage(s)
           \/ \E s \in Services, lp \in Lps : ChangeVersion(s, lp)
           \/ Loaded \/ LoadFails
           \/ \E r \in inits : SessionOpened(r) \/ SessionFails(r)
           \/ \E g \in gets : MessageReceived(g)
           \/ Rest
<1>1. ASSUME NEW s \in Services, NextStep(s) \/ last_click(s, 1) \/ last_click(s, 2)
      PROVE  Rest
  <2>1. moving' = [op |-> "load", service |-> s, page |-> 2] \/ moving'.op = "fade"
    BY <1>1 DEF NextStep, last_click
  <2>2. ~LoadsFirst'
    BY <2>1 DEF LoadsFirst, Moving
  <2>3. QED
    BY <1>1, <2>2 DEF NextStep, last_click, Rest, posts
<1>2. CASE Unmask
  BY <1>2, NoneAssumption DEF Unmask, Rest, posts, LoadsFirst, Moving
<1>3. ASSUME NEW g \in gets, MessageFails(g)
      PROVE  Rest
  BY <1>3 DEF MessageFails, Rest, LoadsFirst, Moving
<1>4. ASSUME NEW d \in decodes, Decoded(d)
      PROVE  Rest
  BY <1>4 DEF Decoded, Rest, LoadsFirst, Moving
<1>5. ASSUME NEW r \in inits, PostFails(r)
      PROVE  Rest
  BY <1>5 DEF PostFails, Rest, LoadsFirst, Moving
<1>6. CASE UNCHANGED vars
  BY <1>6 DEF vars, posts, Rest, LoadsFirst, Moving
<1>7. QED
  BY <1>1, <1>2, <1>3, <1>4, <1>5, <1>6, RemovedRests DEF Next, Click, Move, Answer

-----------------------------------------------------------------------------
(* The other parts of the invariant are kept.                              *)

(* OpenService finds no piece. *)
LEMMA OpenFromMenu ==
    ASSUME Shape, NEW s \in Services, OpenService(s)
    PROVE  DOMAIN dom' = {} /\ dom' = dom /\ visit' = visit + 1 /\ stray' = FALSE /\ UNCHANGED posts
<1>1. Len(dom) = 0 /\ dom' = dom
  BY NoneAssumption
  DEF OpenService, Shape, AtMenu, ToFirst, AtFirst, ToSecond, AtSecond, Underneath
<1>2. DOMAIN dom = {}
  BY <1>1, FieldsAreFirst
<1>3. QED
  BY <1>1, <1>2 DEF OpenService

(* What GET MESSAGE sends. *)
LEMMA GetAdds ==
    ASSUME Shape, UrlIsSession, NEW s \in Services, getMessage(s)
    PROVE  /\ UNCHANGED <<dom, moving, visit, stray, inits, decodes>>
           /\ 1 \in DOMAIN dom /\ dom[1].page = 1 /\ s = dom[1].service
           /\ sent' = [sent EXCEPT !.get = @ + 1]
           /\ \E g : /\ gets' = gets \cup {g}
                     /\ g.by = s /\ g.type = s /\ g.visit = visit
                     /\ g.sessionId = dom[1].sessionId /\ g.url = g.sessionId
<1>1. s = First /\ Len(dom) = 2 /\ dom[1].page = 1
  BY OpenIsLast DEF getMessage
<1>2. Fields = 1 /\ 1 \in DOMAIN dom /\ dom[1].service = s
  BY <1>1, FieldsAreFirst DEF First
<1> DEFINE g == [id |-> sent.get, by |-> s, type |-> ServiceType,
                 sessionId |-> IF s = "bmw" THEN None ELSE Val("sessionId"),
                 url |-> IF s = "bmw" THEN None ELSE Val("getMessageUrl"), visit |-> visit]
<1>3. gets' = gets \cup {g}
  BY DEF getMessage
<1>4. ServiceType = s /\ Val("sessionId") = dom[1].sessionId /\ Val("getMessageUrl") = dom[1].getMessageUrl
  BY <1>2 DEF ServiceType, Val
<1>5. /\ g.by = s /\ g.type = s /\ g.visit = visit
      /\ g.sessionId = dom[1].sessionId /\ g.url = g.sessionId
  BY <1>1, <1>2, <1>4 DEF UrlIsSession
<1> HIDE DEF g
<1>6. QED
  BY <1>1, <1>2, <1>3, <1>5 DEF getMessage

(* What an answer to INIT SESSION writes to the fields that are there. *)
LEMMA AnswerWrites ==
    ASSUME Shape, RequestsTyped, NEW r \in inits, SessionOpened(r) \/ SessionFails(r)
    PROVE  /\ DOMAIN dom' = DOMAIN dom /\ inits' = inits \ {r}
           /\ UNCHANGED <<moving, visit, gets, decodes, sent>>
           /\ stray' = (stray \/ r.visit # visit)
           /\ \A i \in DOMAIN dom : dom[i].page # 1 => dom'[i] = dom[i]
           /\ \A i \in DOMAIN dom : dom[i].page = 1 =>
                 /\ dom'[i].page = 1 /\ dom'[i].service = dom[i].service
                 /\ dom'[i].lp = dom[i].lp /\ dom'[i].versions = dom[i].versions
                 /\ \/ dom'[i] = dom[i]
                    \/ \E session \in {None, [id |-> r.id, service |-> r.service, lp |-> r.lp]} :
                          /\ dom'[i].sessionId = IF First = "bmw" THEN dom[i].sessionId ELSE session
                          /\ dom'[i].getMessageUrl = session
                          /\ session = None => r.service # "daimler"
<1> DEFINE opened == [id |-> r.id, service |-> r.service, lp |-> r.lp]
<1>1. /\ inits' = inits \ {r} /\ UNCHANGED <<masks, moving, visit, gets, decodes, sent>>
      /\ stray' = (stray \/ r.visit # visit)
  BY DEF SessionOpened, SessionFails
<1>2. opened \in Sessions
  BY DEF RequestsTyped, Sessions
<1>3. CASE SessionOpened(r)
  <2>1. Write(opened, TRUE)
    BY <1>3 DEF SessionOpened
  <2>2. opened # None
    BY <1>2, NoneAssumption
  <2> HIDE DEF opened
  <2>3. QED
    BY <1>1, <1>2, <2>1, <2>2, WriteKeepsShape DEF opened
<1>4. CASE SessionFails(r) /\ r.service = "daimler"
  BY <1>1, <1>4 DEF SessionFails
<1>5. CASE SessionFails(r) /\ r.service # "daimler"
  <2>1. Write(None, TRUE)
    BY <1>5 DEF SessionFails
  <2>2. QED
    BY <1>1, <1>5, <2>1, WriteKeepsShape
<1>6. QED
  BY <1>3, <1>4, <1>5

LEMMA RequestsTypedStep ==
    ASSUME IInv, [Next]_vars
    PROVE  RequestsTyped'
<1> USE DEF IInv
<1>1. ASSUME NEW s \in Services, OpenService(s)
      PROVE  RequestsTyped'
  <2>1. /\ visit' = visit + 1 /\ stray' = FALSE
        /\ inits' = inits /\ gets' = gets /\ decodes' = decodes /\ sent' = sent
    BY <1>1 DEF OpenService, posts
  <2>2. visit' \in Nat /\ \A n \in Nat : n <= visit => n <= visit'
    BY <2>1 DEF RequestsTyped
  <2>3. QED
    BY <2>1, <2>2 DEF RequestsTyped
<1>2. ASSUME NEW s \in Services, initSession(s)
      PROVE  RequestsTyped'
  <2>1. sent.init \in 0..MaxInits /\ sent' \in [init : Nat, get : Nat]
    BY <1>2, BoundsAssumption DEF initSession, RequestsTyped
  <2>2. s # "bmw" /\ 1 \in DOMAIN dom /\ Val("lp") \in Lps
    <3>1. Val("lp") = dom[1].lp /\ dom[1].page = 1 /\ Len(dom) = 1
      BY <1>2, InitSessionEdits DEF AtFirst
    <3>2. 1 \in DOMAIN dom
      BY <3>1, FieldsAreFirst
    <3>3. QED
      BY <1>2, <3>1, <3>2 DEF initSession, UrlIsSession
  <2>3. QED
    BY <1>2, <2>1, <2>2 DEF initSession, RequestsTyped
<1>3. ASSUME NEW s \in Services, getMessage(s)
      PROVE  RequestsTyped'
  BY <1>3, GetAdds DEF RequestsTyped
<1>4. ASSUME NEW r \in inits, SessionOpened(r) \/ SessionFails(r)
      PROVE  RequestsTyped'
  <2>1. stray' \in BOOLEAN
    <3>1. stray' = (stray \/ r.visit # visit)
      BY <1>4, AnswerWrites
    <3>2. QED
      BY <3>1, Zenon
  <2>2. inits' \subseteq inits /\ UNCHANGED <<visit, gets, decodes, sent>>
    BY <1>4, AnswerWrites
  <2>3. QED
    BY <2>1, <2>2 DEF RequestsTyped
<1>5. ASSUME NEW g \in gets, MessageReceived(g)
      PROVE  RequestsTyped'
  BY <1>5 DEF MessageReceived, RequestsTyped
<1>6. CASE Rest
  BY <1>6 DEF Rest, RequestsTyped
<1>7. CASE Loaded \/ LoadFails
  BY <1>7 DEF Loaded, LoadFails, RequestsTyped, posts
<1>8. ASSUME NEW s \in Services, NEW lp \in Lps, ChangeVersion(s, lp)
      PROVE  RequestsTyped'
  BY <1>8 DEF ChangeVersion, RequestsTyped, posts
<1>9. QED
  BY <1>1, <1>2, <1>3, <1>4, <1>5, <1>6, <1>7, <1>8, StepCases

LEMMA OfThisVisitStep ==
    ASSUME IInv, [Next]_vars
    PROVE  OfThisVisit'
<1> USE DEF IInv
<1>1. ASSUME NEW s \in Services, OpenService(s)
      PROVE  OfThisVisit'
  <2>1. DOMAIN dom' = {} /\ inits' = inits /\ gets' = gets
    BY <1>1, OpenFromMenu DEF posts
  <2>2. \A q \in inits' \cup gets' : q.visit # visit'
    BY <1>1, <2>1 DEF OpenService, RequestsTyped
  <2>3. QED
    BY <2>1, <2>2 DEF OfThisVisit
<1>2. ASSUME NEW s \in Services, initSession(s)
      PROVE  OfThisVisit'
  <2>1. moving' = None /\ visit' = visit
    BY <1>2, InitSessionEdits DEF initSession
  <2>2. ~LoadsFirst'
    BY <2>1, NoneAssumption DEF LoadsFirst, Moving
  <2>3. \A i \in DOMAIN dom' : i \in DOMAIN dom /\ dom'[i].service = s /\ dom[i].service = s
    BY <1>2, InitSessionEdits, FieldsAreFirst
  <2>4. \A r \in inits' : r \in inits \/ r.service = s
    BY <1>2 DEF initSession
  <2>5. QED
    BY <2>1, <2>2, <2>3, <2>4 DEF OfThisVisit
<1>3. ASSUME NEW s \in Services, getMessage(s)
      PROVE  OfThisVisit'
  <2>1. ~LoadsFirst'
    BY <1>3, GetAdds, OpenIsLast, NoneAssumption DEF getMessage, LoadsFirst, Moving
  <2>2. QED
    BY <1>3, <2>1, GetAdds DEF OfThisVisit
<1>4. ASSUME NEW r \in inits, SessionOpened(r) \/ SessionFails(r)
      PROVE  OfThisVisit'
  <2>1. \A i \in DOMAIN dom : dom'[i].service = dom[i].service
    BY <1>4, AnswerWrites
  <2>2. DOMAIN dom' = DOMAIN dom /\ inits' \subseteq inits /\ UNCHANGED <<moving, visit, gets>>
    BY <1>4, AnswerWrites
  <2>3. LoadsFirst' = LoadsFirst
    BY <2>2 DEF LoadsFirst, Moving
  <2>4. QED
    BY <2>1, <2>2, <2>3 DEF OfThisVisit
<1>5. ASSUME NEW g \in gets, MessageReceived(g)
      PROVE  OfThisVisit'
  BY <1>5 DEF MessageReceived, OfThisVisit, LoadsFirst, Moving
<1>6. CASE Rest
  BY <1>6 DEF Rest, OfThisVisit
<1>7. CASE Loaded \/ LoadFails
  <2>1. ~LoadsFirst'
    BY <1>7, LoadAdds, NoneAssumption DEF LoadsFirst, Moving
  <2>2. inits' = inits /\ visit' = visit
    BY <1>7, LoadAdds DEF posts
  <2>3. ASSUME NEW r \in inits, r.visit = visit, NEW i \in DOMAIN dom'
        PROVE  dom'[i].service = r.service
    <3>1. CASE i \in DOMAIN dom /\ dom'[i] = dom[i]
      BY <2>3, <3>1 DEF OfThisVisit
    <3>2. CASE dom'[i].service = moving.service /\ 1 \in DOMAIN dom /\ moving.service = First
      BY <2>3, <3>2 DEF OfThisVisit, First
    <3>3. CASE LoadsFirst
      BY <2>3, <3>3 DEF OfThisVisit
    <3>4. ASSUME NEW p \in {0, 1, 2}, dom'[i] = Piece(moving.service, p)
          PROVE  dom'[i].service = moving.service
      BY <3>4 DEF Piece
    <3>5. \/ i \in DOMAIN dom /\ dom'[i] = dom[i]
          \/ /\ dom'[i].service = moving.service
             /\ LoadsFirst \/ (1 \in DOMAIN dom /\ moving.service = First)
      <4>1. \/ i \in DOMAIN dom /\ dom'[i] = dom[i]
            \/ \E p \in {0, 1, 2} : /\ dom'[i] = Piece(moving.service, p)
                                    /\ LoadsFirst \/ (1 \in DOMAIN dom /\ moving.service = First)
        BY <1>7, LoadAdds
      <4>2. QED
        BY <3>4, <4>1
    <3>6. QED
      BY <3>1, <3>2, <3>3, <3>5
  <2>4. QED
    BY <2>1, <2>2, <2>3 DEF OfThisVisit
<1>8. ASSUME NEW s \in Services, NEW lp \in Lps, ChangeVersion(s, lp)
      PROVE  OfThisVisit'
  <2>1. \A i \in DOMAIN dom' : i \in DOMAIN dom /\ dom'[i].service = dom[i].service
    BY <1>8, ChangeEdits, FieldsAreFirst
  <2>2. UNCHANGED <<moving, visit, inits, gets>>
    BY <1>8 DEF ChangeVersion, posts
  <2>3. QED
    BY <2>1, <2>2 DEF OfThisVisit, LoadsFirst, Moving
<1>9. QED
  BY <1>1, <1>2, <1>3, <1>4, <1>5, <1>6, <1>7, <1>8, StepCases

LEMMA UrlIsSessionStep ==
    ASSUME IInv, [Next]_vars
    PROVE  UrlIsSession'
<1> USE DEF IInv
<1>1. ASSUME NEW s \in Services, OpenService(s)
      PROVE  UrlIsSession'
  BY <1>1, OpenFromMenu DEF UrlIsSession
<1>2. ASSUME NEW s \in Services, initSession(s)
      PROVE  UrlIsSession'
  <2>1. \A i \in DOMAIN dom' :
           /\ i \in DOMAIN dom /\ dom[i].page = 1 /\ dom'[i].service = dom[i].service
           /\ dom'[i].sessionId = dom[i].sessionId
           /\ dom'[i].getMessageUrl = dom[i].getMessageUrl /\ dom'[i].lp = dom[i].lp
    <3>1. DOMAIN dom' = DOMAIN dom /\ dom[1].page = 1
      BY <1>2, InitSessionEdits
    <3>2. \A i \in DOMAIN dom : i = 1 /\ dom[i].service = First
      BY <1>2, InitSessionEdits, FieldsAreFirst
    <3>3. QED
      BY <1>2, <3>1, <3>2, InitSessionEdits
  <2>2. QED
    BY <2>1 DEF UrlIsSession
<1>3. ASSUME NEW s \in Services, NEW lp \in Lps, ChangeVersion(s, lp)
      PROVE  UrlIsSession'
  <2>1. \A i \in DOMAIN dom' :
           /\ i \in DOMAIN dom /\ dom[i].page = 1 /\ dom'[i].service = dom[i].service
           /\ dom'[i].sessionId = dom[i].sessionId
           /\ dom'[i].getMessageUrl = dom[i].getMessageUrl /\ dom'[i].lp = lp
    <3>1. DOMAIN dom' = DOMAIN dom /\ \A i \in DOMAIN dom : dom[i].service = First
      BY <1>3, ChangeEdits, FieldsAreFirst
    <3>2. QED
      BY <1>3, <3>1, ChangeEdits
  <2>2. QED
    BY <2>1 DEF UrlIsSession
<1>4. ASSUME NEW r \in inits, SessionOpened(r) \/ SessionFails(r)
      PROVE  UrlIsSession'
  <2>1. ASSUME NEW i \in DOMAIN dom', dom'[i].page = 1
        PROVE  /\ dom'[i].lp \in Lps
               /\ IF dom'[i].service = "bmw" THEN dom'[i].sessionId = None
                  ELSE dom'[i].getMessageUrl = dom'[i].sessionId
    <3>1. i \in DOMAIN dom /\ dom[i].page = 1 /\ dom[i].service = First
      BY <1>4, <2>1, AnswerWrites, FieldsAreFirst
    <3>2. dom'[i].lp = dom[i].lp /\ dom'[i].service = First
      BY <1>4, <3>1, AnswerWrites
    <3>3. CASE dom'[i] = dom[i]
      BY <3>1, <3>2, <3>3 DEF UrlIsSession
    <3>4. CASE \E session : /\ dom'[i].sessionId = IF First = "bmw" THEN dom[i].sessionId ELSE session
                            /\ dom'[i].getMessageUrl = session
      BY <3>1, <3>2, <3>4 DEF UrlIsSession
    <3>5. QED
      BY <1>4, <3>1, <3>3, <3>4, AnswerWrites
  <2>2. QED
    BY <2>1 DEF UrlIsSession
<1>5. CASE Loaded \/ LoadFails
  <2>1. ASSUME NEW i \in DOMAIN dom', NEW p \in {0, 1, 2}, dom'[i] = Piece(moving.service, p), p = 1
        PROVE  /\ dom'[i].lp \in Lps
               /\ dom'[i].sessionId = None /\ dom'[i].getMessageUrl = dom'[i].sessionId
    BY <2>1, LpsAssumption DEF Piece
  <2>2. ASSUME NEW p \in {0, 1, 2}
        PROVE  Piece(moving.service, p).page = p
    BY DEF Piece
  <2>3. QED
    BY <1>5, <2>1, <2>2, LoadAdds DEF UrlIsSession
<1>6. CASE Rest
  BY <1>6 DEF Rest, UrlIsSession
<1>7. CASE dom' = dom
  BY <1>7 DEF UrlIsSession
<1>8. QED
  BY <1>1, <1>2, <1>3, <1>4, <1>5, <1>6, <1>7, StepCases DEF getMessage, MessageReceived

(* The parts that speak of the pieces while no answer strayed. *)
Own(c) ==
    /\ c.sessionId # None => c.sessionId.service = c.service
    /\ c.service = "daimler" /\ c.next => c.sessionId # None

Free(c) == /\ c.sessionId = None
           /\ \A r \in inits : r.visit # visit
           /\ \A g \in gets : g.visit = visit => g.sessionId = None

Used(c) == /\ c.sessionId # None => c.sessionId.lp = c.lp
           /\ \A r \in inits : r.visit = visit => r.lp = c.lp
           /\ \A g \in gets : g.visit = visit /\ g.sessionId # None => g.sessionId.lp = c.lp

Tells(c) == (c.versions = "free" => Free(c)) /\ (c.versions = "used" => Used(c))

LEMMA PiecesTell ==
    ASSUME IInv, ~stray, NEW i \in DOMAIN dom, dom[i].page = 1
    PROVE  Own(dom[i]) /\ Tells(dom[i])
  BY DEF IInv, SessionIsOwn, VersionsTell, Own, Tells, Free, Used

LEMMA PiecesStep ==
    ASSUME IInv, [Next]_vars, ~stray', NEW i \in DOMAIN dom', dom'[i].page = 1
    PROVE  Own(dom'[i]) /\ Tells(dom[i])'
<1> USE DEF IInv
<1> DEFINE Goal == Own(dom'[i]) /\ Tells(dom[i])'
<1>1. ASSUME NEW s \in Services, OpenService(s)
      PROVE  Goal
  BY <1>1, OpenFromMenu
<1>2. ASSUME NEW s \in Services, initSession(s)
      PROVE  Goal
  <2>1. /\ i \in DOMAIN dom /\ dom[i].page = 1 /\ s = First /\ dom[i].service = s
        /\ Val("lp") = dom[i].lp /\ dom'[i].service = s
        /\ dom'[i].sessionId = dom[i].sessionId /\ dom'[i].lp = dom[i].lp
        /\ dom'[i].next = IF s = "mib2" THEN dom[i].next ELSE FALSE
        /\ dom'[i].versions = IF dom[i].versions = "free" THEN "used" ELSE dom[i].versions
    <3>1. i \in DOMAIN dom /\ i = 1 /\ dom[1].page = 1
      BY <1>2, InitSessionEdits
    <3>2. dom[i].service = First
      BY <3>1, FieldsAreFirst
    <3>3. QED
      BY <1>2, <3>1, <3>2, InitSessionEdits
  <2>2. UNCHANGED <<visit, stray, gets>>
    BY <1>2 DEF initSession
  <2>3. Own(dom[i]) /\ Tells(dom[i])
    BY <2>1, <2>2, PiecesTell
  <2>4. Own(dom'[i])
    BY <2>1, <2>3 DEF Own
  <2>5. \A r \in inits' : r \in inits \/ r.lp = dom[i].lp
    BY <1>2, <2>1 DEF initSession
  <2>6. dom'[i].versions # "free"
    BY <2>1
  <2>7. dom'[i].versions = "used" => Used(dom[i])'
    BY <2>1, <2>2, <2>3, <2>5 DEF Tells, Free, Used
  <2>8. QED
    BY <2>4, <2>6, <2>7 DEF Tells
<1>3. ASSUME NEW s \in Services, NEW lp \in Lps, ChangeVersion(s, lp)
      PROVE  Goal
  <2>1. /\ i \in DOMAIN dom /\ dom[i].page = 1
        /\ dom'[i].service = dom[i].service
        /\ dom'[i].sessionId = dom[i].sessionId /\ dom'[i].next = dom[i].next
        /\ dom'[i].versions = IF dom[i].versions = "free" THEN "free" ELSE "changed"
    BY <1>3, ChangeEdits, FieldsAreFirst
  <2>2. UNCHANGED <<visit, stray, gets, inits>>
    BY <1>3 DEF ChangeVersion, posts
  <2>3. Own(dom[i]) /\ Tells(dom[i])
    BY <2>1, <2>2, PiecesTell
  <2>4. Own(dom'[i])
    BY <2>1, <2>3 DEF Own
  <2>5. QED
    BY <2>1, <2>2, <2>3, <2>4 DEF Tells, Free
<1>4. ASSUME NEW r \in inits, SessionOpened(r) \/ SessionFails(r)
      PROVE  Goal
  <2>1. /\ i \in DOMAIN dom /\ inits' \subseteq inits /\ UNCHANGED <<visit, gets>>
        /\ ~stray /\ r.visit = visit
    BY <1>4, AnswerWrites
  <2>2. dom[i].page = 1
    BY <1>4, <2>1, AnswerWrites
  <2>3. /\ dom'[i].service = dom[i].service
        /\ dom'[i].lp = dom[i].lp /\ dom'[i].versions = dom[i].versions
    BY <1>4, <2>1, <2>2, AnswerWrites
  <2>4. Own(dom[i]) /\ Tells(dom[i])
    BY <2>1, <2>2, PiecesTell
  <2>5. dom[i].service = r.service /\ r.service # "bmw" /\ First = r.service
    BY <2>1, FieldsAreFirst DEF OfThisVisit, RequestsTyped
  <2>6. dom[i].versions # "free" /\ (dom[i].versions = "used" => r.lp = dom[i].lp)
    BY <2>1, <2>4 DEF Tells, Free, Used
  <2>7. CASE dom'[i] = dom[i]
    BY <2>1, <2>4, <2>7 DEF Tells, Free, Used
  <2>8. ASSUME NEW session \in {None, [id |-> r.id, service |-> r.service, lp |-> r.lp]},
               dom'[i].sessionId = IF First = "bmw" THEN dom[i].sessionId ELSE session,
               session = None => r.service # "daimler"
        PROVE  Goal
    <3>1. dom'[i].sessionId = session
      BY <2>5, <2>8
    <3>2. session # None => session.service = r.service /\ session.lp = r.lp
      OBVIOUS
    <3>3. Own(dom'[i])
      BY <2>3, <2>5, <2>8, <3>1, <3>2 DEF Own
    <3>4. dom'[i].versions = "used" => Used(dom[i])'
      BY <2>1, <2>3, <2>4, <2>6, <3>1, <3>2 DEF Tells, Used
    <3>5. QED
      BY <2>3, <2>6, <3>3, <3>4 DEF Tells
  <2>9. QED
    BY <1>4, <2>1, <2>2, <2>7, <2>8, AnswerWrites
<1>5. CASE Loaded \/ LoadFails
  <2>1. /\ UNCHANGED <<visit, stray, inits, gets>>
        /\ \/ i \in DOMAIN dom /\ dom'[i] = dom[i]
           \/ \E p \in {0, 1, 2} : dom'[i] = Piece(moving.service, p) /\ (p = 1 => LoadsFirst)
    BY <1>5, LoadAdds DEF posts
  <2>2. CASE i \in DOMAIN dom /\ dom'[i] = dom[i]
    BY <2>1, <2>2, PiecesTell DEF Tells, Free, Used
  <2>3. CASE \E p \in {0, 1, 2} : dom'[i] = Piece(moving.service, p) /\ (p = 1 => LoadsFirst)
    <3>1. dom'[i] = Piece(moving.service, 1) /\ LoadsFirst
      <4>1. PICK p \in {0, 1, 2} : dom'[i] = Piece(moving.service, p) /\ (p = 1 => LoadsFirst)
        BY <2>3
      <4>2. p = 1
        BY <4>1 DEF Piece
      <4>3. QED
        BY <4>1, <4>2
    <3>2. /\ dom'[i].sessionId = None /\ dom'[i].versions = "free"
          /\ dom'[i].next => dom'[i].service = "bmw"
      <4>1. /\ dom'[i].sessionId = None /\ dom'[i].versions = "free"
            /\ dom'[i].service = moving.service
        BY <3>1 DEF Piece
      <4>2. dom'[i].next = (1 = 1 /\ moving.service = "bmw")
        BY <3>1 DEF Piece
      <4>3. QED
        BY <4>1, <4>2
    <3>3. \A q \in inits \cup gets : q.visit # visit
      BY <3>1 DEF OfThisVisit
    <3>4. QED
      BY <2>1, <3>2, <3>3 DEF Own, Tells, Free
  <2>4. QED
    BY <2>1, <2>2, <2>3
<1>6. ASSUME NEW s \in Services, getMessage(s)
      PROVE  Goal
  <2>1. /\ UNCHANGED <<dom, visit, stray, inits>> /\ i \in DOMAIN dom /\ dom[i].page = 1
        /\ dom'[i] = dom[i]
    BY <1>6, GetAdds
  <2>2. PICK g : gets' = gets \cup {g} /\ g.sessionId = dom[1].sessionId
    BY <1>6, GetAdds
  <2>3. i = 1
    BY <2>1, FieldsAreFirst
  <2>4. Own(dom[i]) /\ Tells(dom[i])
    BY <2>1, PiecesTell
  <2>5. QED
    BY <2>1, <2>2, <2>3, <2>4 DEF Tells, Free, Used
<1>7. ASSUME NEW g \in gets, MessageReceived(g)
      PROVE  Goal
  <2>1. UNCHANGED <<dom, visit, stray, inits>> /\ gets' \subseteq gets
    BY <1>7 DEF MessageReceived
  <2>2. Own(dom[i]) /\ Tells(dom[i])
    BY <2>1, PiecesTell
  <2>3. QED
    BY <2>1, <2>2 DEF Tells, Free, Used
<1>8. CASE Rest
  <2>1. /\ UNCHANGED <<visit, stray>> /\ inits' \subseteq inits /\ gets' \subseteq gets
        /\ i \in DOMAIN dom /\ dom'[i] = dom[i]
    BY <1>8 DEF Rest
  <2>2. Own(dom[i]) /\ Tells(dom[i])
    BY <2>1, PiecesTell
  <2>3. QED
    BY <2>1, <2>2 DEF Tells, Free, Used
<1>9. QED
  BY <1>1, <1>2, <1>3, <1>4, <1>5, <1>6, <1>7, <1>8, StepCases

(* GET MESSAGE takes the function, the protocol and the session from one   *)
(* page, and the versions are those of that page when its message comes.   *)
GetMatches(g) == /\ g.type = g.by
                 /\ g.url = g.sessionId
                 /\ g.sessionId # None => g.sessionId.service = g.by
DecodeMatches(d) ==
    d.get.sessionId # None /\ d.versions \notin {None, "changed"} => d.lp = d.get.sessionId.lp

LEMMA RequestsMatchStep ==
    ASSUME IInv, [Next]_vars
    PROVE  RequestsMatchSession'
<1> USE DEF IInv
<1> DEFINE Gets(G) == \A g \in G : g.visit = visit' => GetMatches(g)
<1> DEFINE Decodes(D) == \A d \in D : d.onVisit = visit' /\ d.get.visit = visit' => DecodeMatches(d)
<1>1. SUFFICES ASSUME ~stray'
               PROVE  Gets(gets') /\ Decodes(decodes')
  BY DEF RequestsMatchSession, GetMatches, DecodeMatches
<1>2. ASSUME visit' = visit, ~stray
      PROVE  Gets(gets) /\ Decodes(decodes)
  BY <1>2 DEF RequestsMatchSession, GetMatches, DecodeMatches
<1>3. ASSUME visit' = visit + 1, gets' = gets, decodes' = decodes
      PROVE  Gets(gets') /\ Decodes(decodes')
  BY <1>3 DEF RequestsTyped
<1>4. ASSUME visit' = visit, ~stray, gets' \subseteq gets, decodes' \subseteq decodes
      PROVE  Gets(gets') /\ Decodes(decodes')
  BY <1>2, <1>4
<1>5. ASSUME NEW s \in Services, getMessage(s)
      PROVE  Gets(gets') /\ Decodes(decodes')
  <2>1. /\ UNCHANGED <<visit, stray, decodes>>
        /\ 1 \in DOMAIN dom /\ dom[1].page = 1 /\ s = dom[1].service
    BY <1>5, GetAdds
  <2>2. PICK g : gets' = gets \cup {g} /\ g.by = s /\ g.type = s
                 /\ g.sessionId = dom[1].sessionId /\ g.url = g.sessionId
    BY <1>5, GetAdds
  <2>3. Own(dom[1])
    BY <1>1, <2>1, PiecesTell
  <2>4. GetMatches(g)
    BY <2>1, <2>2, <2>3 DEF Own, GetMatches
  <2>5. QED
    BY <1>1, <1>2, <2>1, <2>2, <2>4
<1>6. ASSUME NEW g \in gets, MessageReceived(g)
      PROVE  Gets(gets') /\ Decodes(decodes')
  <2> DEFINE d == [get |-> g, lp |-> Val("lp"), onVisit |-> visit, versions |-> Val("versions")]
  <2>1. UNCHANGED <<visit, stray>> /\ gets' \subseteq gets /\ decodes' = decodes \cup {d}
    BY <1>6 DEF MessageReceived
  <2>2. ASSUME g.visit = visit
        PROVE  DecodeMatches(d)
    <3>1. CASE Fields = 0
      BY <3>1 DEF DecodeMatches, Val
    <3>2. CASE Fields # 0
      <4>1. Fields = 1 /\ 1 \in DOMAIN dom /\ dom[1].page = 1 /\ dom[1] \in Pieces
        BY <3>2, FieldsAreFirst
      <4>2. Tells(dom[1]) /\ dom[1].versions \in {"free", "used", "changed"}
        BY <1>1, <2>1, <4>1, PiecesTell DEF Pieces
      <4>3. Val("lp") = dom[1].lp /\ Val("versions") = dom[1].versions
        BY <4>1 DEF Val
      <4>4. d.get = g /\ d.lp = dom[1].lp /\ d.versions = dom[1].versions
        BY <4>3
      <4> HIDE DEF d
      <4>5. QED
        BY <2>2, <4>2, <4>4 DEF DecodeMatches, Tells, Free, Used
    <3>3. QED
      BY <3>1, <3>2
  <2>3. d.get = g
    OBVIOUS
  <2> HIDE DEF d
  <2>4. QED
    BY <1>1, <1>2, <2>1, <2>2, <2>3
<1>7. ASSUME NEW r \in inits, SessionOpened(r) \/ SessionFails(r)
      PROVE  Gets(gets') /\ Decodes(decodes')
  <2>1. UNCHANGED <<visit, gets, decodes>> /\ ~stray
    BY <1>1, <1>7, AnswerWrites
  <2>2. QED
    BY <1>4, <2>1
<1>8. ASSUME NEW s \in Services, OpenService(s)
      PROVE  Gets(gets') /\ Decodes(decodes')
  BY <1>3, <1>8 DEF OpenService, posts
<1>9. CASE \/ Loaded \/ LoadFails \/ Rest
           \/ \E s \in Services : initSession(s)
           \/ \E s \in Services, lp \in Lps : ChangeVersion(s, lp)
  <2>1. UNCHANGED <<visit, stray>> /\ gets' \subseteq gets /\ decodes' \subseteq decodes
    BY <1>9 DEF Loaded, LoadFails, Rest, initSession, ChangeVersion, posts
  <2>2. QED
    BY <1>1, <1>4, <2>1
<1>10. QED
  BY <1>5, <1>6, <1>7, <1>8, <1>9, StepCases

-----------------------------------------------------------------------------
(* IInv holds in every state: the pieces follow each other as the masks    *)
(* say, and fields and requests carry what their visit has put there.      *)
THEOREM Inductive == Spec => []IInv
<1>1. Init => IInv
  <2> SUFFICES ASSUME Init PROVE IInv
    OBVIOUS
  <2>1. Shape /\ DOMAIN dom = {}
    BY DEF Init, Shape, AtMenu
  <2>2. ~LoadsFirst
    BY NoneAssumption DEF Init, LoadsFirst, Moving
  <2>3. RequestsTyped
    BY DEF Init, RequestsTyped
  <2>4. QED
    BY <2>1, <2>2, <2>3
    DEF Init, IInv, OfThisVisit, UrlIsSession, VersionsTell, SessionIsOwn, RequestsMatchSession
<1>2. IInv /\ [Next]_vars => IInv'
  <2> SUFFICES ASSUME IInv, [Next]_vars PROVE IInv'
    OBVIOUS
  <2>1. SessionIsOwn'
    BY PiecesStep DEF SessionIsOwn, Own
  <2>2. VersionsTell'
    BY PiecesStep DEF VersionsTell, Tells, Free, Used
  <2>3. QED
    BY <2>1, <2>2, ShapeStep, RequestsTypedStep, OfThisVisitStep, UrlIsSessionStep,
       RequestsMatchStep DEF IInv
<1>3. QED
  BY <1>1, <1>2, PTL DEF Spec

(* What a first page shows belongs to its own service, and NEXT STEP of    *)
(* the Daimler page is enabled only by a session: initSession clears the   *)
(* button before it sends, and an answer to a request of this visit finds  *)
(* the page of the service that sent it.                                   *)
THEOREM PagesShowTheirSession == Spec => []SessionIsOwn
<1>1. IInv => SessionIsOwn
  BY DEF IInv
<1>2. QED
  BY <1>1, Inductive, PTL

(* getMessage* sends the url and the session of its own service, and       *)
(* decodeTpeg the location table its session was opened for, whatever the  *)
(* order of the answers, unless one of an earlier visit came.              *)
THEOREM RequestsCarryTheirSession == Spec => []RequestsMatchSession
<1>1. IInv => RequestsMatchSession
  BY DEF IInv
<1>2. QED
  BY <1>1, Inductive, PTL

(* next_click and last_click leave exactly the last piece to click on:     *)
(* what one masks, the other unmasks.                                      *)
THEOREM UserIsNeverLockedOut == Spec => []NeverLockedOut
<1>1. IInv => NeverLockedOut
  <2> SUFFICES ASSUME IInv, moving = None, \A i \in DOMAIN dom : dom[i].page # 0
               PROVE  Surfaces \ masks = {IF dom = <<>> THEN Menu
                         ELSE <<dom[Len(dom)].service, dom[Len(dom)].page>>}
    BY DEF NeverLockedOut
  <2> USE DEF IInv
  <2>1. AtMenu \/ AtFirst \/ AtSecond
    BY NoneAssumption DEF Shape, ToFirst, ToSecond, Moving
  <2>2. CASE AtMenu
    <3>1. dom = <<>> /\ DOMAIN dom = {}
      BY <2>2, FieldsAreFirst DEF AtMenu, Shape
    <3>2. Surfaces = {Menu}
      BY <3>1 DEF Surfaces
    <3>3. QED
      BY <2>2, <3>1, <3>2 DEF AtMenu
  <2>3. CASE AtFirst
    <3>1. Len(dom) = 1 /\ DOMAIN dom = {1} /\ dom # <<>> /\ dom[1].page = 1 /\ masks = {Menu}
      <4>1. Len(dom) = 1 /\ masks = {Menu} /\ dom[1].page \in {0, 1}
        BY <2>3 DEF AtFirst
      <4>2. DOMAIN dom = {1} /\ dom # <<>>
        BY <4>1, FieldsAreFirst
      <4>3. QED
        BY <4>1, <4>2
    <3>2. Surfaces = {Menu, <<First, 1>>}
      BY <3>1 DEF Surfaces, First
    <3>3. Menu # <<First, 1>>
      BY DEF Menu
    <3>4. QED
      BY <3>1, <3>2, <3>3 DEF First
  <2>4. CASE AtSecond
    <3>1. /\ Len(dom) = 2 /\ DOMAIN dom = {1, 2} /\ dom # <<>> /\ dom[1].page = 1
          /\ dom[2].page = 2 /\ dom[2].service = First /\ masks = Underneath
      BY <2>4, FieldsAreFirst DEF AtSecond
    <3>2. Surfaces = {Menu, <<First, 1>>, <<First, 2>>}
      BY <3>1 DEF Surfaces, First
    <3>3. <<First, 2>> \notin {Menu, <<First, 1>>}
      BY DEF Menu
    <3>4. QED
      BY <3>1, <3>2, <3>3 DEF Underneath
  <2>5. QED
    BY <2>1, <2>2, <2>3, <2>4
<1>2. QED
  BY <1>1, Inductive, PTL
=============================================================================
