-------------------------- MODULE SimulateSession --------------------------
(***************************************************************************)
(* The pages that simulate a receiver: INIT SESSION on a first page, then  *)
(* GET MESSAGE on a second one, for each of four services.                 *)
(*                                                                         *)
(* The pages are pieces of html loaded into one document.  next_click      *)
(* masks what it leaves, loads the next piece and appends it; last_click   *)
(* fades a piece out, removes it when it has faded, and unmasks what was   *)
(* under it.  What the pages know (session, url, service, versions) is in  *)
(* fields that every first page has under the same ids, and that a         *)
(* function finds by id, when it runs, in whatever the document holds:     *)
(* nothing ties an answer to the page whose button sent the request.       *)
(*                                                                         *)
(* Answers arrive in any order and at any time.  The remote services are   *)
(* external: they open a session or fail.  A session is named by the       *)
(* request that opened it, and stands for both its id and its url.         *)
(*                                                                         *)
(* The mouse is the only input: a mask keeps it from what is under it, and *)
(* nobody clicks on a page during the 400 ms in which it fades out.        *)
(***************************************************************************)
EXTENDS Naturals, Sequences, FiniteSets, SequencesExt

CONSTANTS Services,     \* a subset of the four services of the menu
          Lps,          \* the values of the location table select
          DefaultLp,    \* the one that is selected in a new page
          MaxVisits, MaxInits, MaxGets,     \* bounds on the user's clicks
          None

ASSUME ServicesAssumption == Services \subseteq {"daimler", "mib2", "renault", "bmw"}
ASSUME LpsAssumption == DefaultLp \in Lps

Sessions == [id : 0..MaxInits, service : Services, lp : Lps]
Moves    == [op : {"load", "fade", "unmask"}, service : Services, page : {1, 2}]

ASSUME BoundsAssumption == MaxVisits \in Nat /\ MaxInits \in Nat /\ MaxGets \in Nat
ASSUME NoneAssumption == None \notin Sessions \cup Moves

VARIABLES
    dom,        \* the pieces in #home_container, in order
    masks,      \* what is masked: the menu, or a service and page
    moving,     \* the load or the fading that is under way, None if there is none
    visit,      \* how often a service was opened from the menu
    stray,      \* an answer to a request of an earlier visit came during this one
    inits,      \* the outstanding INIT SESSION requests
    gets,       \* the outstanding GET MESSAGE requests
    decodes,    \* the outstanding decoding requests
    sent        \* how many INIT SESSION and GET MESSAGE were sent

posts == <<inits, gets, decodes, sent>>
vars  == <<dom, masks, moving, visit, stray, posts>>

Menu == <<"index_menu", 0>>

(* A first page has the fields; versions is how its select was used: not   *)
(* since INIT SESSION, or changed after it.                                *)
Piece(s, p) == [service |-> s, page |-> p,
                sessionId |-> None, getMessageUrl |-> None,
                next |-> p = 1 /\ s = "bmw",
                lp |-> IF p = 1 THEN DefaultLp ELSE None,
                versions |-> "free"]

Init == /\ dom = <<>>
        /\ masks = {}
        /\ moving = None
        /\ visit = 0 /\ stray = FALSE
        /\ inits = {} /\ gets = {} /\ decodes = {}
        /\ sent = [init |-> 0, get |-> 0]

-----------------------------------------------------------------------------
(* The document.                                                           *)

(* $("#id") for the ids of a first page: the first piece that has them.    *)
Fields == SelectInSeq(dom, LAMBDA c : c.page = 1)

(* .val(), undefined if there is no such element. *)
Val(field) == IF Fields = 0 THEN None ELSE dom[Fields][field]
ServiceType == Val("service")

(* .val(v) and .attr("disabled", b), which do nothing if there is none; a   *)
(* bmw page has no sessionId.                                              *)
Filled(c, session, next) ==
    [c EXCEPT !.sessionId = IF c.service = "bmw" THEN c.sessionId ELSE session,
              !.getMessageUrl = session,
              !.next = next]
Write(session, next) ==
    dom' = IF Fields = 0 THEN dom
           ELSE [dom EXCEPT ![Fields] = Filled(dom[Fields], session, next)]

(* What the user sees and can click on: the piece with the buttons, if it  *)
(* is not masked and neither loading nor fading is going on.               *)
Open(s, p) ==
    /\ moving = None
    /\ \E i \in DOMAIN dom : dom[i].service = s /\ dom[i].page = p
    /\ <<s, p>> \notin masks

-----------------------------------------------------------------------------
(* next_click and last_click                                               *)

(* A click in the menu. *)
OpenService(s) ==
    /\ moving = None
    /\ Menu \notin masks
    /\ visit < MaxVisits
    /\ visit' = visit + 1
    /\ stray' = FALSE
    /\ masks' = masks \cup {Menu}
    /\ moving' = [op |-> "load", service |-> s, page |-> 1]
    /\ UNCHANGED <<dom, posts>>

(* NEXT STEP, where it is enabled. *)
NextStep(s) ==
    /\ Open(s, 1)
    /\ \E i \in DOMAIN dom : dom[i].service = s /\ dom[i].page = 1 /\ dom[i].next
    /\ masks' = masks \cup {<<s, 1>>}
    /\ moving' = [op |-> "load", service |-> s, page |-> 2]
    /\ UNCHANGED <<dom, visit, stray, posts>>

Loaded ==
    /\ moving # None /\ moving.op = "load"
    /\ dom' = Append(dom, Piece(moving.service, moving.page))
    /\ moving' = None
    /\ UNCHANGED <<masks, visit, stray, posts>>

(* The load's callback also runs when the load failed: an empty container  *)
(* is appended, without any button.                                        *)
LoadFails ==
    /\ moving # None /\ moving.op = "load"
    /\ dom' = Append(dom, Piece(moving.service, 0))
    /\ moving' = None
    /\ UNCHANGED <<masks, visit, stray, posts>>

(* BACK HOME: the piece fades out. *)
last_click(s, p) ==
    /\ Open(s, p)
    /\ moving' = [op |-> "fade", service |-> s, page |-> p]
    /\ UNCHANGED <<dom, masks, visit, stray, posts>>

(* Mutant: the piece is hidden and stays in the document. *)
Hidden ==
    /\ moving # None /\ moving.op = "fade"
    /\ moving' = [moving EXCEPT !.op = "unmask"]
    /\ UNCHANGED <<dom, masks, visit, stray, posts>>

Removed ==
    /\ moving # None /\ moving.op = "fade"
    /\ \E i \in DOMAIN dom : /\ dom[i].service = moving.service /\ dom[i].page = moving.page
                             /\ dom' = RemoveAt(dom, i)
    /\ moving' = [moving EXCEPT !.op = "unmask"]
    /\ UNCHANGED <<masks, visit, stray, posts>>

(* Mutant: the piece that is left is unmasked, not the one returned to. *)
UnmaskThis ==
    /\ moving # None /\ moving.op = "unmask"
    /\ masks' = masks \ {<<moving.service, moving.page>>}
    /\ moving' = None
    /\ UNCHANGED <<dom, visit, stray, posts>>

(* The scrolling and the fading of the mask take longer than the fading of *)
(* the piece.                                                              *)
Unmask ==
    /\ moving # None /\ moving.op = "unmask"
    /\ masks' = masks \ {IF moving.page = 2 THEN <<moving.service, 1>> ELSE Menu}
    /\ moving' = None
    /\ UNCHANGED <<dom, visit, stray, posts>>

-----------------------------------------------------------------------------
(* initSession, initSession_mib2, initSession_renault; bmw has no session. *)

(* The piece c after the select was used, and after INIT SESSION. *)
Selected(c, lp) ==
    [c EXCEPT !.lp = lp, !.versions = IF c.versions = "free" THEN "free" ELSE "changed"]
Asking(c) ==
    [c EXCEPT !.next = IF c.service = "mib2" THEN c.next ELSE FALSE,
              !.versions = IF c.versions = "free" THEN "used" ELSE c.versions]

ChangeVersion(s, lp) ==
    /\ Open(s, 1) /\ s # "bmw"
    /\ lp # Val("lp")
    /\ dom' = [dom EXCEPT ![Fields] = Selected(dom[Fields], lp)]
    /\ UNCHANGED <<masks, moving, visit, stray, posts>>

initSession(s) ==
    /\ Open(s, 1) /\ s # "bmw"
    /\ sent.init < MaxInits
    /\ sent' = [sent EXCEPT !.init = @ + 1]
    /\ inits' = inits \cup {[id |-> sent.init, service |-> s, lp |-> Val("lp"), visit |-> visit]}
    /\ dom' = [dom EXCEPT ![Fields] = Asking(dom[Fields])]
    /\ UNCHANGED <<masks, moving, visit, stray, gets, decodes>>

(* The service opened a session; its answer is written to the page that is *)
(* there now.                                                              *)
SessionOpened(r) ==
    /\ r \in inits
    /\ inits' = inits \ {r}
    /\ Write([id |-> r.id, service |-> r.service, lp |-> r.lp], TRUE)
    /\ stray' = (stray \/ r.visit # visit)
    /\ UNCHANGED <<masks, moving, visit, gets, decodes, sent>>

(* Mutant: next is enabled before the answer is evaluated. *)
SessionFailsEnabling(r) ==
    /\ r \in inits
    /\ inits' = inits \ {r}
    /\ IF r.service = "daimler" THEN Write(Val("sessionId"), TRUE) ELSE Write(None, TRUE)
    /\ stray' = (stray \/ r.visit # visit)
    /\ UNCHANGED <<masks, moving, visit, gets, decodes, sent>>

(* The service failed.  For Daimler the server answers an empty string,    *)
(* whose evaluation throws; for the others it answers an empty object,     *)
(* which goes the way of a session: empty fields, and next enabled.        *)
SessionFails(r) ==
    /\ r \in inits
    /\ inits' = inits \ {r}
    /\ IF r.service = "daimler" THEN UNCHANGED dom ELSE Write(None, TRUE)
    /\ stray' = (stray \/ r.visit # visit)
    /\ UNCHANGED <<masks, moving, visit, gets, decodes, sent>>

(* The POST to the server itself fails: no callback runs, and what          *)
(* INIT SESSION disabled stays so.                                         *)
PostFails(r) ==
    /\ r \in inits
    /\ inits' = inits \ {r}
    /\ UNCHANGED <<dom, masks, moving, visit, stray, gets, decodes, sent>>

-----------------------------------------------------------------------------
(* getMessageDailmer, getMessageMib2, getMessageRenault, getMessageBmw.    *)

(* by is the function, which belongs to the page; type is what the server  *)
(* chooses the protocol by.                                                *)
getMessage(s) ==
    /\ Open(s, 2)
    /\ sent.get < MaxGets
    /\ sent' = [sent EXCEPT !.get = @ + 1]
    /\ gets' = gets \cup {[id |-> sent.get, by |-> s, type |-> ServiceType,
                           sessionId |-> IF s = "bmw" THEN None ELSE Val("sessionId"),
                           url |-> IF s = "bmw" THEN None ELSE Val("getMessageUrl"),
                           visit |-> visit]}
    /\ UNCHANGED <<dom, masks, moving, visit, stray, inits, decodes>>

(* decodeTpeg reads the versions off the page that is there now. *)
MessageReceived(g) ==
    /\ g \in gets
    /\ gets' = gets \ {g}
    /\ decodes' = decodes \cup {[get |-> g, lp |-> Val("lp"), onVisit |-> visit,
                                 versions |-> Val("versions")]}
    /\ UNCHANGED <<dom, masks, moving, visit, stray, inits, sent>>

(* The service or the POST failed: at most an alert. *)
MessageFails(g) ==
    /\ g \in gets
    /\ gets' = gets \ {g}
    /\ UNCHANGED <<dom, masks, moving, visit, stray, inits, decodes, sent>>

(* The decoded messages are drawn (see ResultTable), or the POST failed.   *)
Decoded(d) ==
    /\ d \in decodes
    /\ decodes' = decodes \ {d}
    /\ UNCHANGED <<dom, masks, moving, visit, stray, inits, gets, sent>>

-----------------------------------------------------------------------------
Click == \E s \in Services :
            \/ OpenService(s) \/ NextStep(s) \/ last_click(s, 1) \/ last_click(s, 2)
            \/ initSession(s) \/ getMessage(s)
            \/ \E lp \in Lps : ChangeVersion(s, lp)

Move == Loaded \/ LoadFails \/ Removed \/ Unmask

Answer == \/ \E r \in inits : SessionOpened(r) \/ SessionFails(r) \/ PostFails(r)
          \/ \E g \in gets : MessageReceived(g) \/ MessageFails(g)
          \/ \E d \in decodes : Decoded(d)

Next == Click \/ Move \/ Answer

Spec == Init /\ [][Next]_vars

-----------------------------------------------------------------------------
(* Properties.                                                             *)

(* As long as no answer to a request of an earlier visit has come, what a  *)
(* first page shows is its own: its session was opened by its own service, *)
(* and where a failed INIT SESSION can be told (Daimler), NEXT STEP is     *)
(* enabled only while there is a session, however many INIT SESSION were   *)
(* sent and in whatever order they succeeded and failed.                   *)
SessionIsOwn ==
    \A i \in DOMAIN dom :
        LET c == dom[i] IN
        c.page = 1 /\ ~stray =>
            /\ c.sessionId # None => c.sessionId.service = c.service
            /\ c.service = "daimler" /\ c.next => c.sessionId # None

(* A message is asked for with the function, the protocol and the session  *)
(* of one and the same service; and it is decoded with the location table  *)
(* its session was opened for, if it comes while the pages it was asked    *)
(* for from are there and the select was left alone since INIT SESSION.    *)
(* Visits in which an answer strayed are excepted.                         *)
RequestsMatchSession ==
    /\ \A g \in gets : g.visit = visit /\ ~stray =>
          /\ g.type = g.by
          /\ g.url = g.sessionId
          /\ g.sessionId # None => g.sessionId.service = g.by
    /\ \A d \in decodes :
          /\ d.onVisit = visit /\ d.get.visit = visit /\ ~stray
          /\ d.get.sessionId # None /\ d.versions \notin {None, "changed"}
          => d.lp = d.get.sessionId.lp

(* The user is never locked out: between two moves exactly one of the menu *)
(* and the pieces can be clicked on, and it is the last one opened, unless *)
(* the load of a piece has failed.                                         *)
Surfaces == {Menu} \cup {<<dom[i].service, dom[i].page>> : i \in DOMAIN dom}
NeverLockedOut ==
    moving = None /\ (\A i \in DOMAIN dom : dom[i].page # 0) =>
        Surfaces \ masks =
            {IF dom = <<>> THEN Menu ELSE <<dom[Len(dom)].service, dom[Len(dom)].page>>}
=============================================================================
