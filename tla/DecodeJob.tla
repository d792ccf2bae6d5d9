----------------------------- MODULE DecodeJob -----------------------------
(***************************************************************************)
(* One parse request inside the server: ParseTPEGNoTMCService.execute and  *)
(* ParseRTICService.execute, which share one design.  The request thread   *)
(* decodes the payload to a list of messages (the TFP messages, then the   *)
(* TEC messages) and matches them to the map, either inline or, above a    *)
(* threshold, on a pool of its own: it sizes a CountDownLatch with the     *)
(* number of messages, submits a Command per message it can dispatch,      *)
(* polls the latch, and then collects the futures.                         *)
(*                                                                         *)
(* Latch, futures, pool and result are locals of execute, so one request   *)
(* is the whole system here.  What requests share (tables, road caches) is *)
(* the subject of RoadCache.                                               *)
(*                                                                         *)
(* A message is "located" when its location reference is one of the two    *)
(* types that todo is called for, "unlocated" when it has none or another  *)
(* one.  Every item of an RTIC request is located.                         *)
(***************************************************************************)
EXTENDS Naturals, Sequences, FiniteSets

CONSTANTS Jobs,         \* the message lists a request may carry
          Threshold,    \* 50 in the code: more messages than this use the pool
          Workers       \* 20 in the code: the pool's threads

ASSUME JobsAssumption      == Jobs \subseteq Seq({"located", "unlocated"})
ASSUME ThresholdAssumption == Threshold \in Nat
ASSUME WorkersAssumption   == Workers \in Nat \ {0}

VARIABLES
    pc,         \* where the request thread is
    msgs,       \* the decoded messages
    cursor,     \* the message the dispatch loop looks at, then the future to get
    pooled,     \* usePool
    latch,      \* the count of the CountDownLatch `end`
    queue,      \* the pool's commands that no thread has taken
    stage,      \* how far the command of each message is
    outcome,    \* what matching each message gave
    futures,    \* the list of futures, as positions in msgs
    result      \* the list the answer is made of

vars == <<pc, msgs, cursor, pooled, latch, queue, stage, outcome, futures, result>>

Positions == DOMAIN msgs
Located(i) == msgs[i] = "located"

(* The pool threads that hold a command, from taking it to setting its future. *)
Busy == {i \in Positions : stage[i] \in {"running", "matched", "counted"}}

-----------------------------------------------------------------------------
Init == /\ pc = "idle"
        /\ msgs = <<>>
        /\ cursor = 1
        /\ pooled = FALSE
        /\ latch = 0
        /\ queue = <<>>
        /\ stage = <<>>
        /\ outcome = <<>>
        /\ futures = <<>>
        /\ result = <<>>

(* Base64 or the TPEG decoder throws, or the RTIC file type has no translator. *)
Reject == /\ pc = "idle"
          /\ pc' = "failed"
          /\ UNCHANGED <<msgs, cursor, pooled, latch, queue, stage, outcome, futures, result>>

(* Mutants of Receive: a latch one short, and a latch of the dispatchable  *)
(* messages only.                                                          *)
ReceiveWithLatch(m, count) ==
    /\ pc = "idle"
    /\ pc' = "dispatch"
    /\ msgs' = m
    /\ pooled' = (Len(m) > Threshold)
    /\ latch' = IF Len(m) > Threshold THEN count ELSE 0
    /\ stage' = [i \in DOMAIN m |-> "new"]
    /\ outcome' = [i \in DOMAIN m |-> "none"]
    /\ UNCHANGED <<cursor, queue, futures, result>>

ReceiveOneShort(m) == ReceiveWithLatch(m, Len(m) - 1)
ReceiveCountingLocated(m) ==
    ReceiveWithLatch(m, Cardinality({i \in DOMAIN m : m[i] = "located"}))

(* The payload is decoded; above the threshold the latch is created with   *)
(* the number of messages, dispatchable or not, and the pool is started.   *)
Receive(m) ==
    /\ pc = "idle"
    /\ pc' = "dispatch"
    /\ msgs' = m
    /\ pooled' = (Len(m) > Threshold)
    /\ latch' = IF Len(m) > Threshold THEN Len(m) ELSE 0
    /\ stage' = [i \in DOMAIN m |-> "new"]
    /\ outcome' = [i \in DOMAIN m |-> "none"]
    /\ UNCHANGED <<cursor, queue, futures, result>>

-----------------------------------------------------------------------------
(* The dispatch loop.                                                      *)

Skip == /\ pc = "dispatch" /\ cursor \in Positions
        /\ ~Located(cursor)
        /\ cursor' = cursor + 1
        /\ UNCHANGED <<pc, msgs, pooled, latch, queue, stage, outcome, futures, result>>

Submit == /\ pc = "dispatch" /\ cursor \in Positions
          /\ Located(cursor) /\ pooled
          /\ queue' = Append(queue, cursor)
          /\ futures' = Append(futures, cursor)
          /\ stage' = [stage EXCEPT ![cursor] = "queued"]
          /\ cursor' = cursor + 1
          /\ UNCHANGED <<pc, msgs, pooled, latch, outcome, result>>

(* Without the pool, what match throws leaves execute: nothing catches it. *)
MatchInline(o) ==
    /\ pc = "dispatch" /\ cursor \in Positions
    /\ Located(cursor) /\ ~pooled
    /\ o \in {"message", "thrown"}
    /\ outcome' = [outcome EXCEPT ![cursor] = o]
    /\ IF o = "thrown"
       THEN pc' = "failed" /\ UNCHANGED <<cursor, stage, result>>
       ELSE /\ result' = Append(result, <<cursor, o>>)
            /\ stage' = [stage EXCEPT ![cursor] = "done"]
            /\ cursor' = cursor + 1
            /\ UNCHANGED pc
    /\ UNCHANGED <<msgs, pooled, latch, queue, futures>>

EndDispatch ==
    /\ pc = "dispatch" /\ cursor \notin Positions
    /\ pc' = IF pooled THEN "wait" ELSE "answered"
    /\ UNCHANGED <<msgs, cursor, pooled, latch, queue, stage, outcome, futures, result>>

-----------------------------------------------------------------------------
(* Polling and collecting.                                                 *)

(* The poll sees the latch at zero; while it is positive the thread sleeps *)
(* and looks again, which changes nothing.                                 *)
LatchOpens == /\ pc = "wait"
              /\ latch = 0
              /\ pc' = "gather"
              /\ cursor' = 1
              /\ UNCHANGED <<msgs, pooled, latch, queue, stage, outcome, futures, result>>

(* Mutant of Gather: the outcome of a lost command is added all the same. *)
GatherLost ==
    /\ pc = "gather" /\ cursor \in DOMAIN futures
    /\ stage[futures[cursor]] = "done"
    /\ result' = Append(result, <<futures[cursor], outcome[futures[cursor]]>>)
    /\ cursor' = cursor + 1
    /\ UNCHANGED <<pc, msgs, pooled, latch, queue, stage, outcome, futures>>

(* Mutant of Gather: a message whose match threw is not added. *)
GatherMessages ==
    /\ pc = "gather" /\ cursor \in DOMAIN futures
    /\ LET i == futures[cursor] IN
       /\ stage[i] = "done"
       /\ result' = IF outcome[i] # "message" THEN result
                                              ELSE Append(result, <<i, outcome[i]>>)
    /\ cursor' = cursor + 1
    /\ UNCHANGED <<pc, msgs, pooled, latch, queue, stage, outcome, futures>>

(* Future.get blocks until the future is set; the ExecutionException of a  *)
(* lost command is printed and its message left out.                       *)
Gather ==
    /\ pc = "gather" /\ cursor \in DOMAIN futures
    /\ LET i == futures[cursor] IN
       /\ stage[i] = "done"
       /\ result' = IF outcome[i] = "lost" THEN result
                                           ELSE Append(result, <<i, outcome[i]>>)
    /\ cursor' = cursor + 1
    /\ UNCHANGED <<pc, msgs, pooled, latch, queue, stage, outcome, futures>>

Answer == /\ pc = "gather" /\ cursor \notin DOMAIN futures
          /\ pc' = "answered"
          /\ UNCHANGED <<msgs, cursor, pooled, latch, queue, stage, outcome, futures, result>>

-----------------------------------------------------------------------------
(* The pool: a free thread takes the oldest command and runs Command.call. *)

Take == /\ queue # <<>>
        /\ Cardinality(Busy) < Workers
        /\ stage' = [stage EXCEPT ![Head(queue)] = "running"]
        /\ queue' = Tail(queue)
        /\ UNCHANGED <<pc, msgs, cursor, pooled, latch, outcome, futures, result>>

(* match returns a message; an Exception becomes null; an Error passes     *)
(* through call and is kept by the future.                                 *)
Match(i, o) ==
    /\ i \in Positions /\ stage[i] = "running"
    /\ o \in {"message", "null", "lost"}
    /\ outcome' = [outcome EXCEPT ![i] = o]
    /\ stage' = [stage EXCEPT ![i] = "matched"]
    /\ UNCHANGED <<pc, msgs, cursor, pooled, latch, queue, futures, result>>

(* Mutants of CountDown: counting in the catch block too, and counting     *)
(* after match instead of in the finally block.                            *)
CountDownTwiceOnException(i) ==
    /\ i \in Positions /\ stage[i] = "matched"
    /\ latch' = IF outcome[i] = "null" /\ latch > 1 THEN latch - 2
                ELSE IF latch > 0 THEN latch - 1 ELSE 0
    /\ stage' = [stage EXCEPT ![i] = "counted"]
    /\ UNCHANGED <<pc, msgs, cursor, pooled, queue, outcome, futures, result>>

CountDownOnReturn(i) ==
    /\ i \in Positions /\ stage[i] = "matched"
    /\ latch' = IF outcome[i] = "message" /\ latch > 0 THEN latch - 1 ELSE latch
    /\ stage' = [stage EXCEPT ![i] = "counted"]
    /\ UNCHANGED <<pc, msgs, cursor, pooled, queue, outcome, futures, result>>

(* The finally block: the latch counts down before call returns. *)
CountDown(i) ==
    /\ i \in Positions /\ stage[i] = "matched"
    /\ latch' = IF latch > 0 THEN latch - 1 ELSE 0
    /\ stage' = [stage EXCEPT ![i] = "counted"]
    /\ UNCHANGED <<pc, msgs, cursor, pooled, queue, outcome, futures, result>>

(* call has returned: its future is set and the thread is free again. *)
SetFuture(i) ==
    /\ i \in Positions /\ stage[i] = "counted"
    /\ stage' = [stage EXCEPT ![i] = "done"]
    /\ UNCHANGED <<pc, msgs, cursor, pooled, latch, queue, outcome, futures, result>>

-----------------------------------------------------------------------------
RequestStep == \/ Skip \/ Submit \/ EndDispatch \/ LatchOpens \/ Gather \/ Answer
               \/ \E o \in {"message", "thrown"} : MatchInline(o)

CommandStep(i) == \/ \E o \in {"message", "null", "lost"} : Match(i, o)
                  \/ CountDown(i)
                  \/ SetFuture(i)

Next == \/ Reject
        \/ \E m \in Jobs : Receive(m)
        \/ RequestStep
        \/ Take
        \/ \E i \in Positions : CommandStep(i)

Spec == Init /\ [][Next]_vars

AllPositions == UNION {DOMAIN m : m \in Jobs}

(* The request thread and every pool thread that holds a command are Java  *)
(* threads that run when they can.                                         *)
FairSpec == /\ Spec
            /\ WF_vars(RequestStep)
            /\ WF_vars(Take)
            /\ \A i \in AllPositions : WF_vars(CommandStep(i))

-----------------------------------------------------------------------------
(* Properties.                                                             *)

(* A pooled request that holds a message it never submits.  The latch was  *)
(* sized with it, so nothing will ever count it down.                      *)
Stranded == pooled /\ \E i \in Positions : ~Located(i)

Counted(i) == stage[i] \in {"counted", "done"}

(* The range of every variable. *)
TypeOK ==
    /\ pc \in {"idle", "dispatch", "wait", "gather", "answered", "failed"}
    /\ msgs \in Seq({"located", "unlocated"})
    /\ cursor \in Nat \ {0}
    /\ pooled \in BOOLEAN
    /\ latch \in Nat
    /\ queue \in Seq(Positions)
    /\ stage \in [Positions -> {"new", "queued", "running", "matched", "counted", "done"}]
    /\ outcome \in [Positions -> {"none", "message", "null", "lost", "thrown"}]
    /\ futures \in Seq(Positions)
    /\ result \in Seq(Positions \X {"message", "null"})

(* The latch is exactly the number of messages whose command has not run   *)
(* its finally block, the ones never submitted included: no command counts *)
(* down twice, and none is forgotten, however match ends.                  *)
LatchCountsOpenWork ==
    pooled => latch = Cardinality({i \in Positions : ~Counted(i)})

(* The request thread leaves the poll loop only after every message of the *)
(* request, not only every submitted one, has been through its command.    *)
CollectsOnlyFinishedWork ==
    pooled /\ pc \in {"gather", "answered"} =>
        \A i \in Positions : Located(i) /\ Counted(i)

(* So one message without a usable location, in a request large enough for *)
(* the pool, means no answer and no error either.                          *)
StrandedNeverEnds == Stranded => pc \in {"dispatch", "wait"}

(* Every other request ends: with an answer, or, inline, with the exception *)
(* of the first message whose match throws.                                *)
EndsUnlessStranded ==
    (pc = "dispatch" /\ ~Stranded) ~> (pc \in {"answered", "failed"})

(* And a stranded one polls for ever with all its work done: it keeps its  *)
(* request thread and its idle pool.                                       *)
StrandedPollsForever ==
    (pc = "dispatch" /\ Stranded) ~>
        [](pc = "wait" /\ queue = <<>> /\ Busy = {})

(* Seen from the client, the request is a DecodeService: the answer has    *)
(* each message that was matched, in the request's order whatever order    *)
(* the commands end in, null for an exception, nothing for an Error; an    *)
(* inline failure never shows a partial answer.                            *)
Service == INSTANCE DecodeService WITH
    phase  <- CASE pc = "idle"                             -> "idle"
                [] pc \in {"dispatch", "wait", "gather"}   -> "working"
                [] OTHER                                   -> pc,
    asked  <- msgs,
    given  <- [i \in Positions |-> IF outcome[i] = "thrown" THEN "none" ELSE outcome[i]],
    answer <- IF pc = "answered" THEN result ELSE <<>>

ImplementsService == Service!AbsSpec
=============================================================================
