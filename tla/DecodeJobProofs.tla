-------------------------- MODULE DecodeJobProofs --------------------------
(***************************************************************************)
(* Proofs about DecodeJob, for every set of requests, threshold and pool   *)
(* size: the latch is exact, so collecting starts only when every message  *)
(* has been through its command, and a stranded request never ends; and    *)
(* DecodeJob implements DecodeService.                                     *)
(***************************************************************************)
EXTENDS DecodeJob, FiniteSetTheorems, SequenceTheorems, TLAPS

-----------------------------------------------------------------------------
(* The inductive invariant.                                                *)

(* Queued commands are distinct, and none has started. *)
QueueIsFresh ==
    /\ \A a \in DOMAIN queue : stage[queue[a]] = "queued"
    /\ \A a, b \in DOMAIN queue : queue[a] = queue[b] => a = b

(* The dispatch loop has not touched the messages it has not reached. *)
AheadIsNew ==
    pc = "dispatch" => \A i \in Positions : i >= cursor => stage[i] = "new"

(* A pooled request leaves its unlocated messages alone. *)
UnlocatedIsNew ==
    pooled => \A i \in Positions : ~Located(i) => stage[i] = "new"

(* A matched message has an outcome that a future can hold. *)
MatchedHasOutcome ==
    \A i \in Positions : stage[i] \in {"matched", "counted", "done"} =>
        outcome[i] \in {"message", "null", "lost"}

(* What the request thread's position says about the latch. *)
PhaseInv ==
    /\ pc = "idle" => msgs = <<>> /\ ~pooled /\ cursor = 1
    /\ pooled /\ pc \in {"gather", "answered"} => latch = 0
    /\ pooled => pc # "failed"

IInv == /\ TypeOK
        /\ QueueIsFresh
        /\ AheadIsNew
        /\ UnlocatedIsNew
        /\ MatchedHasOutcome
        /\ PhaseInv
        /\ LatchCountsOpenWork

-----------------------------------------------------------------------------
(* Facts about one step.                                                   *)

(* A job is a sequence of kinds: what Receive stores is well typed. *)
LEMMA ReceivedJob ==
    ASSUME NEW m \in Jobs
    PROVE  /\ m \in Seq({"located", "unlocated"})
           /\ Len(m) \in Nat
           /\ DOMAIN m = 1..Len(m)
  BY JobsAssumption

(* Counting: an interval from one, and a set that loses one element. *)
LEMMA CountInterval ==
    ASSUME NEW n \in Nat
    PROVE  IsFiniteSet(1..n) /\ Cardinality(1..n) = n
<1>1. 1 \in Int /\ n \in Int
  OBVIOUS
<1>2. /\ IsFiniteSet(1..n)
      /\ Cardinality(1..n) = IF 1 > n THEN 0 ELSE n - 1 + 1
  BY <1>1, FS_Interval
<1>3. QED
  BY <1>2

LEMMA CountOneLess ==
    ASSUME NEW S, IsFiniteSet(S), NEW x \in S
    PROVE  /\ Cardinality(S) \in Nat \ {0}
           /\ Cardinality(S \ {x}) = Cardinality(S) - 1
<1>1. Cardinality(S) \in Nat
  BY FS_CardinalityType
<1>2. Cardinality(S) # 0
  BY FS_EmptySet
<1>3. Cardinality(S \ {x}) = Cardinality(S) - 1
  BY FS_RemoveElement
<1>4. QED
  BY <1>1, <1>2, <1>3

(* The range of every variable is kept by every step. *)
LEMMA TypeStep ==
    ASSUME IInv, [Next]_vars
    PROVE  TypeOK'
<1> USE DEF IInv, TypeOK, Positions, Located
<1>1. CASE Reject
  BY <1>1 DEF Reject
<1>2. ASSUME NEW m \in Jobs, Receive(m)
      PROVE  TypeOK'
  <2>1. /\ queue = <<>> /\ futures = <<>> /\ result = <<>>
    <3>1. msgs = <<>> /\ DOMAIN msgs = {}
      BY <1>2 DEF Receive, PhaseInv
    <3>2. QED
      BY <3>1
  <2>2. QED
    BY <1>2, <2>1, ReceivedJob, ThresholdAssumption DEF Receive
<1>3. CASE Skip
  BY <1>3 DEF Skip
<1>4. CASE Submit
  BY <1>4 DEF Submit
<1>5. ASSUME NEW o \in {"message", "thrown"}, MatchInline(o)
      PROVE  TypeOK'
  <2>1. CASE o = "thrown"
    BY <1>5, <2>1 DEF MatchInline
  <2>2. CASE o = "message"
    <3>1. <<cursor, o>> \in Positions \X {"message", "null"}
      BY <1>5, <2>2 DEF MatchInline
    <3>2. Append(result, <<cursor, o>>) \in Seq(Positions \X {"message", "null"})
      BY <3>1, AppendProperties
    <3>3. /\ pc' = pc /\ msgs' = msgs /\ pooled' = pooled /\ latch' = latch
          /\ queue' = queue /\ futures' = futures /\ cursor' = cursor + 1
          /\ result' = Append(result, <<cursor, o>>)
      BY <1>5, <2>2 DEF MatchInline
    <3>4. /\ stage' = [stage EXCEPT ![cursor] = "done"]
          /\ outcome' = [outcome EXCEPT ![cursor] = "message"]
      BY <1>5, <2>2 DEF MatchInline
    <3>5. result' \in Seq(Positions' \X {"message", "null"})
      BY <3>2, <3>3
    <3>6. /\ stage' \in [Positions' -> {"new", "queued", "running", "matched", "counted", "done"}]
          /\ outcome' \in [Positions' -> {"none", "message", "null", "lost", "thrown"}]
      BY <3>3, <3>4
    <3>7. QED
      BY <3>3, <3>5, <3>6
  <2>3. QED
    BY <2>1, <2>2
<1>6. CASE EndDispatch
  BY <1>6 DEF EndDispatch
<1>7. CASE LatchOpens
  BY <1>7 DEF LatchOpens
<1>8. CASE Gather
  <2>1. futures[cursor] \in Positions
    BY <1>8 DEF Gather
  <2>2. outcome[futures[cursor]] # "lost" =>
          outcome[futures[cursor]] \in {"message", "null"}
    BY <1>8, <2>1 DEF Gather, MatchedHasOutcome
  <2>3. QED
    BY <1>8, <2>1, <2>2 DEF Gather
<1>9. CASE Answer
  BY <1>9 DEF Answer
<1>10. CASE Take
  BY <1>10 DEF Take
<1>11. ASSUME NEW i \in Positions, CommandStep(i)
       PROVE  TypeOK'
  <2>1. ASSUME NEW o \in {"message", "null", "lost"}, Match(i, o)
        PROVE  TypeOK'
    BY <2>1 DEF Match
  <2>2. CASE CountDown(i)
    <3>1. latch' \in Nat
      BY <2>2 DEF CountDown
    <3>2. QED
      BY <2>2, <3>1 DEF CountDown
  <2>3. CASE SetFuture(i)
    BY <2>3 DEF SetFuture
  <2>4. QED
    BY <1>11, <2>1, <2>2, <2>3 DEF CommandStep
<1>12. CASE UNCHANGED vars
  BY <1>12 DEF vars
<1>13. QED
  BY <1>1, <1>2, <1>3, <1>4, <1>5, <1>6, <1>7, <1>8, <1>9, <1>10, <1>11, <1>12
  DEF Next, RequestStep

(* The queue holds distinct commands that have not started: only Submit    *)
(* adds one, for a message the loop had not reached, and a thread that     *)
(* takes one leaves the others queued.                                     *)
LEMMA QueueStep ==
    ASSUME IInv, [Next]_vars
    PROVE  QueueIsFresh'
<1> USE DEF IInv, TypeOK, QueueIsFresh, Positions, Located
<1>1. CASE Reject
  BY <1>1 DEF Reject
<1>2. ASSUME NEW m \in Jobs, Receive(m)
      PROVE  QueueIsFresh'
  <2>1. queue = <<>> /\ queue' = <<>>
    BY <1>2 DEF Receive, PhaseInv
  <2>2. QED
    BY <2>1
<1>3. CASE Skip
  BY <1>3 DEF Skip
<1>4. CASE Submit
  <2>1. \A a \in DOMAIN queue : queue[a] # cursor
    <3>1. stage[cursor] = "new"
      BY <1>4 DEF Submit, AheadIsNew
    <3>2. QED
      BY <3>1
  <2>2. /\ queue' = Append(queue, cursor)
        /\ DOMAIN queue' = 1..(Len(queue) + 1)
        /\ \A a \in DOMAIN queue : queue'[a] = queue[a]
        /\ queue'[Len(queue) + 1] = cursor
    BY <1>4 DEF Submit
  <2>3. \A a \in DOMAIN queue' : stage'[queue'[a]] = "queued"
    BY <1>4, <2>1, <2>2 DEF Submit
  <2>4. \A a, b \in DOMAIN queue' : queue'[a] = queue'[b] => a = b
    BY <2>1, <2>2
  <2>5. QED
    BY <2>3, <2>4
<1>5. ASSUME NEW o \in {"message", "thrown"}, MatchInline(o)
      PROVE  QueueIsFresh'
  <2>1. \A a \in DOMAIN queue : queue[a] # cursor
    BY <1>5 DEF MatchInline, AheadIsNew
  <2>2. QED
    BY <1>5, <2>1 DEF MatchInline
<1>6. CASE EndDispatch
  BY <1>6 DEF EndDispatch
<1>7. CASE LatchOpens
  BY <1>7 DEF LatchOpens
<1>8. CASE Gather
  BY <1>8 DEF Gather
<1>9. CASE Answer
  BY <1>9 DEF Answer
<1>10. CASE Take
  <2>1. /\ queue' = Tail(queue)
        /\ DOMAIN queue = 1..Len(queue)
        /\ DOMAIN queue' = 1..(Len(queue) - 1)
        /\ \A a \in DOMAIN queue' : a + 1 \in DOMAIN queue /\ queue'[a] = queue[a + 1]
        /\ Head(queue) = queue[1] /\ 1 \in DOMAIN queue
    BY <1>10 DEF Take
  <2>2. \A a \in DOMAIN queue' : queue'[a] # Head(queue)
    <3>1. TAKE a \in DOMAIN queue'
    <3>2. a \in 1..(Len(queue) - 1) /\ a + 1 # 1
      BY <2>1
    <3>3. queue[a + 1] # queue[1]
      BY <2>1, <3>2
    <3>4. QED
      BY <2>1, <3>3
  <2>3. \A a \in DOMAIN queue' : stage'[queue'[a]] = "queued"
    BY <1>10, <2>1, <2>2 DEF Take
  <2>4. QED
    BY <2>1, <2>3
<1>11. ASSUME NEW i \in Positions, CommandStep(i)
       PROVE  QueueIsFresh'
  <2>1. \A a \in DOMAIN queue : queue[a] # i
    BY <1>11 DEF CommandStep, Match, CountDown, SetFuture
  <2>2. queue' = queue /\ msgs' = msgs /\ \E s : stage' = [stage EXCEPT ![i] = s]
    BY <1>11 DEF CommandStep, Match, CountDown, SetFuture
  <2>3. QED
    BY <2>1, <2>2
<1>12. CASE UNCHANGED vars
  BY <1>12 DEF vars
<1>13. QED
  BY <1>1, <1>2, <1>3, <1>4, <1>5, <1>6, <1>7, <1>8, <1>9, <1>10, <1>11, <1>12
  DEF Next, RequestStep

(* What the dispatch loop has not reached stays new: the queue holds only  *)
(* started commands, and no thread touches a message outside the queue.    *)
LEMMA AheadStep ==
    ASSUME IInv, [Next]_vars
    PROVE  AheadIsNew'
<1> USE DEF IInv, TypeOK, AheadIsNew, Positions, Located
<1>0. Positions = 1..Len(msgs) /\ Len(msgs) \in Nat
  OBVIOUS
<1>1. ASSUME NEW m \in Jobs, Receive(m)
      PROVE  AheadIsNew'
  BY <1>1 DEF Receive
<1>2. CASE Skip
  BY <1>2 DEF Skip
<1>3. CASE Submit
  <2>1. \A i \in Positions : i >= cursor + 1 => i >= cursor /\ i # cursor
    BY <1>0
  <2>2. /\ pc = "dispatch" /\ cursor' = cursor + 1 /\ msgs' = msgs
        /\ stage' = [stage EXCEPT ![cursor] = "queued"]
    BY <1>3 DEF Submit
  <2>3. QED
    BY <2>1, <2>2
<1>4. ASSUME NEW o \in {"message", "thrown"}, MatchInline(o)
      PROVE  AheadIsNew'
  <2>1. \A i \in Positions : i >= cursor + 1 => i >= cursor /\ i # cursor
    BY <1>0
  <2>2. CASE o = "thrown"
    BY <1>4, <2>2 DEF MatchInline
  <2>3. CASE o = "message"
    <3>1. /\ pc = "dispatch" /\ cursor' = cursor + 1 /\ msgs' = msgs
          /\ stage' = [stage EXCEPT ![cursor] = "done"]
      BY <1>4, <2>3 DEF MatchInline
    <3>2. QED
      BY <2>1, <3>1
  <2>4. QED
    BY <2>2, <2>3
<1>5. CASE Reject \/ EndDispatch \/ LatchOpens \/ Gather \/ Answer
  BY <1>5 DEF Reject, EndDispatch, LatchOpens, Gather, Answer
<1>6. CASE Take
  <2>1. Head(queue) \in Positions /\ stage[Head(queue)] = "queued"
    BY <1>6 DEF Take, QueueIsFresh
  <2>2. QED
    BY <1>6, <2>1 DEF Take
<1>7. ASSUME NEW i \in Positions, CommandStep(i)
      PROVE  AheadIsNew'
  BY <1>7 DEF CommandStep, Match, CountDown, SetFuture
<1>8. CASE UNCHANGED vars
  BY <1>8 DEF vars
<1>9. QED
  BY <1>1, <1>2, <1>3, <1>4, <1>5, <1>6, <1>7, <1>8 DEF Next, RequestStep

(* No command of a pooled request is about an unlocated message. *)
LEMMA UnlocatedStep ==
    ASSUME IInv, [Next]_vars
    PROVE  UnlocatedIsNew'
<1> USE DEF IInv, TypeOK, UnlocatedIsNew, Positions, Located
<1>1. ASSUME NEW m \in Jobs, Receive(m)
      PROVE  UnlocatedIsNew'
  BY <1>1 DEF Receive
<1>2. CASE Submit
  BY <1>2 DEF Submit
<1>3. ASSUME NEW o \in {"message", "thrown"}, MatchInline(o)
      PROVE  UnlocatedIsNew'
  BY <1>3 DEF MatchInline
<1>4. CASE Reject \/ Skip \/ EndDispatch \/ LatchOpens \/ Gather \/ Answer
  BY <1>4 DEF Reject, Skip, EndDispatch, LatchOpens, Gather, Answer
<1>5. CASE Take
  <2>1. Head(queue) \in Positions /\ stage[Head(queue)] = "queued"
    BY <1>5 DEF Take, QueueIsFresh
  <2>2. QED
    BY <1>5, <2>1 DEF Take
<1>6. ASSUME NEW i \in Positions, CommandStep(i)
      PROVE  UnlocatedIsNew'
  BY <1>6 DEF CommandStep, Match, CountDown, SetFuture
<1>7. CASE UNCHANGED vars
  BY <1>7 DEF vars
<1>8. QED
  BY <1>1, <1>2, <1>3, <1>4, <1>5, <1>6, <1>7 DEF Next, RequestStep

(* A command reaches its finally block with an outcome. *)
LEMMA OutcomeStep ==
    ASSUME IInv, [Next]_vars
    PROVE  MatchedHasOutcome'
<1> USE DEF IInv, TypeOK, MatchedHasOutcome, Positions, Located
<1>1. ASSUME NEW m \in Jobs, Receive(m)
      PROVE  MatchedHasOutcome'
  BY <1>1 DEF Receive
<1>2. CASE Submit
  BY <1>2 DEF Submit
<1>3. ASSUME NEW o \in {"message", "thrown"}, MatchInline(o)
      PROVE  MatchedHasOutcome'
  <2>1. stage[cursor] = "new"
    BY <1>3 DEF MatchInline, AheadIsNew
  <2>2. CASE o = "thrown"
    BY <1>3, <2>1, <2>2 DEF MatchInline
  <2>3. CASE o = "message"
    BY <1>3, <2>1, <2>3 DEF MatchInline
  <2>4. QED
    BY <2>2, <2>3
<1>4. CASE Reject \/ Skip \/ EndDispatch \/ LatchOpens \/ Gather \/ Answer
  BY <1>4 DEF Reject, Skip, EndDispatch, LatchOpens, Gather, Answer
<1>5. CASE Take
  BY <1>5 DEF Take
<1>6. ASSUME NEW i \in Positions, CommandStep(i)
      PROVE  MatchedHasOutcome'
  BY <1>6 DEF CommandStep, Match, CountDown, SetFuture
<1>7. CASE UNCHANGED vars
  BY <1>7 DEF vars
<1>8. QED
  BY <1>1, <1>2, <1>3, <1>4, <1>5, <1>6, <1>7 DEF Next, RequestStep

(* The request thread's position: the latch is at zero from the moment the *)
(* poll loop ends, for it only counts down.                                *)
LEMMA PhaseStep ==
    ASSUME IInv, [Next]_vars
    PROVE  PhaseInv'
<1> USE DEF IInv, TypeOK, PhaseInv, Positions, Located
<1>1. ASSUME NEW m \in Jobs, Receive(m)
      PROVE  PhaseInv'
  BY <1>1 DEF Receive
<1>2. ASSUME NEW o \in {"message", "thrown"}, MatchInline(o)
      PROVE  PhaseInv'
  BY <1>2 DEF MatchInline
<1>3. CASE Reject \/ Skip \/ Submit \/ EndDispatch \/ LatchOpens \/ Gather \/ Answer
  BY <1>3 DEF Reject, Skip, Submit, EndDispatch, LatchOpens, Gather, Answer
<1>4. CASE Take
  BY <1>4 DEF Take
<1>5. ASSUME NEW i \in Positions, CommandStep(i)
      PROVE  PhaseInv'
  BY <1>5 DEF CommandStep, Match, CountDown, SetFuture
<1>6. CASE UNCHANGED vars
  BY <1>6 DEF vars
<1>7. QED
  BY <1>1, <1>2, <1>3, <1>4, <1>5, <1>6 DEF Next, RequestStep

(* The latch keeps the count of open work: Receive creates it with one     *)
(* count per message, and the only step that closes a message's work       *)
(* counts it down once.                                                    *)
LEMMA LatchStep ==
    ASSUME IInv, [Next]_vars
    PROVE  LatchCountsOpenWork'
<1> DEFINE Open == {i \in Positions : ~Counted(i)}
<1> USE DEF IInv, TypeOK, Positions, Located, Counted
<1>1. /\ Positions = 1..Len(msgs) /\ Len(msgs) \in Nat
      /\ IsFiniteSet(Open) /\ Cardinality(Open) \in Nat
  <2>1. Positions = 1..Len(msgs) /\ Len(msgs) \in Nat
    OBVIOUS
  <2>2. IsFiniteSet(Positions)
    BY <2>1, FS_Interval
  <2>3. IsFiniteSet(Open) /\ Cardinality(Open) \in Nat
    BY <2>2, FS_Subset, FS_CardinalityType
  <2>4. QED
    BY <2>1, <2>3
<1>2. (latch' = latch /\ pooled' = pooled /\ Open' = Open) => LatchCountsOpenWork'
  BY DEF LatchCountsOpenWork
<1>3. ASSUME NEW m \in Jobs, Receive(m)
      PROVE  LatchCountsOpenWork'
  <2>1. Open' = 1..Len(m) /\ Len(m) \in Nat
    BY <1>3, ReceivedJob DEF Receive
  <2>2. Cardinality(Open') = Len(m)
    <3>1. Cardinality(1..Len(m)) = Len(m)
      BY <2>1, CountInterval
    <3>2. QED
      BY <2>1, <3>1
  <2>3. QED
    BY <1>3, <2>2 DEF Receive, LatchCountsOpenWork
<1>4. CASE Submit
  <2>1. stage[cursor] = "new" /\ cursor \in Positions
    BY <1>4 DEF Submit, AheadIsNew
  <2>2. Open' = Open
    BY <1>4, <2>1 DEF Submit
  <2>3. QED
    BY <1>2, <1>4, <2>2 DEF Submit
<1>5. ASSUME NEW o \in {"message", "thrown"}, MatchInline(o)
      PROVE  LatchCountsOpenWork'
  BY <1>5 DEF MatchInline, LatchCountsOpenWork
<1>6. CASE Reject \/ Skip \/ EndDispatch \/ LatchOpens \/ Gather \/ Answer
  BY <1>2, <1>6 DEF Reject, Skip, EndDispatch, LatchOpens, Gather, Answer
<1>7. CASE Take
  <2>1. Head(queue) \in Positions /\ stage[Head(queue)] = "queued"
    BY <1>7 DEF Take, QueueIsFresh
  <2>2. Open' = Open
    BY <1>7, <2>1 DEF Take
  <2>3. QED
    BY <1>2, <1>7, <2>2 DEF Take
<1>8. ASSUME NEW i \in Positions, CommandStep(i)
      PROVE  LatchCountsOpenWork'
  <2>1. ASSUME NEW o \in {"message", "null", "lost"}, Match(i, o)
        PROVE  LatchCountsOpenWork'
    <3>1. Open' = Open
      BY <2>1 DEF Match
    <3>2. QED
      BY <1>2, <2>1, <3>1 DEF Match
  <2>2. CASE CountDown(i)
    <3>1. i \in Open /\ Open' = Open \ {i}
      BY <2>2 DEF CountDown
    <3>2. /\ Cardinality(Open) \in Nat \ {0}
          /\ Cardinality(Open \ {i}) = Cardinality(Open) - 1
      BY <1>1, <3>1, CountOneLess
    <3>3. Cardinality(Open') = Cardinality(Open) - 1
      BY <3>1, <3>2
    <3>4. /\ pooled' = pooled
          /\ latch' = IF latch > 0 THEN latch - 1 ELSE 0
      BY <2>2 DEF CountDown
    <3>5. QED
      BY <1>1, <3>2, <3>3, <3>4 DEF LatchCountsOpenWork
  <2>3. CASE SetFuture(i)
    <3>1. Open' = Open
      BY <2>3 DEF SetFuture
    <3>2. QED
      BY <1>2, <2>3, <3>1 DEF SetFuture
  <2>4. QED
    BY <1>8, <2>1, <2>2, <2>3 DEF CommandStep
<1>9. CASE UNCHANGED vars
  BY <1>2, <1>9 DEF vars
<1>10. QED
  BY <1>3, <1>4, <1>5, <1>6, <1>7, <1>8, <1>9 DEF Next, RequestStep

-----------------------------------------------------------------------------
(* The theorems.                                                           *)

(* IInv is an invariant of the specification. *)
THEOREM Inductive == Spec => []IInv
<1>1. Init => IInv
  <2> SUFFICES ASSUME Init PROVE IInv
    OBVIOUS
  <2>1. TypeOK
    <3>1. Positions = {}
      BY DEF Init, Positions
    <3>2. /\ stage \in [{} -> {"new", "queued", "running", "matched", "counted", "done"}]
          /\ outcome \in [{} -> {"none", "message", "null", "lost", "thrown"}]
      BY DEF Init
    <3>3. /\ msgs \in Seq({"located", "unlocated"})
          /\ queue \in Seq({}) /\ futures \in Seq({})
          /\ result \in Seq({} \X {"message", "null"})
      BY EmptySeq DEF Init
    <3>4. /\ pc \in {"idle", "dispatch", "wait", "gather", "answered", "failed"}
          /\ cursor \in Nat \ {0} /\ latch \in Nat
      BY SMT DEF Init
    <3>5. pooled \in BOOLEAN
      BY Zenon DEF Init
    <3>6. QED
      BY <3>1, <3>2, <3>3, <3>4, <3>5 DEF TypeOK
  <2>2. QueueIsFresh /\ AheadIsNew /\ UnlocatedIsNew /\ MatchedHasOutcome
        /\ PhaseInv /\ LatchCountsOpenWork
    BY DEF Init, QueueIsFresh, AheadIsNew, UnlocatedIsNew, MatchedHasOutcome,
           PhaseInv, LatchCountsOpenWork, Positions
  <2>3. QED
    BY <2>1, <2>2 DEF IInv
<1>2. IInv /\ [Next]_vars => IInv'
  BY TypeStep, QueueStep, AheadStep, UnlocatedStep, OutcomeStep, PhaseStep, LatchStep
  DEF IInv
<1>3. QED
  BY <1>1, <1>2, PTL DEF Spec

(* Type correctness. *)
THEOREM TypeCorrect == Spec => []TypeOK
  BY Inductive, PTL DEF IInv

(* The latch of a pooled request always equals the number of its messages  *)
(* whose command has not run its finally block.                            *)
THEOREM LatchIsExact == Spec => []LatchCountsOpenWork
  BY Inductive, PTL DEF IInv

(* A pooled request collects its futures only when every message of the    *)
(* request has been through a command.                                     *)
THEOREM CollectsFinished == Spec => []CollectsOnlyFinishedWork
<1>1. IInv => CollectsOnlyFinishedWork
  <2> SUFFICES ASSUME IInv, pooled, pc \in {"gather", "answered"}
               PROVE  \A i \in Positions : Located(i) /\ Counted(i)
    BY DEF CollectsOnlyFinishedWork
  <2> DEFINE Open == {i \in Positions : ~Counted(i)}
  <2>1. Cardinality(Open) = 0
    BY DEF IInv, PhaseInv, LatchCountsOpenWork
  <2>2. IsFiniteSet(Open)
    <3>1. Positions = 1..Len(msgs) /\ Len(msgs) \in Nat
      BY DEF IInv, TypeOK, Positions
    <3>2. IsFiniteSet(Positions)
      BY <3>1, FS_Interval
    <3>3. QED
      BY <3>2, FS_Subset
  <2>3. Open = {}
    BY <2>1, <2>2, FS_EmptySet
  <2>4. \A i \in Positions : Counted(i)
    BY <2>3
  <2>5. \A i \in Positions : Located(i)
    BY <2>4 DEF IInv, UnlocatedIsNew, Counted
  <2>6. QED
    BY <2>4, <2>5
<1>2. QED
  BY <1>1, Inductive, PTL

(* A pooled request that holds an unlocated message is never answered and  *)
(* never fails.                                                            *)
THEOREM StrandedForever == Spec => []StrandedNeverEnds
<1>1. IInv /\ CollectsOnlyFinishedWork => StrandedNeverEnds
  BY DEF StrandedNeverEnds, Stranded, CollectsOnlyFinishedWork, IInv, PhaseInv,
         TypeOK, Positions
<1>2. QED
  BY <1>1, Inductive, CollectsFinished, PTL

-----------------------------------------------------------------------------
(* The request thread waits only for work that somebody has in hand.       *)

(* Nobody waits for nobody: while the request thread sleeps on the latch,  *)
(* or is blocked in Future.get, some command is still queued or in a pool  *)
(* thread's hands, unless the request is stranded.                         *)
Blocked == \/ pc = "wait" /\ latch > 0
           \/ pc = "gather" /\ cursor \in DOMAIN futures /\ stage[futures[cursor]] # "done"

WaitsForWork == Blocked /\ ~Stranded => queue # <<>> \/ Busy # {}

(* A queued command is in the queue, a located message that the dispatch   *)
(* loop of a pooled request has passed is with the pool, and only a pooled *)
(* request comes to wait.                                                  *)
QueuedIsInQueue ==
    \A i \in Positions : stage[i] = "queued" => \E a \in DOMAIN queue : queue[a] = i

PassedIsSubmitted ==
    pooled => \A i \in Positions :
        Located(i) /\ (pc = "dispatch" => i < cursor) => stage[i] # "new"

WorkInv == /\ QueuedIsInQueue
           /\ PassedIsSubmitted
           /\ pc \in {"wait", "gather"} => pooled

LEMMA WorkStep ==
    ASSUME IInv, WorkInv, [Next]_vars
    PROVE  WorkInv'
<1> USE DEF IInv, TypeOK, Positions, Located
<1>1. CASE Reject
  BY <1>1 DEF Reject, WorkInv, QueuedIsInQueue, PassedIsSubmitted, PhaseInv
<1>2. ASSUME NEW m \in Jobs, Receive(m)
      PROVE  WorkInv'
  <2>1. DOMAIN m = 1..Len(m) /\ Len(m) \in Nat
    BY ReceivedJob
  <2>2. cursor = 1
    BY <1>2 DEF Receive, PhaseInv
  <2>3. /\ msgs' = m /\ cursor' = cursor /\ pc' = "dispatch" /\ stage' = [i \in DOMAIN m |-> "new"]
    BY <1>2 DEF Receive
  <2>4. QED
    BY <2>1, <2>2, <2>3 DEF WorkInv, QueuedIsInQueue, PassedIsSubmitted
<1>3. CASE Skip
  BY <1>3 DEF Skip, WorkInv, QueuedIsInQueue, PassedIsSubmitted
<1>4. CASE Submit
  <2>1. /\ cursor \in Positions /\ pc = "dispatch" /\ pc' = pc /\ pooled' = pooled /\ msgs' = msgs
        /\ stage' = [stage EXCEPT ![cursor] = "queued"] /\ cursor' = cursor + 1
        /\ queue' = Append(queue, cursor)
    BY <1>4 DEF Submit
  <2>2. /\ DOMAIN queue' = DOMAIN queue \cup {Len(queue) + 1}
        /\ queue'[Len(queue) + 1] = cursor
        /\ \A a \in DOMAIN queue : queue'[a] = queue[a]
    BY <2>1
  <2>3. QueuedIsInQueue'
    BY <2>1, <2>2 DEF WorkInv, QueuedIsInQueue
  <2>4. PassedIsSubmitted'
    <3>1. SUFFICES ASSUME pooled, NEW i \in Positions, Located(i), i < cursor + 1
                   PROVE  stage'[i] # "new"
      BY <2>1 DEF PassedIsSubmitted
    <3>2. CASE i = cursor
      BY <2>1, <3>2
    <3>3. CASE i # cursor
      <4>1. i < cursor
        BY <3>1, <3>3
      <4>2. stage[i] # "new"
        BY <3>1, <4>1 DEF WorkInv, PassedIsSubmitted
      <4>3. QED
        BY <2>1, <3>3, <4>2
    <3>4. QED
      BY <3>2, <3>3
  <2>5. QED
    BY <2>1, <2>3, <2>4 DEF WorkInv
<1>5. ASSUME NEW o \in {"message", "thrown"}, MatchInline(o)
      PROVE  WorkInv'
  BY <1>5 DEF MatchInline, WorkInv, QueuedIsInQueue, PassedIsSubmitted
<1>6. CASE EndDispatch
  <2>1. \A i \in Positions : i < cursor
    BY <1>6 DEF EndDispatch
  <2>2. QED
    BY <1>6, <2>1 DEF EndDispatch, WorkInv, QueuedIsInQueue, PassedIsSubmitted
<1>7. CASE LatchOpens \/ Gather \/ Answer
  BY <1>7 DEF LatchOpens, Gather, Answer, WorkInv, QueuedIsInQueue, PassedIsSubmitted
<1>8. CASE Take
  <2>1. /\ queue # <<>> /\ queue' = Tail(queue) /\ Head(queue) \in Positions
        /\ stage' = [stage EXCEPT ![Head(queue)] = "running"]
        /\ UNCHANGED <<pc, msgs, cursor, pooled>>
    BY <1>8 DEF Take
  <2>2. ASSUME NEW i \in Positions, stage'[i] = "queued"
        PROVE  \E a \in DOMAIN queue' : queue'[a] = i
    <3>1. stage[i] = "queued" /\ i # Head(queue)
      BY <2>1, <2>2
    <3>2. PICK a \in DOMAIN queue : queue[a] = i
      BY <3>1 DEF WorkInv, QueuedIsInQueue
    <3>3. a - 1 \in DOMAIN Tail(queue) /\ Tail(queue)[a - 1] = queue[a]
      BY <2>1, <3>1, <3>2
    <3>4. QED
      BY <2>1, <3>2, <3>3
  <2>3. QED
    BY <2>1, <2>2 DEF WorkInv, QueuedIsInQueue, PassedIsSubmitted
<1>9. ASSUME NEW i \in Positions, CommandStep(i)
      PROVE  WorkInv'
  <2>1. PICK s \in {"matched", "counted", "done"} : stage' = [stage EXCEPT ![i] = s]
    BY <1>9 DEF CommandStep, Match, CountDown, SetFuture
  <2>2. UNCHANGED <<pc, msgs, cursor, pooled, queue>>
    BY <1>9 DEF CommandStep, Match, CountDown, SetFuture
  <2>3. QED
    BY <2>1, <2>2 DEF WorkInv, QueuedIsInQueue, PassedIsSubmitted
<1>10. CASE UNCHANGED vars
  BY <1>10 DEF vars, WorkInv, QueuedIsInQueue, PassedIsSubmitted
<1>11. QED
  BY <1>1, <1>2, <1>3, <1>4, <1>5, <1>6, <1>7, <1>8, <1>9, <1>10 DEF Next, RequestStep

(* While the request thread sleeps on the latch or in Future.get, a command *)
(* is queued or a pool thread has one, unless the request is stranded.     *)
THEOREM AlwaysWaitsForWork == Spec => []WaitsForWork
<1>1. Init => WorkInv
  BY DEF Init, WorkInv, QueuedIsInQueue, PassedIsSubmitted, Positions
<1>2. IInv /\ WorkInv /\ CollectsOnlyFinishedWork => WaitsForWork
  <2> SUFFICES ASSUME IInv, WorkInv, CollectsOnlyFinishedWork, Blocked, ~Stranded
               PROVE  queue # <<>> \/ Busy # {}
    BY DEF WaitsForWork
  <2>1. pooled /\ \A i \in Positions : Located(i)
    BY DEF Blocked, WorkInv, Stranded
  <2>2. PICK i \in Positions : stage[i] # "done" /\ stage[i] # "new"
    <3>1. CASE pc = "wait" /\ latch > 0
      <4>1. Cardinality({i \in Positions : ~Counted(i)}) > 0
        BY <2>1, <3>1 DEF IInv, LatchCountsOpenWork
      <4>2. {i \in Positions : ~Counted(i)} # {}
        BY <4>1, FS_EmptySet
      <4>3. QED
        BY <2>1, <3>1, <4>2 DEF Counted, WorkInv, PassedIsSubmitted
    <3>2. CASE pc = "gather" /\ cursor \in DOMAIN futures /\ stage[futures[cursor]] # "done"
      <4>1. futures[cursor] \in Positions
        BY <3>2 DEF IInv, TypeOK
      <4>2. QED
        BY <2>1, <3>2, <4>1 DEF WorkInv, PassedIsSubmitted
    <3>3. QED
      BY <3>1, <3>2 DEF Blocked
  <2>3. CASE stage[i] = "queued"
    BY <2>2, <2>3 DEF WorkInv, QueuedIsInQueue
  <2>4. CASE stage[i] \in {"running", "matched", "counted"}
    BY <2>2, <2>4 DEF Busy
  <2>5. QED
    BY <2>2, <2>3, <2>4 DEF IInv, TypeOK
<1>3. QED
  BY <1>1, <1>2, Inductive, CollectsFinished, WorkStep, PTL DEF Spec

-----------------------------------------------------------------------------
(***************************************************************************)
(* DecodeJob implements DecodeService, for every set of requests, every    *)
(* threshold and pool size.  What has to be carried through a request is   *)
(* the order: futures are listed as the dispatch loop meets the messages,  *)
(* and the result follows the futures, or inline the loop itself, whatever *)
(* order the commands end in.                                              *)
(***************************************************************************)

(* The order.                                                              *)

(* The futures are those of located messages, in the request's order, and  *)
(* while the loop runs they are behind it.                                 *)
FuturesInOrder ==
    /\ pc = "idle" => futures = <<>>
    /\ \A j \in DOMAIN futures : /\ Located(futures[j])
                                 /\ pc = "dispatch" => futures[j] < cursor
    /\ \A j, k \in DOMAIN futures : j < k => futures[j] < futures[k]

(* The result is about located messages, in the request's order.           *)
ResultInOrder ==
    /\ \A k \in DOMAIN result : Located(result[k][1])
    /\ \A j, k \in DOMAIN result : j < k => result[j][1] < result[k][1]

(* Where the loops are, the next entry is behind every one of the result. *)
ResultIsBehind ==
    /\ pc \in {"idle", "wait"} => result = <<>>
    /\ pc = "dispatch" => /\ pooled => result = <<>>
                          /\ \A k \in DOMAIN result : result[k][1] < cursor
    /\ pc = "gather" => \A k \in DOMAIN result :
                            \E j \in DOMAIN futures : j < cursor /\ result[k][1] = futures[j]

OrderInv == FuturesInOrder /\ ResultInOrder /\ ResultIsBehind

(* What appending one entry to a list does. *)
LEMMA AppendOne ==
    ASSUME NEW S, NEW s \in Seq(S), NEW x \in S
    PROVE  /\ DOMAIN Append(s, x) = DOMAIN s \cup {Len(s) + 1}
           /\ DOMAIN s = 1..Len(s) /\ Len(s) \in Nat
           /\ Append(s, x)[Len(s) + 1] = x
           /\ \A k \in DOMAIN s : Append(s, x)[k] = s[k]
  OBVIOUS

(* The futures stay in order: only Submit adds one, for the message the    *)
(* loop is at.                                                             *)
LEMMA FuturesStep ==
    ASSUME IInv, OrderInv, [Next]_vars
    PROVE  FuturesInOrder'
<1> USE DEF IInv, TypeOK, OrderInv, FuturesInOrder, Positions, Located
<1>1. ASSUME NEW m \in Jobs, Receive(m)
      PROVE  FuturesInOrder'
  BY <1>1 DEF Receive
<1>2. CASE Skip
  BY <1>2 DEF Skip
<1>3. CASE Submit
  <2>1. /\ pc = "dispatch" /\ cursor \in Positions /\ Located(cursor)
        /\ futures' = Append(futures, cursor)
        /\ pc' = pc /\ msgs' = msgs /\ cursor' = cursor + 1
    BY <1>3 DEF Submit
  <2>2. /\ DOMAIN futures' = DOMAIN futures \cup {Len(futures) + 1}
        /\ DOMAIN futures = 1..Len(futures) /\ Len(futures) \in Nat
        /\ futures'[Len(futures) + 1] = cursor
        /\ \A k \in DOMAIN futures : futures'[k] = futures[k]
    BY <2>1, AppendOne
  <2>3. \A k \in DOMAIN futures : futures[k] \in Nat /\ futures[k] < cursor
    BY <2>1
  <2>4. QED
    BY <2>1, <2>2, <2>3
<1>4. ASSUME NEW o \in {"message", "thrown"}, MatchInline(o)
      PROVE  FuturesInOrder'
  <2>1. /\ pc = "dispatch" /\ futures' = futures /\ msgs' = msgs
        /\ cursor \in Nat /\ cursor' \in {cursor, cursor + 1}
    BY <1>4 DEF MatchInline
  <2>2. \A j \in DOMAIN futures : futures[j] < cursor'
    <3>1. \A j \in DOMAIN futures : futures[j] \in Nat /\ futures[j] < cursor
      BY <2>1
    <3>2. QED
      BY <2>1, <3>1
  <2>3. pc' # "idle"
    BY <1>4 DEF MatchInline
  <2>4. QED
    BY <2>1, <2>2, <2>3
<1>5. CASE Reject \/ EndDispatch \/ LatchOpens \/ Gather \/ Answer
  BY <1>5 DEF Reject, EndDispatch, LatchOpens, Gather, Answer
<1>6. CASE Take
  BY <1>6 DEF Take
<1>7. ASSUME NEW i \in Positions, CommandStep(i)
      PROVE  FuturesInOrder'
  BY <1>7 DEF CommandStep, Match, CountDown, SetFuture
<1>8. CASE UNCHANGED vars
  BY <1>8 DEF vars
<1>9. QED
  BY <1>1, <1>2, <1>3, <1>4, <1>5, <1>6, <1>7, <1>8 DEF Next, RequestStep

(* The result stays in order and behind the loop that fills it. *)
LEMMA ResultStep ==
    ASSUME IInv, OrderInv, [Next]_vars
    PROVE  ResultInOrder' /\ ResultIsBehind'
<1> USE DEF IInv, TypeOK, OrderInv, ResultInOrder, ResultIsBehind, Positions, Located
<1>1. ASSUME NEW m \in Jobs, Receive(m)
      PROVE  ResultInOrder' /\ ResultIsBehind'
  BY <1>1 DEF Receive
<1>2. CASE Skip
  BY <1>2 DEF Skip
<1>3. CASE Submit
  BY <1>3 DEF Submit
<1>4. ASSUME NEW o \in {"message", "thrown"}, MatchInline(o)
      PROVE  ResultInOrder' /\ ResultIsBehind'
  <2>1. CASE o = "thrown"
    BY <1>4, <2>1 DEF MatchInline
  <2>2. CASE o = "message"
    <3>1. /\ pc = "dispatch" /\ cursor \in Positions /\ Located(cursor) /\ ~pooled
          /\ result' = Append(result, <<cursor, o>>)
          /\ pc' = pc /\ msgs' = msgs /\ cursor' = cursor + 1 /\ pooled' = pooled
      BY <1>4, <2>2 DEF MatchInline
    <3>2. <<cursor, o>> \in Positions \X {"message", "null"}
      BY <2>2, <3>1
    <3>3. /\ DOMAIN result' = DOMAIN result \cup {Len(result) + 1}
          /\ DOMAIN result = 1..Len(result) /\ Len(result) \in Nat
          /\ result'[Len(result) + 1] = <<cursor, o>>
          /\ \A k \in DOMAIN result : result'[k] = result[k]
      BY <3>1, <3>2, AppendOne
    <3>4. \A k \in DOMAIN result : result[k][1] \in Nat /\ result[k][1] < cursor
      BY <3>1
    <3>5. QED
      BY <3>1, <3>3, <3>4
  <2>3. QED
    BY <2>1, <2>2
<1>5. CASE Reject \/ EndDispatch \/ LatchOpens \/ Answer
  BY <1>5 DEF Reject, EndDispatch, LatchOpens, Answer
<1>6. CASE Gather
  <2> DEFINE i == futures[cursor]
  <2>1. /\ pc = "gather" /\ cursor \in DOMAIN futures /\ i \in Positions /\ Located(i)
        /\ result' = IF outcome[i] = "lost" THEN result ELSE Append(result, <<i, outcome[i]>>)
        /\ pc' = pc /\ msgs' = msgs /\ cursor' = cursor + 1 /\ futures' = futures
        /\ stage[i] = "done"
    BY <1>6 DEF Gather, FuturesInOrder
  <2>2. \A k \in DOMAIN result : \E j \in DOMAIN futures : j < cursor + 1 /\ result[k][1] = futures[j]
    BY <2>1
  <2>3. CASE outcome[i] = "lost"
    BY <2>1, <2>2, <2>3
  <2>4. CASE outcome[i] # "lost"
    <3>1. <<i, outcome[i]>> \in Positions \X {"message", "null"}
      BY <2>1, <2>4 DEF MatchedHasOutcome
    <3>2. result' = Append(result, <<i, outcome[i]>>)
      BY <2>1, <2>4
    <3>3. /\ DOMAIN result' = DOMAIN result \cup {Len(result) + 1}
          /\ DOMAIN result = 1..Len(result) /\ Len(result) \in Nat
          /\ result'[Len(result) + 1] = <<i, outcome[i]>>
          /\ \A k \in DOMAIN result : result'[k] = result[k]
      BY <3>1, <3>2, AppendOne
    <3>4. \A k \in DOMAIN result : result[k][1] < i
      BY <2>1 DEF FuturesInOrder
    <3>5. ResultInOrder'
      <4>1. \A k \in DOMAIN result' : msgs'[result'[k][1]] = "located"
        BY <2>1, <3>3
      <4>2. \A j, k \in DOMAIN result' : j < k => result'[j][1] < result'[k][1]
        BY <3>3, <3>4
      <4>3. QED
        BY <4>1, <4>2
    <3>6. \A k \in DOMAIN result' : \E j \in DOMAIN futures : j < cursor + 1 /\ result'[k][1] = futures[j]
      BY <2>1, <2>2, <3>3
    <3>7. QED
      BY <2>1, <3>5, <3>6
  <2>5. QED
    BY <2>3, <2>4
<1>7. CASE Take
  BY <1>7 DEF Take
<1>8. ASSUME NEW i \in Positions, CommandStep(i)
      PROVE  ResultInOrder' /\ ResultIsBehind'
  BY <1>8 DEF CommandStep, Match, CountDown, SetFuture
<1>9. CASE UNCHANGED vars
  BY <1>9 DEF vars
<1>10. QED
  BY <1>1, <1>2, <1>3, <1>4, <1>5, <1>6, <1>7, <1>8, <1>9 DEF Next, RequestStep

(* The order is an invariant of the specification. *)
THEOREM OrderIsKept == Spec => []OrderInv
<1>1. Init => OrderInv
  BY DEF Init, OrderInv, FuturesInOrder, ResultInOrder, ResultIsBehind
<1>2. IInv /\ OrderInv /\ [Next]_vars => OrderInv'
  BY FuturesStep, ResultStep DEF OrderInv
<1>3. QED
  BY <1>1, <1>2, Inductive, PTL DEF Spec

-----------------------------------------------------------------------------
(* Nothing is lost: what has been matched is on its way to the answer.     *)

(* A message is matched once, and a request without the pool has no commands. *)
NotYetMatched ==
    \A i \in Positions : stage[i] \in {"new", "queued", "running"} =>
        outcome[i] \in {"none", "thrown"}

InlineHasNoCommands == ~pooled => \A i \in Positions : stage[i] \in {"new", "done"}

(* The located messages that the dispatch loop has passed are in the result, *)
(* or, with the pool, among the futures.                                   *)
Kept(i) == \E k \in DOMAIN result : result[k][1] = i

PassedIsKept ==
    \A i \in Positions : Located(i) =>
        /\ ~pooled /\ pc = "dispatch" /\ i < cursor => Kept(i)
        /\ pooled /\ (pc = "dispatch" => i < cursor) => \E j \in DOMAIN futures : futures[j] = i

(* Only with the pool are there futures to get, and those that have been   *)
(* got are in the result, unless they failed.                              *)
GatheredIsKept ==
    /\ pc \in {"wait", "gather"} => pooled
    /\ pc = "gather" => \A j \in DOMAIN futures :
           j < cursor /\ outcome[futures[j]] # "lost" => Kept(futures[j])

(* An entry of the result has what matching its message gave. *)
ResultIsTrue ==
    \A k \in DOMAIN result : /\ stage[result[k][1]] = "done"
                             /\ result[k][2] = outcome[result[k][1]]

KeptInv == /\ NotYetMatched
           /\ InlineHasNoCommands
           /\ PassedIsKept
           /\ GatheredIsKept
           /\ ResultIsTrue

(* What one step does to the command of one message. *)
LEMMA MatchedOnceStep ==
    ASSUME IInv, KeptInv, [Next]_vars
    PROVE  NotYetMatched' /\ InlineHasNoCommands'
<1> USE DEF IInv, TypeOK, KeptInv, NotYetMatched, InlineHasNoCommands, Positions, Located
<1>1. ASSUME NEW m \in Jobs, Receive(m)
      PROVE  NotYetMatched' /\ InlineHasNoCommands'
  BY <1>1 DEF Receive
<1>2. CASE Submit
  <2>1. stage[cursor] = "new"
    BY <1>2 DEF Submit, AheadIsNew
  <2>2. QED
    BY <1>2, <2>1 DEF Submit
<1>3. ASSUME NEW o \in {"message", "thrown"}, MatchInline(o)
      PROVE  NotYetMatched' /\ InlineHasNoCommands'
  <2>1. CASE o = "thrown"
    BY <1>3, <2>1 DEF MatchInline
  <2>2. CASE o = "message"
    BY <1>3, <2>2 DEF MatchInline
  <2>3. QED
    BY <2>1, <2>2
<1>4. CASE Reject \/ Skip \/ EndDispatch \/ LatchOpens \/ Gather \/ Answer
  BY <1>4 DEF Reject, Skip, EndDispatch, LatchOpens, Gather, Answer
<1>5. CASE Take
  <2>1. Head(queue) \in Positions /\ stage[Head(queue)] = "queued"
    BY <1>5 DEF Take, QueueIsFresh
  <2>2. QED
    BY <1>5, <2>1 DEF Take
<1>6. ASSUME NEW i \in Positions, CommandStep(i)
      PROVE  NotYetMatched' /\ InlineHasNoCommands'
  BY <1>6 DEF CommandStep, Match, CountDown, SetFuture
<1>7. CASE UNCHANGED vars
  BY <1>7 DEF vars
<1>8. QED
  BY <1>1, <1>2, <1>3, <1>4, <1>5, <1>6, <1>7 DEF Next, RequestStep

(* The result agrees with the outcomes: an entry is made of a command that *)
(* is done, and no step changes the outcome of one.                        *)
LEMMA ResultTrueStep ==
    ASSUME IInv, OrderInv, KeptInv, [Next]_vars
    PROVE  ResultIsTrue'
<1> USE DEF IInv, TypeOK, KeptInv, ResultIsTrue, Positions, Located
<1>0. \A k \in DOMAIN result : result[k][1] \in Positions
  OBVIOUS
<1>1. ASSUME NEW m \in Jobs, Receive(m)
      PROVE  ResultIsTrue'
  <2>1. result' = <<>>
    BY <1>1 DEF Receive, OrderInv, ResultIsBehind
  <2>2. QED
    BY <2>1
<1>2. CASE Submit
  <2>1. stage[cursor] = "new"
    BY <1>2 DEF Submit, AheadIsNew
  <2>2. QED
    BY <1>0, <1>2, <2>1 DEF Submit
<1>3. ASSUME NEW o \in {"message", "thrown"}, MatchInline(o)
      PROVE  ResultIsTrue'
  <2>1. stage[cursor] = "new" /\ cursor \in Positions
    BY <1>3 DEF MatchInline, AheadIsNew
  <2>2. \A k \in DOMAIN result : result[k][1] # cursor
    BY <2>1
  <2>3. CASE o = "thrown"
    BY <1>0, <1>3, <2>2, <2>3 DEF MatchInline
  <2>4. CASE o = "message"
    <3>1. /\ result' = Append(result, <<cursor, o>>)
          /\ outcome' = [outcome EXCEPT ![cursor] = o]
          /\ stage' = [stage EXCEPT ![cursor] = "done"]
      BY <1>3, <2>4 DEF MatchInline
    <3>2. <<cursor, o>> \in Positions \X {"message", "null"}
      BY <2>1, <2>4
    <3>3. /\ DOMAIN result' = DOMAIN result \cup {Len(result) + 1}
          /\ result'[Len(result) + 1] = <<cursor, o>>
          /\ \A k \in DOMAIN result : result'[k] = result[k]
      BY <3>1, <3>2, AppendOne
    <3>4. QED
      BY <1>0, <2>1, <2>2, <3>1, <3>3
  <2>5. QED
    BY <2>3, <2>4
<1>4. CASE Reject \/ Skip \/ EndDispatch \/ LatchOpens \/ Answer
  BY <1>4 DEF Reject, Skip, EndDispatch, LatchOpens, Answer
<1>5. CASE Gather
  <2> DEFINE i == futures[cursor]
  <2>1. /\ i \in Positions /\ stage[i] = "done" /\ stage' = stage /\ outcome' = outcome
        /\ result' = IF outcome[i] = "lost" THEN result ELSE Append(result, <<i, outcome[i]>>)
    BY <1>5 DEF Gather
  <2>2. CASE outcome[i] = "lost"
    BY <2>1, <2>2
  <2>3. CASE outcome[i] # "lost"
    <3>1. /\ result' = Append(result, <<i, outcome[i]>>)
          /\ <<i, outcome[i]>> \in Positions \X {"message", "null"}
          /\ result \in Seq(Positions \X {"message", "null"})
      BY <2>1, <2>3 DEF MatchedHasOutcome
    <3> HIDE DEF i
    <3>2. /\ DOMAIN result' = DOMAIN result \cup {Len(result) + 1}
          /\ result'[Len(result) + 1] = <<i, outcome[i]>>
          /\ \A k \in DOMAIN result : result'[k] = result[k]
      BY <3>1, AppendOne
    <3>3. QED
      BY <1>0, <2>1, <3>1, <3>2
  <2>4. QED
    BY <2>2, <2>3
<1>6. CASE Take
  <2>1. Head(queue) \in Positions /\ stage[Head(queue)] = "queued"
    BY <1>6 DEF Take, QueueIsFresh
  <2>2. QED
    BY <1>0, <1>6, <2>1 DEF Take
<1>7. ASSUME NEW i \in Positions, CommandStep(i)
      PROVE  ResultIsTrue'
  BY <1>0, <1>7 DEF CommandStep, Match, CountDown, SetFuture
<1>8. CASE UNCHANGED vars
  BY <1>8 DEF vars
<1>9. QED
  BY <1>1, <1>2, <1>3, <1>4, <1>5, <1>6, <1>7, <1>8 DEF Next, RequestStep

(* A step that leaves the lists alone, or appends to them, keeps what is in *)
(* them.                                                                   *)
LEMMA StillKept ==
    ASSUME \/ result' = result
           \/ \E S : result \in Seq(S) /\ \E x \in S : result' = Append(result, x)
    PROVE  \A i : Kept(i) => Kept(i)'
<1>1. CASE result' = result
  BY <1>1 DEF Kept
<1>2. ASSUME NEW S, result \in Seq(S), NEW x \in S, result' = Append(result, x)
      PROVE  \A i : Kept(i) => Kept(i)'
  <2>1. /\ DOMAIN result' = DOMAIN result \cup {Len(result) + 1}
        /\ \A k \in DOMAIN result : result'[k] = result[k]
    BY <1>2, AppendOne
  <2>2. QED
    BY <2>1 DEF Kept
<1>3. QED
  BY <1>1, <1>2

(* The dispatch loop passes no located message without keeping it. *)
LEMMA PassedStep ==
    ASSUME IInv, OrderInv, KeptInv, [Next]_vars
    PROVE  PassedIsKept'
<1> USE DEF IInv, TypeOK, KeptInv, PassedIsKept, Positions, Located
<1>0. Positions = 1..Len(msgs) /\ Len(msgs) \in Nat
  OBVIOUS
<1>1. ASSUME NEW m \in Jobs, Receive(m)
      PROVE  PassedIsKept'
  <2>1. DOMAIN m = 1..Len(m) /\ Len(m) \in Nat
    BY ReceivedJob
  <2>2. msgs' = m /\ cursor' = 1 /\ pc' = "dispatch"
    BY <1>1 DEF Receive, PhaseInv
  <2>3. QED
    BY <2>1, <2>2
<1>2. CASE Skip
  <2>1. /\ pc = "dispatch" /\ ~Located(cursor) /\ cursor \in Positions /\ cursor' = cursor + 1
        /\ UNCHANGED <<pc, msgs, pooled, futures, result>>
    BY <1>2 DEF Skip
  <2>2. \A i \in Positions : Located(i) /\ i < cursor + 1 => i < cursor
    BY <1>0, <2>1
  <2>3. QED
    BY <2>1, <2>2 DEF Kept
<1>3. CASE Submit
  <2>1. /\ pc = "dispatch" /\ pooled /\ cursor \in Positions /\ cursor' = cursor + 1
        /\ futures' = Append(futures, cursor)
        /\ UNCHANGED <<pc, msgs, pooled, result>>
    BY <1>3 DEF Submit
  <2>2. /\ DOMAIN futures' = DOMAIN futures \cup {Len(futures) + 1}
        /\ futures'[Len(futures) + 1] = cursor
        /\ \A k \in DOMAIN futures : futures'[k] = futures[k]
    BY <2>1, AppendOne
  <2>3. \A i \in Positions : i < cursor + 1 => i < cursor \/ i = cursor
    BY <1>0, <2>1
  <2>4. QED
    BY <2>1, <2>2, <2>3
<1>4. ASSUME NEW o \in {"message", "thrown"}, MatchInline(o)
      PROVE  PassedIsKept'
  <2>1. CASE o = "thrown"
    BY <1>4, <2>1 DEF MatchInline
  <2>2. CASE o = "message"
    <3>1. /\ pc = "dispatch" /\ ~pooled /\ cursor \in Positions /\ cursor' = cursor + 1
          /\ result' = Append(result, <<cursor, o>>)
          /\ <<cursor, o>> \in Positions \X {"message", "null"}
          /\ UNCHANGED <<pc, msgs, pooled>>
      BY <1>4, <2>2 DEF MatchInline
    <3>2. /\ DOMAIN result' = DOMAIN result \cup {Len(result) + 1}
          /\ result'[Len(result) + 1] = <<cursor, o>>
      BY <3>1, AppendOne
    <3>3. \E k \in DOMAIN result' : result'[k][1] = cursor
      BY <3>1, <3>2
    <3>4. \A i : Kept(i) => Kept(i)'
      BY <3>1, StillKept
    <3>5. \A i \in Positions : i < cursor + 1 => i < cursor \/ i = cursor
      BY <1>0, <3>1
    <3>6. ASSUME NEW i \in Positions, Located(i), i < cursor + 1
          PROVE  Kept(i)'
      <4>1. CASE i = cursor
        BY <3>3, <4>1 DEF Kept
      <4>2. CASE i < cursor
        BY <3>1, <3>4, <3>6, <4>2
      <4>3. QED
        BY <3>5, <3>6, <4>1, <4>2
    <3>7. QED
      BY <3>1, <3>6
  <2>3. QED
    BY <2>1, <2>2
<1>5. CASE EndDispatch
  <2>1. /\ cursor \notin Positions /\ pc = "dispatch" /\ pc' # "dispatch"
        /\ UNCHANGED <<msgs, pooled, cursor, futures>>
    BY <1>5 DEF EndDispatch
  <2>2. pooled => \A i \in Positions : i < cursor
    BY <1>0, <2>1
  <2>3. QED
    BY <2>1, <2>2
<1>6. CASE Reject \/ LatchOpens \/ Gather \/ Answer
  BY <1>6 DEF Reject, LatchOpens, Gather, Answer, PhaseInv
<1>7. CASE Take
  BY <1>7 DEF Take, Kept
<1>8. ASSUME NEW i \in Positions, CommandStep(i)
      PROVE  PassedIsKept'
  BY <1>8 DEF CommandStep, Match, CountDown, SetFuture, Kept
<1>9. CASE UNCHANGED vars
  BY <1>9 DEF vars, Kept
<1>10. QED
  BY <1>1, <1>2, <1>3, <1>4, <1>5, <1>6, <1>7, <1>8, <1>9 DEF Next, RequestStep

(* The collecting loop leaves out only what was lost. *)
LEMMA GatheredStep ==
    ASSUME IInv, OrderInv, KeptInv, [Next]_vars
    PROVE  GatheredIsKept'
<1> USE DEF IInv, TypeOK, KeptInv, GatheredIsKept, Positions, Located
<1>0. \A j \in DOMAIN futures : futures[j] \in Positions
  OBVIOUS
<1>1. CASE Reject \/ (\E m \in Jobs : Receive(m)) \/ Skip \/ Submit \/ Answer
  BY <1>1 DEF Reject, Receive, Skip, Submit, Answer
<1>2. ASSUME NEW o \in {"message", "thrown"}, MatchInline(o)
      PROVE  GatheredIsKept'
  BY <1>2 DEF MatchInline
<1>3. CASE EndDispatch
  BY <1>3 DEF EndDispatch
<1>4. CASE LatchOpens
  <2>1. pooled /\ pooled' = pooled /\ cursor' = 1 /\ futures' = futures /\ DOMAIN futures \subseteq Nat \ {0}
    BY <1>4 DEF LatchOpens
  <2>2. QED
    BY <2>1
<1>5. CASE Gather
  <2> DEFINE i == futures[cursor]
  <2>1. /\ pc = "gather" /\ cursor \in DOMAIN futures /\ i \in Positions /\ stage[i] = "done"
        /\ result' = IF outcome[i] = "lost" THEN result ELSE Append(result, <<i, outcome[i]>>)
        /\ cursor' = cursor + 1
        /\ UNCHANGED <<pc, pooled, futures, outcome>>
    BY <1>5 DEF Gather
  <2>2. outcome[i] # "lost" => <<i, outcome[i]>> \in Positions \X {"message", "null"}
    BY <2>1 DEF MatchedHasOutcome
  <2>3. \A l : Kept(l) => Kept(l)'
    BY <2>1, <2>2, StillKept
  <2>4. ASSUME outcome[i] # "lost"
        PROVE  \E k \in DOMAIN result' : result'[k][1] = i
    <3>1. /\ result' = Append(result, <<i, outcome[i]>>)
          /\ <<i, outcome[i]>> \in Positions \X {"message", "null"}
      BY <2>1, <2>2, <2>4
    <3>2. /\ DOMAIN result' = DOMAIN result \cup {Len(result) + 1}
          /\ result'[Len(result) + 1] = <<i, outcome[i]>>
      BY <3>1, AppendOne
    <3>3. QED
      BY <3>2
  <2>5. ASSUME NEW j \in DOMAIN futures, j < cursor + 1, outcome[futures[j]] # "lost"
        PROVE  \E k \in DOMAIN result' : result'[k][1] = futures[j]
    <3>1. CASE j = cursor
      BY <2>4, <2>5, <3>1
    <3>2. CASE j # cursor
      <4>1. j < cursor
        BY <2>5, <3>2
      <4>2. Kept(futures[j])
        BY <2>1, <2>5, <4>1
      <4>3. QED
        BY <2>3, <4>2 DEF Kept
    <3>3. QED
      BY <3>1, <3>2
  <2>6. QED
    BY <2>1, <2>5 DEF Kept
<1>6. CASE Take
  BY <1>6 DEF Take, Kept
<1>7. ASSUME NEW i \in Positions, CommandStep(i)
      PROVE  GatheredIsKept'
  <2>1. UNCHANGED <<pc, pooled, cursor, futures, result>>
    BY <1>7 DEF CommandStep, Match, CountDown, SetFuture
  <2>2. \A l \in Positions : outcome[l] = "lost" => outcome'[l] = "lost"
    BY <1>7 DEF CommandStep, Match, CountDown, SetFuture, NotYetMatched
  <2>3. QED
    BY <1>0, <2>1, <2>2 DEF Kept
<1>8. CASE UNCHANGED vars
  BY <1>8 DEF vars, Kept
<1>9. QED
  BY <1>1, <1>2, <1>3, <1>4, <1>5, <1>6, <1>7, <1>8 DEF Next, RequestStep

(* Nothing that has been matched is lost but by an Error. *)
THEOREM NothingIsDropped == Spec => []KeptInv
<1>1. Init => KeptInv
  BY DEF Init, KeptInv, NotYetMatched, InlineHasNoCommands, PassedIsKept, GatheredIsKept,
         ResultIsTrue, Positions
<1>2. IInv /\ OrderInv /\ KeptInv /\ [Next]_vars => KeptInv'
  BY MatchedOnceStep, ResultTrueStep, PassedStep, GatheredStep DEF KeptInv
<1>3. QED
  BY <1>1, <1>2, Inductive, OrderIsKept, PTL DEF Spec

-----------------------------------------------------------------------------
(* The refinement.                                                         *)

(* When the answer is written, every located message has been matched, and *)
(* is in the result unless an Error lost it.                               *)
LEMMA AllAreThere ==
    ASSUME IInv, OrderInv, KeptInv, CollectsOnlyFinishedWork, (EndDispatch /\ ~pooled) \/ Answer,
           NEW i \in Positions, Located(i)
    PROVE  outcome[i] \in {"message", "null", "lost"} /\ (outcome[i] # "lost" => Kept(i))
<1> USE DEF IInv, TypeOK, KeptInv, Positions
<1>1. CASE EndDispatch /\ ~pooled
  <2>1. pc = "dispatch" /\ i < cursor
    BY <1>1 DEF EndDispatch
  <2>2. Kept(i)
    BY <1>1, <2>1 DEF PassedIsKept
  <2>3. PICK k \in DOMAIN result : result[k][1] = i
    BY <2>2 DEF Kept
  <2>4. result[k] \in Positions \X {"message", "null"}
    OBVIOUS
  <2>5. QED
    BY <2>2, <2>3, <2>4 DEF ResultIsTrue
<1>2. CASE Answer
  <2>1. pc = "gather" /\ pooled /\ cursor \notin DOMAIN futures
    BY <1>2 DEF Answer, GatheredIsKept
  <2>2. Counted(i)
    BY <2>1 DEF CollectsOnlyFinishedWork
  <2>3. PICK j \in DOMAIN futures : futures[j] = i
    BY <2>1 DEF PassedIsKept
  <2>4. j < cursor
    BY <2>1
  <2>5. QED
    BY <2>1, <2>2, <2>3, <2>4 DEF GatheredIsKept, MatchedHasOutcome, Counted
<1>3. QED
  BY <1>1, <1>2

(* A match gives one message what it had not got; an answer is a delivery; *)
(* every other step is a step of the service or changes nothing that the   *)
(* client sees.                                                            *)
LEMMA StepRefines ==
    ASSUME IInv, OrderInv, KeptInv, CollectsOnlyFinishedWork, [Next]_vars
    PROVE  [Service!AbsNext]_(Service!absVars)
<1> USE DEF Service!AbsNext, Service!absVars
<1>0. /\ pc \in {"idle", "dispatch", "wait", "gather", "answered", "failed"}
      /\ outcome \in [Positions -> {"none", "message", "null", "lost", "thrown"}]
  BY DEF IInv, TypeOK
<1>1. CASE Reject
  <2>1. Service!Fail
    BY <1>1 DEF Reject, Service!Fail, Positions
  <2>2. QED
    BY <2>1
<1>2. ASSUME NEW m \in Jobs, Receive(m)
      PROVE  Service!Accept
  BY <1>2 DEF Receive, Service!Accept, Positions
<1>3. ASSUME (EndDispatch /\ ~pooled) \/ Answer
      PROVE  Service!Deliver
  <2>1. /\ pc \in {"dispatch", "gather"} /\ pc' = "answered"
        /\ msgs' = msgs /\ result' = result /\ outcome' = outcome
    BY <1>3 DEF EndDispatch, Answer
  <2>2. \A i \in Service!LocatedIn(msgs) :
            outcome[i] \in {"message", "null", "lost"} /\ (outcome[i] # "lost" => Kept(i))
    BY <1>3, AllAreThere DEF Service!LocatedIn, Located, Positions
  <2>3. Service!Entries = {<<i, outcome[i]>> : i \in {j \in Service!LocatedIn(msgs) : outcome[j] # "lost"}}
    BY <2>2 DEF Service!Entries, Service!LocatedIn, Positions
  <2>4. /\ DOMAIN result = 1..Len(result) /\ Len(result) \in Nat
        /\ \A k \in DOMAIN result : /\ result[k] \in Positions \X {"message", "null"}
                                    /\ result[k][2] = outcome[result[k][1]]
                                    /\ result[k][1] \in Service!LocatedIn(msgs)
    BY DEF IInv, TypeOK, KeptInv, ResultIsTrue, OrderInv, ResultInOrder, Service!LocatedIn,
           Located, Positions
  <2>5. \A k \in DOMAIN result : result[k] \in Service!Entries
    BY <2>3, <2>4
  <2>6. result \in Seq(Service!Entries)
    <3>1. result \in Seq(Positions \X {"message", "null"})
      BY DEF IInv, TypeOK
    <3>2. QED
      BY <2>4, <2>5, <3>1
  <2>7. ASSUME NEW e \in Service!Entries
        PROVE  \E k \in DOMAIN result : result[k] = e
    <3>1. PICK i \in Service!LocatedIn(msgs) : outcome[i] # "lost" /\ e = <<i, outcome[i]>>
      BY <2>3
    <3>2. PICK k \in DOMAIN result : result[k][1] = i
      BY <2>2, <3>1 DEF Kept
    <3>3. QED
      BY <2>4, <3>1, <3>2
  <2>8. \A j, k \in DOMAIN result : j < k => result[j][1] < result[k][1]
    BY DEF OrderInv, ResultInOrder
  <2>9. \A i \in Service!LocatedIn(msgs) :
            (IF outcome[i] = "thrown" THEN "none" ELSE outcome[i]) # "none" /\ i \in Positions
    BY <2>2 DEF Service!LocatedIn, Positions
  <2>10. QED
    BY <2>1, <2>6, <2>7, <2>8, <2>9 DEF Service!Deliver, Positions
<1>4. ASSUME NEW o \in {"message", "thrown"}, MatchInline(o)
      PROVE  [Service!AbsNext]_(Service!absVars)
  <2>1. /\ pc = "dispatch" /\ cursor \in Positions /\ Located(cursor) /\ msgs' = msgs
        /\ outcome' = [outcome EXCEPT ![cursor] = o]
        /\ outcome[cursor] \in {"none", "thrown"}
    BY <1>4 DEF MatchInline, IInv, AheadIsNew, TypeOK, KeptInv, NotYetMatched
  <2>2. CASE o = "thrown"
    <3>1. Service!Fail
      BY <1>0, <1>4, <2>1, <2>2 DEF MatchInline, Service!Fail, Positions
    <3>2. QED
      BY <3>1
  <2>3. CASE o = "message"
    <3>1. Service!Give(cursor, o)
      BY <1>0, <1>4, <2>1, <2>3 DEF MatchInline, Service!Give, Service!LocatedIn, Located, Positions
    <3>2. QED
      BY <2>1, <2>3, <3>1 DEF Positions
  <2>4. QED
    BY <2>2, <2>3
<1>5. CASE Skip \/ Submit \/ (EndDispatch /\ pooled) \/ LatchOpens \/ Gather
  <2>1. UNCHANGED Service!absVars
    BY <1>5 DEF Skip, Submit, EndDispatch, LatchOpens, Gather, Positions
  <2>2. QED
    BY <2>1
<1>6. CASE Take
  <2>1. UNCHANGED <<pc, msgs, result, outcome>>
    BY <1>6 DEF Take
  <2>2. QED
    BY <2>1 DEF Positions
<1>7. ASSUME NEW i \in Positions, CommandStep(i)
      PROVE  [Service!AbsNext]_(Service!absVars)
  <2>1. ASSUME NEW o \in {"message", "null", "lost"}, Match(i, o)
        PROVE  [Service!AbsNext]_(Service!absVars)
    <3>1. /\ stage[i] = "running" /\ UNCHANGED <<pc, msgs, result>>
          /\ outcome' = [outcome EXCEPT ![i] = o]
          /\ outcome[i] \in {"none", "thrown"}
      BY <2>1 DEF Match, KeptInv, NotYetMatched
    <3>2. pooled /\ Located(i)
      BY <3>1 DEF KeptInv, InlineHasNoCommands, IInv, UnlocatedIsNew
    <3>3. pc \in {"dispatch", "wait", "gather"}
      <4>1. pc \notin {"idle", "failed"}
        BY <3>2 DEF IInv, PhaseInv
      <4>2. pc # "answered"
        BY <3>1, <3>2 DEF CollectsOnlyFinishedWork, Counted
      <4>3. QED
        BY <1>0, <4>1, <4>2
    <3>4. Service!Give(i, o)
      BY <1>0, <3>1, <3>2, <3>3 DEF Service!Give, Service!LocatedIn, Located, Positions
    <3>5. QED
      BY <3>4 DEF Positions
  <2>2. CASE CountDown(i) \/ SetFuture(i)
    <3>1. UNCHANGED <<pc, msgs, result, outcome>>
      BY <2>2 DEF CountDown, SetFuture
    <3>2. QED
      BY <3>1 DEF Positions
  <2>3. QED
    BY <1>7, <2>1, <2>2 DEF CommandStep
<1>8. CASE UNCHANGED vars
  BY <1>8 DEF vars, Positions
<1>9. QED
  BY <1>1, <1>2, <1>3, <1>4, <1>5, <1>6, <1>7, <1>8 DEF Next, RequestStep

(* Seen from the client, a request is a DecodeService: answered at most    *)
(* once, with every located message that an Error did not lose, as it was  *)
(* matched and in the request's order, or failed without an answer.        *)
THEOREM RequestImplementsService == Spec => ImplementsService
<1>1. Init => Service!AbsInit
  BY DEF Init, Service!AbsInit, Positions
<1>2. IInv /\ OrderInv /\ KeptInv /\ CollectsOnlyFinishedWork /\ [Next]_vars
        => [Service!AbsNext]_(Service!absVars)
  BY StepRefines
<1>3. QED
  BY <1>1, <1>2, Inductive, OrderIsKept, NothingIsDropped, CollectsFinished, PTL
  DEF Spec, ImplementsService, Service!AbsSpec
=============================================================================
