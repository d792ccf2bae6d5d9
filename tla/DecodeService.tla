--------------------------- MODULE DecodeService ---------------------------
(***************************************************************************)
(* What a client of the parse services may rely on, whatever threads work  *)
(* behind them: one request carries a list of messages; it is answered at  *)
(* most once, or fails; an answer has every message with a usable location *)
(* in the order of the request, with what matching gave it, a message or   *)
(* null; only those whose matching was lost to a Java Error are left out.  *)
(***************************************************************************)
EXTENDS Naturals, Sequences

CONSTANT Jobs           \* the message lists a request may carry

VARIABLES phase,        \* "idle", "working", "answered" or "failed"
          asked,        \* the message list of the request
          given,        \* what matching has given each message, "none" so far
          answer        \* the entries of the answer

absVars == <<phase, asked, given, answer>>

LocatedIn(m) == {i \in DOMAIN m : m[i] = "located"}

AbsInit == phase = "idle" /\ asked = <<>> /\ given = <<>> /\ answer = <<>>

Accept == /\ phase = "idle"
          /\ asked' \in Jobs
          /\ given' = [i \in DOMAIN asked' |-> "none"]
          /\ phase' = "working"
          /\ UNCHANGED answer

(* The messages are matched once each, in any order. *)
Give(i, o) == /\ phase = "working"
              /\ i \in LocatedIn(asked) /\ given[i] = "none"
              /\ given' = [given EXCEPT ![i] = o]
              /\ UNCHANGED <<phase, asked, answer>>

Entries == {<<i, given[i]>> : i \in {j \in LocatedIn(asked) : given[j] # "lost"}}

(* All of the entries, in the order of the request. *)
Deliver ==
    /\ phase = "working"
    /\ \A i \in LocatedIn(asked) : given[i] # "none"
    /\ phase' = "answered"
    /\ answer' \in Seq(Entries)
    /\ \A e \in Entries : \E k \in DOMAIN answer' : answer'[k] = e
    /\ \A j, k \in DOMAIN answer' : j < k => answer'[j][1] < answer'[k][1]
    /\ UNCHANGED <<asked, given>>

Fail == /\ phase \in {"idle", "working"}
        /\ phase' = "failed"
        /\ UNCHANGED <<asked, given, answer>>

AbsNext == \/ Accept \/ Deliver \/ Fail
           \/ \E i \in DOMAIN asked, o \in {"message", "null", "lost"} : Give(i, o)

AbsSpec == AbsInit /\ [][AbsNext]_absVars
=============================================================================
