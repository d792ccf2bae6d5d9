------------------------- MODULE CreateFromFilesProofs -------------------------
(***************************************************************************)
(* Proofs about CreateFromFiles, for any libraries of files, choices,      *)
(* clicks and clock: what a click posts is what was chosen, and what a URL *)
(* serves is what was posted.                                              *)
(***************************************************************************)
EXTENDS CreateFromFiles, SequenceTheorems, TLAPS

-----------------------------------------------------------------------------
(* The inductive invariant.                                                *)

Nameless == {"timer", "posted"}
Named    == {"named", "deleted", "created", "open", "written", "done"}
Times    == 0..MaxClock

Jobs == [stage : Nameless \union Named \union {"failed"}, files : Seq(AllFiles), chosen : SUBSET AllFiles,
         settled : BOOLEAN, at : Times \union {-1}, into : Nat, got : SUBSET Nat]

Types == /\ library \in Libraries /\ selects \in Nat /\ selection \in SUBSET library
         /\ filestrarray \in Seq(library) /\ mixed \in BOOLEAN
         /\ jobs \in Seq(Jobs) /\ Len(jobs) <= Tries[library] /\ clock \in Times
         /\ disk \in [Times -> Nat] /\ data \in [1..Tries[library] -> SUBSET Nat]

(* The files of the last choice are read or being read, unless reads mixed *)
(* or failed.                                                              *)
PageInv == /\ IsInjective(filestrarray)
           /\ \A read \in reading : read[1] \in library /\ read[2] \in 1..selects
           /\ ~mixed => ToSet(filestrarray) \union {read[1] : read \in reading} = selection

(* What a click on files comes to. *)
Outcome(fs) == LET verdict == FirstFault([i \in DOMAIN fs |-> Verdict[fs[i]]])
               IN IF verdict = "ok" THEN "posted" ELSE verdict

ClickInv == /\ click.files \in Seq(AllFiles)
            /\ click.outcome # "none" => click.outcome = Outcome(click.files)

(* A job is given its name once. *)
NamedInv == \A j \in DOMAIN jobs : /\ jobs[j].stage \in Nameless => jobs[j].at = -1
                                   /\ jobs[j].stage \in Named => jobs[j].at \in Times

(* A file on the disk, and a file that is open, is of a job of that name;  *)
(* and the bytes in it are of jobs of that name.                           *)
DiskInv == /\ \A name \in Times : disk[name] # 0 =>
                  disk[name] \in DOMAIN jobs /\ jobs[disk[name]].at = name
           /\ \A j \in DOMAIN jobs : jobs[j].stage = "open" =>
                  jobs[j].into \in DOMAIN jobs /\ jobs[jobs[j].into].at = jobs[j].at
           /\ \A j \in DOMAIN data : \A k \in data[j] :
                  /\ j \in DOMAIN jobs /\ k \in DOMAIN jobs
                  /\ jobs[j].at \in Times /\ jobs[k].at = jobs[j].at

Lone(j) == \A k \in DOMAIN jobs \ {j} : jobs[k].at # jobs[j].at

(* A job that shares its name with no other has its own file under it from *)
(* its creation on, empty while it is open, and its own bytes from then on.*)
Own(j) == /\ jobs[j].stage \in {"created", "open", "written"} => disk[jobs[j].at] = j
          /\ jobs[j].stage = "open" => jobs[j].into = j /\ data[j] = {}
          /\ jobs[j].stage = "written" => data[j] = {j}
          /\ jobs[j].stage = "done" => jobs[j].got = {j}

OwnInv == \A j \in DOMAIN jobs : Lone(j) => Own(j)

IInv == Types /\ PageInv /\ ClickInv /\ PostedFromSelection /\ NamedInv /\ DiskInv /\ OwnInv

-----------------------------------------------------------------------------
(* What a choice, a read and a click leave.                                *)

LEMMA Libraried ==
    ASSUME Types
    PROVE  /\ library \subseteq AllFiles /\ Tries[library] \in Nat
           /\ MaxClock \in Nat
<1>1. Tries \in [Libraries -> Nat] /\ MaxClock \in Nat
  BY ContentAssumption, Zenon
<1>2. library \in Libraries
  BY DEF Types
<1>3. QED
  BY <1>1, <1>2 DEF AllFiles

(* The texts are kept by name: a file is stored once. *)
LEMMA Stores ==
    ASSUME NEW S, filestrarray \in Seq(S), IsInjective(filestrarray), NEW f \in S
    PROVE  /\ Stored(f) \in Seq(S) /\ IsInjective(Stored(f))
           /\ ToSet(Stored(f)) = ToSet(filestrarray) \union {f}
<1> DEFINE s == filestrarray
           n == Len(filestrarray)
<1>1. n \in Nat /\ DOMAIN s = 1..n /\ \A i \in 1..n : s[i] \in S
  BY LenProperties
<1>2. CASE \E i \in 1..n : s[i] = f
  <2>1. Stored(f) = s
    BY <1>2 DEF Stored, Contains
  <2>2. f \in ToSet(s)
    BY <1>1, <1>2 DEF ToSet
  <2>3. QED
    BY <2>1, <2>2
<1>3. CASE \A i \in 1..n : s[i] # f
  <2> DEFINE t == Append(s, f)
  <2>1. Stored(f) = t
    BY <1>3 DEF Stored, Contains
  <2>2. t \in Seq(S) /\ Len(t) = n + 1 /\ (\A i \in 1..n : t[i] = s[i]) /\ t[n + 1] = f
    BY AppendProperties
  <2> HIDE DEF t
  <2>3. DOMAIN t = 1..n + 1
    BY <2>2, LenProperties
  <2> HIDE DEF n
  <2>4. \A i \in 1..n + 1 : i \in 1..n \/ i = n + 1
    BY <1>1
  <2>5. IsInjective(t)
    <3>1. ASSUME NEW i \in 1..n + 1, NEW k \in 1..n + 1, t[i] = t[k]
          PROVE  i = k
      <4>1. CASE i \in 1..n /\ k \in 1..n
        BY <1>1, <2>2, <3>1, <4>1 DEF IsInjective
      <4>2. CASE i \in 1..n /\ k = n + 1
        BY <1>3, <2>2, <3>1, <4>2
      <4>3. CASE i = n + 1 /\ k \in 1..n
        BY <1>3, <2>2, <3>1, <4>3
      <4>4. CASE i = n + 1 /\ k = n + 1
        BY <4>4
      <4>5. QED
        BY <2>4, <4>1, <4>2, <4>3, <4>4
    <3>2. QED
      BY <2>3, <3>1 DEF IsInjective
  <2>6. ToSet(t) = ToSet(s) \union {f}
    <3>1. ToSet(t) \subseteq ToSet(s) \union {f}
      <4>1. ASSUME NEW i \in 1..n + 1
            PROVE  t[i] \in ToSet(s) \union {f}
        BY <1>1, <2>2, <2>4 DEF ToSet
      <4>2. QED
        BY <2>3, <4>1 DEF ToSet
    <3>2. ToSet(s) \subseteq ToSet(t)
      <4>1. ASSUME NEW i \in 1..n
            PROVE  s[i] \in ToSet(t)
        <5>1. i \in 1..n + 1 /\ t[i] = s[i]
          BY <1>1, <2>2
        <5>2. QED
          BY <2>3, <5>1 DEF ToSet
      <4>2. QED
        BY <1>1, <4>1 DEF ToSet
    <3>3. f \in ToSet(t)
      <4>1. n + 1 \in 1..n + 1
        BY <1>1
      <4>2. QED
        BY <2>2, <2>3, <4>1 DEF ToSet
    <3>4. QED
      BY <3>1, <3>2, <3>3
  <2>7. QED
    BY <2>1, <2>2, <2>5, <2>6
<1>4. QED
  BY <1>2, <1>3

(* Steps of the page leave the requests and their files alone. *)
LEMMA SameJobs ==
    ASSUME IInv, UNCHANGED <<library, click, jobs, clock, disk, data>>
    PROVE  /\ ClickInv' /\ PostedFromSelection' /\ NamedInv' /\ DiskInv' /\ OwnInv'
           /\ selects' \in Nat /\ selection' \in SUBSET library /\ filestrarray' \in Seq(library)
              /\ mixed' \in BOOLEAN => Types'
<1>1. ClickInv'
  BY DEF IInv, ClickInv
<1>2. PostedFromSelection'
  BY DEF IInv, PostedFromSelection
<1>3. NamedInv'
  BY DEF IInv, NamedInv
<1>4. DiskInv'
  BY DEF IInv, DiskInv
<1>5. OwnInv'
  BY DEF IInv, OwnInv, Own, Lone
<1>6. selects' \in Nat /\ selection' \in SUBSET library /\ filestrarray' \in Seq(library)
         /\ mixed' \in BOOLEAN => Types'
  BY DEF IInv, Types
<1>7. QED
  BY <1>1, <1>2, <1>3, <1>4, <1>5, <1>6

LEMMA Chooses ==
    ASSUME IInv, NEW chosen \in SUBSET library, do_jsonfiles_init(chosen)
    PROVE  IInv'
<1>1. /\ selects' = selects + 1 /\ selection' = chosen /\ filestrarray' = <<>>
      /\ reading' = reading \union {<<f, selects'>> : f \in chosen}
      /\ UNCHANGED <<library, click, jobs, clock, disk, data>>
  BY DEF do_jsonfiles_init, filestrarrayCleared
<1>2. mixed' = (reading # {})
  BY DEF do_jsonfiles_init
<1>3. selects' \in Nat /\ filestrarray' \in Seq(library)
  BY <1>1, EmptySeq DEF IInv, Types
<1>4. mixed' \in BOOLEAN
  BY <1>2
<1>5. PageInv'
  <2>1. IsInjective(filestrarray') /\ ToSet(filestrarray') = {}
    BY <1>1 DEF IsInjective, ToSet
  <2>2. ASSUME NEW read \in reading'
        PROVE  read[1] \in library /\ read[2] \in 1..selects'
    <3>1. CASE read \in reading
      <4>1. read[1] \in library /\ read[2] \in 1..selects /\ selects \in Nat
        BY <3>1 DEF IInv, PageInv, Types
      <4>2. QED
        BY <1>1, <4>1
    <3>2. CASE read \in {<<f, selects'>> : f \in chosen}
      BY <1>1, <1>3, <3>2 DEF IInv, Types
    <3>3. QED
      BY <1>1, <3>1, <3>2
  <2>3. ASSUME ~mixed'
        PROVE  ToSet(filestrarray') \union {read[1] : read \in reading'} = selection'
    <3>1. reading = {}
      BY <1>2, <2>3
    <3>2. {read[1] : read \in reading'} = chosen
      <4>1. reading' = {<<f, selects'>> : f \in chosen}
        BY <1>1, <3>1
      <4>2. \A f \in chosen : <<f, selects'>> \in reading' /\ <<f, selects'>>[1] = f
        BY <4>1
      <4>3. \A read \in reading' : read[1] \in chosen
        BY <4>1
      <4>4. chosen \subseteq {read[1] : read \in reading'}
        BY <4>2
      <4>5. QED
        BY <4>3, <4>4
    <3>3. QED
      BY <1>1, <2>1, <3>2
  <2>4. QED
    BY <1>1, <2>1, <2>2, <2>3 DEF PageInv
<1>6. QED
  BY <1>1, <1>3, <1>4, <1>5, SameJobs DEF IInv

LEMMA Loads ==
    ASSUME IInv, NEW read \in reading, onload(read)
    PROVE  IInv'
<1> DEFINE f == read[1]
<1>1. /\ selects' = selects /\ selection' = selection /\ filestrarray' = Stored(f)
      /\ reading' = reading \ {read}
      /\ UNCHANGED <<library, click, jobs, clock, disk, data>>
  BY DEF onload
<1>2. mixed' = mixed
  BY DEF onload
<1>3. f \in library
  BY DEF IInv, PageInv
<1> HIDE DEF f
<1>4. /\ Stored(f) \in Seq(library) /\ IsInjective(Stored(f))
      /\ ToSet(Stored(f)) = ToSet(filestrarray) \union {f}
  BY <1>3, Stores DEF IInv, Types, PageInv
<1>5. selects' \in Nat /\ selection' \in SUBSET library
  BY <1>1 DEF IInv, Types
<1>6. mixed' \in BOOLEAN
  BY <1>2 DEF IInv, Types
<1>7. PageInv'
  <2>1. ASSUME NEW r \in reading'
        PROVE  r[1] \in library' /\ r[2] \in 1..selects'
    BY <1>1 DEF IInv, PageInv
  <2>2. ASSUME ~mixed'
        PROVE  ToSet(filestrarray') \union {r[1] : r \in reading'} = selection'
    <3>1. ToSet(filestrarray) \union {r[1] : r \in reading} = selection
      BY <1>2, <2>2 DEF IInv, PageInv
    <3>2. {r[1] : r \in reading} = {r[1] : r \in reading'} \union {f}
      BY <1>1 DEF f
    <3>3. QED
      BY <1>1, <1>4, <3>1, <3>2
  <2>3. QED
    BY <1>1, <1>4, <2>1, <2>2 DEF PageInv
<1>8. QED
  BY <1>1, <1>4, <1>5, <1>6, <1>7, SameJobs DEF IInv

LEMMA LoadFails ==
    ASSUME IInv, NEW read \in reading, onerror(read)
    PROVE  IInv'
<1>1. /\ selects' = selects /\ selection' = selection /\ filestrarray' = filestrarray
      /\ reading' = reading \ {read} /\ mixed' = TRUE
      /\ UNCHANGED <<library, click, jobs, clock, disk, data>>
  BY DEF onerror
<1>2. /\ selects' \in Nat /\ selection' \in SUBSET library /\ filestrarray' \in Seq(library)
      /\ mixed' \in BOOLEAN
  BY <1>1 DEF IInv, Types
<1>3. PageInv'
  BY <1>1 DEF IInv, PageInv
<1>4. QED
  BY <1>1, <1>2, <1>3, SameJobs DEF IInv

(* A click either leaves the requests or adds one that has no name yet. *)
LEMMA Clicks ==
    ASSUME IInv, do_create_tpegfile
    PROVE  IInv'
<1> DEFINE verdict == FirstFault([i \in DOMAIN filestrarray |-> Verdict[filestrarray[i]]])
           settled == reading = {} /\ ~mixed
           job     == [stage |-> "timer", files |-> filestrarray, chosen |-> selection,
                       settled |-> settled, at |-> -1, into |-> 0, got |-> {}]
           n       == Len(jobs)
<1>1. /\ n < Tries[library] /\ UNCHANGED <<files, clock, disk, data>>
      /\ click' = [files |-> filestrarray, outcome |-> IF verdict = "ok" THEN "posted" ELSE verdict]
      /\ jobs' = IF verdict # "ok" THEN jobs ELSE Append(jobs, job)
  BY DEF do_create_tpegfile
<1>2. /\ library' = library /\ selects' = selects /\ selection' = selection /\ filestrarray' = filestrarray
      /\ mixed' = mixed /\ reading' = reading /\ clock' = clock /\ disk' = disk /\ data' = data
  BY <1>1 DEF files
<1>3. filestrarray \in Seq(AllFiles) /\ selection \in SUBSET AllFiles /\ Tries[library] \in Nat
  <2>1. filestrarray \in Seq(library) /\ library \subseteq AllFiles /\ selection \in SUBSET library
    BY Libraried DEF IInv, Types
  <2>2. Len(filestrarray) \in Nat /\ filestrarray \in [1..Len(filestrarray) -> AllFiles]
    BY <2>1, LenProperties
  <2>3. QED
    BY <2>1, <2>2, SeqDef, Libraried DEF IInv
<1>4. ClickInv'
  <2>1. click'.files = filestrarray /\ click'.outcome = IF verdict = "ok" THEN "posted" ELSE verdict
    BY <1>1
  <2>2. (IF verdict = "ok" THEN "posted" ELSE verdict) = Outcome(filestrarray)
    BY DEF Outcome
  <2>3. QED
    BY <1>3, <2>1, <2>2 DEF ClickInv
<1>5. PageInv'
  BY <1>2 DEF IInv, PageInv
<1>6. job \in Jobs /\ job.stage = "timer" /\ job.at = -1
  <2>1. settled \in BOOLEAN
    OBVIOUS
  <2> HIDE DEF settled
  <2>2. QED
    BY <1>3, <2>1 DEF Jobs, Nameless, Named, Times
<1>7. job.settled => ToSet(job.files) = job.chosen
  <2>1. ASSUME settled
        PROVE  ToSet(filestrarray) = selection
    <3>1. {read[1] : read \in reading} = {} /\ ~mixed
      BY <2>1
    <3>2. QED
      BY <3>1 DEF IInv, PageInv
  <2>2. job.settled = settled /\ job.files = filestrarray /\ job.chosen = selection
    OBVIOUS
  <2> HIDE DEF settled, job
  <2>3. QED
    BY <2>1, <2>2
<1> HIDE DEF verdict, settled, job
<1>8. n \in Nat /\ DOMAIN jobs = 1..n /\ jobs \in Seq(Jobs)
  BY LenProperties DEF IInv, Types
<1>9. CASE jobs' = jobs
  <2>1. Types'
    BY <1>2, <1>9 DEF IInv, Types
  <2>2. PostedFromSelection' /\ NamedInv' /\ DiskInv'
    BY <1>2, <1>9 DEF IInv, PostedFromSelection, NamedInv, DiskInv
  <2>3. OwnInv'
    BY <1>2, <1>9 DEF IInv, OwnInv, Own, Lone
  <2>4. QED
    BY <1>4, <1>5, <2>1, <2>2, <2>3 DEF IInv
<1>10. CASE jobs' = Append(jobs, job)
  <2>1. /\ jobs' \in Seq(Jobs) /\ Len(jobs') = n + 1
        /\ (\A i \in 1..n : jobs'[i] = jobs[i]) /\ jobs'[n + 1] = job
    BY <1>6, <1>8, <1>10, AppendProperties
  <2> HIDE DEF n
  <2>2. DOMAIN jobs' = 1..n + 1
    BY <2>1, LenProperties
  <2>3. /\ \A i \in DOMAIN jobs : i \in DOMAIN jobs' /\ i \in 1..n
        /\ \A i \in DOMAIN jobs' : i \in DOMAIN jobs \/ i = n + 1
        /\ n + 1 \notin DOMAIN jobs
    BY <1>8, <2>2
  <2>4. Types'
    <3>1. Len(jobs') <= Tries'[library']
      BY <1>1, <1>2, <1>3, <1>8, <2>1 DEF n
    <3>2. QED
      BY <1>2, <2>1, <3>1 DEF IInv, Types
  <2>5. PostedFromSelection'
    <3>1. ASSUME NEW j \in DOMAIN jobs', jobs'[j].settled
          PROVE  ToSet(jobs'[j].files) = jobs'[j].chosen
      <4>1. CASE j \in DOMAIN jobs
        BY <2>1, <2>3, <3>1, <4>1 DEF IInv, PostedFromSelection
      <4>2. CASE j = n + 1
        BY <1>7, <2>1, <3>1, <4>2
      <4>3. QED
        BY <2>3, <4>1, <4>2
    <3>2. QED
      BY <3>1 DEF PostedFromSelection
  <2>6. NamedInv'
    <3>1. ASSUME NEW j \in DOMAIN jobs'
          PROVE  /\ jobs'[j].stage \in Nameless => jobs'[j].at = -1
                 /\ jobs'[j].stage \in Named => jobs'[j].at \in Times
      <4>1. CASE j \in DOMAIN jobs
        BY <2>1, <2>3, <4>1 DEF IInv, NamedInv
      <4>2. CASE j = n + 1
        BY <1>6, <2>1, <4>2 DEF Named
      <4>3. QED
        BY <2>3, <4>1, <4>2
    <3>2. QED
      BY <3>1 DEF NamedInv
  <2>7. DiskInv'
    <3>1. ASSUME NEW name \in Times, disk'[name] # 0
          PROVE  disk'[name] \in DOMAIN jobs' /\ jobs'[disk'[name]].at = name
      BY <1>2, <2>1, <2>3, <3>1 DEF IInv, DiskInv
    <3>2. ASSUME NEW j \in DOMAIN jobs', jobs'[j].stage = "open"
          PROVE  jobs'[j].into \in DOMAIN jobs' /\ jobs'[jobs'[j].into].at = jobs'[j].at
      <4>1. j \in DOMAIN jobs
        BY <1>6, <2>1, <2>3, <3>2
      <4>2. QED
        BY <2>1, <2>3, <3>2, <4>1 DEF IInv, DiskInv
    <3>3. ASSUME NEW j \in DOMAIN data', NEW k \in data'[j]
          PROVE  /\ j \in DOMAIN jobs' /\ k \in DOMAIN jobs'
                 /\ jobs'[j].at \in Times /\ jobs'[k].at = jobs'[j].at
      <4>1. j \in DOMAIN data /\ k \in data[j]
        BY <1>2
      <4>2. QED
        BY <2>1, <2>3, <4>1 DEF IInv, DiskInv
    <3>4. QED
      BY <3>1, <3>2, <3>3 DEF DiskInv
  <2>8. OwnInv'
    <3>1. SUFFICES ASSUME NEW j \in DOMAIN jobs', Lone(j)'
                   PROVE  Own(j)'
      BY DEF OwnInv
    <3>2. CASE j \in DOMAIN jobs
      <4>1. Lone(j)
        BY <2>1, <2>3, <3>1, <3>2 DEF Lone
      <4>2. Own(j) /\ jobs'[j] = jobs[j]
        BY <2>1, <2>3, <3>2, <4>1 DEF IInv, OwnInv
      <4>3. QED
        BY <1>2, <4>2 DEF Own
    <3>3. CASE j = n + 1
      BY <1>6, <2>1, <3>3 DEF Own
    <3>4. QED
      BY <2>3, <3>2, <3>3
  <2>9. QED
    BY <1>4, <1>5, <2>4, <2>5, <2>6, <2>7, <2>8 DEF IInv
<1>11. QED
  BY <1>1, <1>9, <1>10

LEMMA Ticks ==
    ASSUME IInv, Tick
    PROVE  IInv'
<1>1. clock' = clock + 1 /\ clock < MaxClock /\ UNCHANGED <<files, click, jobs, disk, data>>
  BY DEF Tick
<1>2. /\ library' = library /\ selects' = selects /\ selection' = selection /\ filestrarray' = filestrarray
      /\ mixed' = mixed /\ reading' = reading
  BY <1>1 DEF files
<1>3. clock' \in Times
  BY <1>1, Libraried DEF IInv, Types, Times
<1>4. Types' /\ PageInv'
  BY <1>1, <1>2, <1>3 DEF IInv, Types, PageInv
<1>5. ClickInv' /\ PostedFromSelection' /\ NamedInv' /\ DiskInv'
  BY <1>1 DEF IInv, ClickInv, PostedFromSelection, NamedInv, DiskInv
<1>6. OwnInv'
  BY <1>1 DEF IInv, OwnInv, Own, Lone
<1>7. QED
  BY <1>4, <1>5, <1>6 DEF IInv

-----------------------------------------------------------------------------
(* What every step of a request has in common.                             *)

Moves(j, r) == /\ j \in DOMAIN jobs /\ jobs' = [jobs EXCEPT ![j] = r] /\ r \in Jobs
               /\ r.files = jobs[j].files /\ r.chosen = jobs[j].chosen /\ r.settled = jobs[j].settled
               /\ UNCHANGED <<library, selects, selection, reading, filestrarray, mixed, click, clock>>
               /\ disk' \in [Times -> Nat] /\ data' \in [1..Tries[library] -> SUBSET Nat]

LEMMA JobMoves ==
    ASSUME IInv, NEW j, NEW r, Moves(j, r)
    PROVE  /\ Types' /\ PageInv' /\ ClickInv' /\ PostedFromSelection'
           /\ DOMAIN jobs' = DOMAIN jobs /\ jobs'[j] = r
           /\ \A k \in DOMAIN jobs : k # j => jobs'[k] = jobs[k]
<1> DEFINE n == Len(jobs)
<1>1. jobs \in Seq(Jobs) /\ n \in Nat /\ DOMAIN jobs = 1..n
  BY LenProperties DEF IInv, Types
<1>2. j \in 1..n /\ jobs' = [jobs EXCEPT ![j] = r] /\ r \in Jobs
  BY <1>1 DEF Moves
<1>3. /\ jobs' \in Seq(Jobs) /\ Len(jobs') = n
      /\ \A k \in 1..n : jobs'[k] = IF k = j THEN r ELSE jobs[k]
  BY <1>1, <1>2, ExceptSeq
<1>4. DOMAIN jobs' = 1..n
  BY <1>3, LenProperties
<1>5. Types'
  BY <1>3 DEF IInv, Types, Moves
<1>6. PageInv'
  BY DEF IInv, PageInv, Moves
<1>7. ClickInv'
  BY DEF IInv, ClickInv, Moves
<1> HIDE DEF n
<1>8. PostedFromSelection'
  <2>1. ASSUME NEW k \in 1..n, jobs'[k].settled
        PROVE  ToSet(jobs'[k].files) = jobs'[k].chosen
    <3>1. /\ jobs'[k].files = jobs[k].files /\ jobs'[k].chosen = jobs[k].chosen
          /\ jobs'[k].settled = jobs[k].settled
      BY <1>3 DEF Moves
    <3>2. QED
      BY <1>1, <2>1, <3>1 DEF IInv, PostedFromSelection
  <2>2. QED
    BY <1>4, <2>1 DEF PostedFromSelection
<1>9. QED
  BY <1>1, <1>2, <1>3, <1>4, <1>5, <1>6, <1>7, <1>8

(* Steps that give no name. *)
LEMMA SameTimes ==
    ASSUME IInv, NEW j, NEW r, Moves(j, r), r.at = jobs[j].at,
           \/ jobs[j].stage \in Named
           \/ (jobs[j].stage = "posted" /\ r.stage = "failed")
           \/ (jobs[j].stage = "timer" /\ r.stage = "posted"),
           jobs[j].stage \in Named => r.stage \notin Nameless
    PROVE  /\ NamedInv' /\ \A k \in DOMAIN jobs : jobs'[k].at = jobs[k].at
           /\ \A k \in DOMAIN jobs : Lone(k)' => Lone(k)
<1>1. /\ DOMAIN jobs' = DOMAIN jobs /\ jobs'[j] = r /\ j \in DOMAIN jobs
      /\ \A k \in DOMAIN jobs : k # j => jobs'[k] = jobs[k]
  BY JobMoves DEF Moves
<1>2. \A k \in DOMAIN jobs : jobs'[k].at = jobs[k].at
  BY <1>1
<1>3. \A k \in DOMAIN jobs : Lone(k)' => Lone(k)
  BY <1>1, <1>2 DEF Lone
<1>4. NamedInv'
  <2>1. ASSUME NEW k \in DOMAIN jobs
        PROVE  /\ jobs'[k].stage \in Nameless => jobs'[k].at = -1
               /\ jobs'[k].stage \in Named => jobs'[k].at \in Times
    <3>1. /\ jobs[k].stage \in Nameless => jobs[k].at = -1
          /\ jobs[k].stage \in Named => jobs[k].at \in Times
      BY DEF IInv, NamedInv
    <3>2. CASE k # j
      BY <1>1, <3>1, <3>2
    <3>3. CASE k = j
      BY <1>1, <3>1, <3>3 DEF Nameless, Named
    <3>4. QED
      BY <3>2, <3>3
  <2>2. QED
    BY <1>1, <2>1 DEF NamedInv
<1>5. QED
  BY <1>2, <1>3, <1>4

(* A step of j touches what is under its name only, and so nothing of a    *)
(* job that shares its name with no other. *)
LEMMA OthersOwn ==
    ASSUME IInv, NEW j, NEW r, Moves(j, r),
           \A k \in DOMAIN jobs : jobs'[k].at = jobs[k].at,
           \A name \in Times : name # jobs[j].at => disk'[name] = disk[name],
           \A k \in DOMAIN jobs : jobs[k].at # jobs[j].at => data'[k] = data[k],
           Lone(j)' => Own(j)'
    PROVE  OwnInv'
<1>1. /\ DOMAIN jobs' = DOMAIN jobs /\ j \in DOMAIN jobs
      /\ \A k \in DOMAIN jobs : k # j => jobs'[k] = jobs[k]
  BY JobMoves DEF Moves
<1>2. ASSUME NEW i \in DOMAIN jobs, i # j, Lone(i)'
      PROVE  Own(i)'
  <2>1. Lone(i) /\ jobs[i].at # jobs[j].at
    BY <1>1, <1>2 DEF Lone
  <2>2. Own(i) /\ jobs'[i] = jobs[i] /\ data'[i] = data[i]
    BY <1>1, <1>2, <2>1 DEF IInv, OwnInv
  <2>3. jobs[i].stage \in {"created", "open", "written"} => disk'[jobs[i].at] = disk[jobs[i].at]
    BY <2>1 DEF IInv, NamedInv, Named
  <2>4. QED
    BY <2>2, <2>3 DEF Own
<1>3. QED
  BY <1>1, <1>2 DEF OwnInv

(* DiskInv says of a step that gives no name. *)
LEMMA SameNames ==
    ASSUME IInv, NEW j, NEW r, Moves(j, r),
           \A k \in DOMAIN jobs : jobs'[k].at = jobs[k].at,
           \A name \in Times : disk'[name] # 0 /\ disk'[name] # disk[name] =>
               disk'[name] \in DOMAIN jobs /\ jobs[disk'[name]].at = name,
           r.stage = "open" => r.into \in DOMAIN jobs /\ jobs[r.into].at = jobs[j].at,
           \A i \in DOMAIN data : \A k \in data'[i] \ data[i] :
               i \in DOMAIN jobs /\ k \in DOMAIN jobs /\ jobs[i].at \in Times /\ jobs[k].at = jobs[i].at
    PROVE  DiskInv'
<1>1. /\ DOMAIN jobs' = DOMAIN jobs /\ jobs'[j] = r /\ j \in DOMAIN jobs
      /\ \A k \in DOMAIN jobs : k # j => jobs'[k] = jobs[k]
  BY JobMoves DEF Moves
<1>2. DOMAIN data' = DOMAIN data
  BY DEF IInv, Types, Moves
<1>3. ASSUME NEW name \in Times, disk'[name] # 0
      PROVE  disk'[name] \in DOMAIN jobs' /\ jobs'[disk'[name]].at = name
  BY <1>1, <1>3 DEF IInv, DiskInv
<1>4. ASSUME NEW k \in DOMAIN jobs', jobs'[k].stage = "open"
      PROVE  jobs'[k].into \in DOMAIN jobs' /\ jobs'[jobs'[k].into].at = jobs'[k].at
  <2>1. CASE k = j
    BY <1>1, <1>4, <2>1
  <2>2. CASE k # j
    BY <1>1, <1>4, <2>2 DEF IInv, DiskInv
  <2>3. QED
    BY <2>1, <2>2
<1>5. ASSUME NEW i \in DOMAIN data', NEW k \in data'[i]
      PROVE  /\ i \in DOMAIN jobs' /\ k \in DOMAIN jobs'
             /\ jobs'[i].at \in Times /\ jobs'[k].at = jobs'[i].at
  <2>1. i \in DOMAIN jobs /\ k \in DOMAIN jobs /\ jobs[i].at \in Times /\ jobs[k].at = jobs[i].at
    BY <1>2 DEF IInv, DiskInv
  <2>2. QED
    BY <1>1, <2>1
<1>6. QED
  BY <1>3, <1>4, <1>5 DEF DiskInv

(* Where a job's file goes: under its own name there is nothing, or the    *)
(* file of a job of that name. *)
LEMMA Opens ==
    ASSUME IInv, NEW j \in DOMAIN jobs, jobs[j].stage \in Named
    PROVE  /\ FileOf(j) = jobs[j].at /\ jobs[j].at \in Times /\ j \in Nat \ {0}
           /\ Opened(j) \in DOMAIN jobs /\ Opened(j) \in Nat \ {0} /\ jobs[Opened(j)].at = jobs[j].at
           /\ DOMAIN jobs \subseteq 1..Tries[library]
           /\ Lone(j) => Opened(j) = j
<1>1. FileOf(j) = jobs[j].at /\ jobs[j].at \in Times
  BY DEF FileOf, NameAt, IInv, NamedInv
<1>2. DOMAIN jobs = 1..Len(jobs) /\ Len(jobs) \in Nat /\ Len(jobs) <= Tries[library] /\ Tries[library] \in Nat
  BY Libraried, LenProperties DEF IInv, Types
<1>3. DOMAIN jobs \subseteq 1..Tries[library] /\ \A k \in DOMAIN jobs : k \in Nat \ {0}
  BY <1>2
<1>4. Opened(j) \in DOMAIN jobs /\ jobs[Opened(j)].at = jobs[j].at
  BY <1>1 DEF Opened, IInv, DiskInv
<1>5. Lone(j) => Opened(j) = j
  BY <1>4 DEF Lone
<1>6. QED
  BY <1>1, <1>3, <1>4, <1>5

-----------------------------------------------------------------------------
(* Every step of a request.                                                *)

(* A change of stage only. *)
LEMMA Stages ==
    ASSUME IInv, NEW j \in DOMAIN jobs, NEW stage \in Nameless \union Named \union {"failed"},
           Goes(j, stage), unchangedByJobs,
           disk' \in [Times -> Nat], data' \in [1..Tries[library] -> SUBSET Nat]
    PROVE  LET r == [jobs[j] EXCEPT !.stage = stage]
           IN /\ Moves(j, r) /\ r.stage = stage /\ r.at = jobs[j].at
              /\ r.into = jobs[j].into /\ r.got = jobs[j].got
<1> DEFINE r == [jobs[j] EXCEPT !.stage = stage]
<1>1. jobs[j] \in Jobs
  BY LenProperties DEF IInv, Types
<1>2. /\ r \in Jobs /\ r.files = jobs[j].files /\ r.chosen = jobs[j].chosen /\ r.settled = jobs[j].settled
      /\ r.stage = stage /\ r.at = jobs[j].at /\ r.into = jobs[j].into /\ r.got = jobs[j].got
  BY <1>1 DEF Jobs
<1>3. jobs' = [jobs EXCEPT ![j] = r]
  BY DEF Goes
<1>4. UNCHANGED <<library, selects, selection, reading, filestrarray, mixed, click, clock>>
  BY DEF unchangedByJobs, files
<1> HIDE DEF r
<1>5. Moves(j, r)
  BY <1>2, <1>3, <1>4 DEF Moves
<1>6. QED
  BY <1>2, <1>5 DEF r

LEMMA Disks ==
    ASSUME IInv
    PROVE  disk \in [Times -> Nat] /\ data \in [1..Tries[library] -> SUBSET Nat]
BY DEF IInv, Types

(* The page's timer ends, or the request fails. *)
LEMMA PostsOrFails ==
    ASSUME IInv, NEW j \in DOMAIN jobs, Post(j) \/ Fail(j)
    PROVE  IInv'
<1> DEFINE stage == IF At(j, "timer") THEN "posted" ELSE "failed"
           r     == [jobs[j] EXCEPT !.stage = stage]
<1>1. /\ Goes(j, stage) /\ disk' = disk /\ data' = data /\ unchangedByJobs
      /\ \/ (jobs[j].stage = "timer" /\ stage = "posted")
         \/ (jobs[j].stage \in {"posted", "named", "deleted", "created", "open"} /\ stage = "failed")
  BY DEF Post, Fail, At
<1>2. stage \in Nameless \union Named \union {"failed"}
  BY DEF Nameless
<1> HIDE DEF stage
<1>3. Moves(j, r) /\ r.stage = stage /\ r.at = jobs[j].at
  BY <1>1, <1>2, Disks, Stages
<1> HIDE DEF r
<1>4. /\ \/ jobs[j].stage \in Named
         \/ (jobs[j].stage = "posted" /\ r.stage = "failed")
         \/ (jobs[j].stage = "timer" /\ r.stage = "posted")
      /\ jobs[j].stage \in Named => r.stage \notin Nameless
  BY <1>1, <1>3 DEF Named, Nameless
<1>5. NamedInv' /\ \A k \in DOMAIN jobs : jobs'[k].at = jobs[k].at
  BY <1>3, <1>4, SameTimes
<1>6. DiskInv'
  <2>1. r.stage # "open"
    BY <1>1, <1>3
  <2>2. /\ \A name \in Times : ~(disk'[name] # 0 /\ disk'[name] # disk[name])
        /\ \A i \in DOMAIN data : data'[i] \ data[i] = {}
    BY <1>1
  <2>3. QED
    BY <1>3, <1>5, <2>1, <2>2, SameNames
<1>7. OwnInv'
  <2>1. jobs'[j] = r
    BY <1>3, JobMoves
  <2>2. r.stage \notin {"created", "open", "written", "done"}
    BY <1>1, <1>3
  <2>3. Own(j)'
    BY <2>1, <2>2 DEF Own
  <2>4. QED
    BY <1>1, <1>3, <1>5, <2>3, OthersOwn
<1>8. QED
  BY <1>3, <1>5, <1>6, <1>7, JobMoves DEF IInv

(* The file of the same name is deleted. *)
LEMMA Deletes ==
    ASSUME IInv, NEW j \in DOMAIN jobs, Delete(j)
    PROVE  IInv'
<1> DEFINE stage == "deleted"
           r     == [jobs[j] EXCEPT !.stage = stage]
<1>1. /\ Goes(j, stage) /\ jobs[j].stage = "named" /\ data' = data /\ unchangedByJobs
      /\ disk' = [disk EXCEPT ![FileOf(j)] = 0]
  BY DEF Delete, At
<1>2. FileOf(j) = jobs[j].at /\ jobs[j].at \in Times
  BY <1>1, Opens DEF Named
<1>3. disk' \in [Times -> Nat] /\ data' \in [1..Tries[library] -> SUBSET Nat]
  BY <1>1, Disks
<1>4. Moves(j, r) /\ r.stage = stage /\ r.at = jobs[j].at
  BY <1>1, <1>3, Stages DEF Named
<1> HIDE DEF r
<1>5. NamedInv' /\ \A k \in DOMAIN jobs : jobs'[k].at = jobs[k].at
  BY <1>1, <1>4, SameTimes DEF Named, Nameless
<1>6. /\ \A name \in Times : name # jobs[j].at => disk'[name] = disk[name]
      /\ \A name \in Times : ~(disk'[name] # 0 /\ disk'[name] # disk[name])
  BY <1>1, <1>2, Disks
<1>7. DiskInv'
  <2>1. \A i \in DOMAIN data : data'[i] \ data[i] = {}
    BY <1>1
  <2>2. QED
    BY <1>4, <1>5, <1>6, <2>1, SameNames
<1>8. OwnInv'
  <2>1. Own(j)'
    BY <1>4, JobMoves DEF Own
  <2>2. QED
    BY <1>1, <1>4, <1>5, <1>6, <2>1, OthersOwn
<1>9. QED
  BY <1>4, <1>5, <1>7, <1>8, JobMoves DEF IInv

(* A job that makes its file under its name alone makes it its own. *)
LEMMA Creates ==
    ASSUME IInv, NEW j \in DOMAIN jobs, CreateNewFile(j)
    PROVE  IInv'
<1> DEFINE stage == "created"
           r     == [jobs[j] EXCEPT !.stage = stage]
           o     == Opened(j)
<1>1. /\ Goes(j, stage) /\ jobs[j].stage = "deleted" /\ data' = data /\ unchangedByJobs
      /\ disk' = [disk EXCEPT ![FileOf(j)] = o]
  BY DEF CreateNewFile, At
<1>2. /\ FileOf(j) = jobs[j].at /\ jobs[j].at \in Times
      /\ o \in DOMAIN jobs /\ o \in Nat \ {0} /\ jobs[o].at = jobs[j].at /\ (Lone(j) => o = j)
  BY <1>1, Opens DEF Named
<1> HIDE DEF o
<1>3. disk' \in [Times -> Nat] /\ data' \in [1..Tries[library] -> SUBSET Nat]
  BY <1>1, <1>2, Disks
<1>4. Moves(j, r) /\ r.stage = stage /\ r.at = jobs[j].at
  BY <1>1, <1>3, Stages DEF Named
<1> HIDE DEF r
<1>5. /\ NamedInv' /\ \A k \in DOMAIN jobs : jobs'[k].at = jobs[k].at
      /\ Lone(j)' => Lone(j)
  BY <1>1, <1>4, SameTimes DEF Named, Nameless
<1>6. /\ \A name \in Times : name # jobs[j].at => disk'[name] = disk[name]
      /\ disk'[jobs[j].at] = o
  BY <1>1, <1>2, Disks
<1>7. DiskInv'
  <2>1. \A i \in DOMAIN data : data'[i] \ data[i] = {}
    BY <1>1
  <2>2. \A name \in Times : disk'[name] # 0 /\ disk'[name] # disk[name] =>
            disk'[name] \in DOMAIN jobs /\ jobs[disk'[name]].at = name
    BY <1>2, <1>6
  <2>3. QED
    BY <1>4, <1>5, <2>1, <2>2, SameNames
<1>8. OwnInv'
  <2>1. Lone(j)' => Own(j)'
    <3>1. jobs'[j].stage = "created" /\ jobs'[j].at = jobs[j].at
      BY <1>4, JobMoves
    <3>2. QED
      BY <1>2, <1>5, <1>6, <3>1 DEF Own
  <2>2. QED
    BY <1>1, <1>4, <1>5, <1>6, <2>1, OthersOwn
<1>9. QED
  BY <1>4, <1>5, <1>7, <1>8, JobMoves DEF IInv

(* Opening empties the file, or makes it again. *)
LEMMA OpensFile ==
    ASSUME IInv, NEW j \in DOMAIN jobs, Open(j)
    PROVE  IInv'
<1> DEFINE o == Opened(j)
           r == [jobs[j] EXCEPT !.stage = "open", !.into = o]
<1>1. /\ jobs[j].stage = "created" /\ unchangedByJobs
      /\ jobs' = [jobs EXCEPT ![j].stage = "open", ![j].into = o]
      /\ disk' = [disk EXCEPT ![FileOf(j)] = o] /\ data' = [data EXCEPT ![o] = {}]
  BY DEF Open, At
<1>2. /\ FileOf(j) = jobs[j].at /\ jobs[j].at \in Times /\ DOMAIN jobs \subseteq 1..Tries[library]
      /\ o \in DOMAIN jobs /\ o \in Nat \ {0} /\ jobs[o].at = jobs[j].at /\ (Lone(j) => o = j)
  BY <1>1, Opens DEF Named
<1> HIDE DEF o
<1>3. disk' \in [Times -> Nat] /\ data' \in [1..Tries[library] -> SUBSET Nat]
  BY <1>1, <1>2, Disks
<1>4. Moves(j, r) /\ r.stage = "open" /\ r.at = jobs[j].at /\ r.into = o
  <2>1. jobs[j] \in Jobs
    BY LenProperties DEF IInv, Types
  <2>2. /\ r \in Jobs /\ r.files = jobs[j].files /\ r.chosen = jobs[j].chosen /\ r.settled = jobs[j].settled
        /\ r.stage = "open" /\ r.at = jobs[j].at /\ r.into = o
    BY <1>2, <2>1 DEF Jobs, Named
  <2>3. jobs' = [jobs EXCEPT ![j] = r]
    BY <1>1
  <2>4. UNCHANGED <<library, selects, selection, reading, filestrarray, mixed, click, clock>>
    BY <1>1 DEF unchangedByJobs, files
  <2> HIDE DEF r
  <2>5. QED
    BY <1>3, <2>2, <2>3, <2>4 DEF Moves
<1> HIDE DEF r
<1>5. /\ NamedInv' /\ \A k \in DOMAIN jobs : jobs'[k].at = jobs[k].at
      /\ Lone(j)' => Lone(j)
  BY <1>1, <1>4, SameTimes DEF Named, Nameless
<1>6. /\ \A name \in Times : name # jobs[j].at => disk'[name] = disk[name]
      /\ disk'[jobs[j].at] = o
      /\ \A k \in DOMAIN data : k # o => data'[k] = data[k]
      /\ data'[o] = {}
  BY <1>1, <1>2, Disks
<1>7. DiskInv'
  <2>1. \A i \in DOMAIN data : data'[i] \ data[i] = {}
    BY <1>6
  <2>2. \A name \in Times : disk'[name] # 0 /\ disk'[name] # disk[name] =>
            disk'[name] \in DOMAIN jobs /\ jobs[disk'[name]].at = name
    BY <1>2, <1>6
  <2>3. r.into \in DOMAIN jobs /\ jobs[r.into].at = jobs[j].at
    BY <1>2, <1>4
  <2>4. QED
    BY <1>4, <1>5, <2>1, <2>2, <2>3, SameNames
<1>8. OwnInv'
  <2>1. Lone(j)' => Own(j)'
    <3>1. jobs'[j].stage = "open" /\ jobs'[j].at = jobs[j].at /\ jobs'[j].into = o
      BY <1>4, JobMoves
    <3>2. QED
      BY <1>2, <1>5, <1>6, <3>1 DEF Own
  <2>2. \A k \in DOMAIN jobs : jobs[k].at # jobs[j].at => data'[k] = data[k]
    BY <1>2, <1>6, Disks
  <2>3. QED
    BY <1>4, <1>5, <1>6, <2>1, <2>2, OthersOwn
<1>9. QED
  BY <1>4, <1>5, <1>7, <1>8, JobMoves DEF IInv

(* The bytes go into the file that was opened. *)
LEMMA Writes ==
    ASSUME IInv, NEW j \in DOMAIN jobs, Write(j)
    PROVE  IInv'
<1> DEFINE stage == "written"
           r     == [jobs[j] EXCEPT !.stage = stage]
           o     == jobs[j].into
<1>1. /\ Goes(j, stage) /\ jobs[j].stage = "open" /\ disk' = disk /\ unchangedByJobs
      /\ data' = [data EXCEPT ![o] = data[o] \union {j}]
  BY DEF Write, At
<1>2. /\ jobs[j].at \in Times /\ DOMAIN jobs \subseteq 1..Tries[library] /\ j \in Nat
      /\ o \in DOMAIN jobs /\ jobs[o].at = jobs[j].at
      /\ Lone(j) => o = j /\ data[j] = {} /\ disk[jobs[j].at] = j
  <2>1. jobs[j].at \in Times /\ DOMAIN jobs \subseteq 1..Tries[library] /\ j \in Nat
    BY <1>1, Opens DEF Named
  <2>2. o \in DOMAIN jobs /\ jobs[o].at = jobs[j].at
    BY <1>1 DEF IInv, DiskInv
  <2>3. Lone(j) => o = j /\ data[j] = {} /\ disk[jobs[j].at] = j
    BY <1>1 DEF IInv, OwnInv, Own
  <2>4. QED
    BY <2>1, <2>2, <2>3
<1> HIDE DEF o
<1>3. disk' \in [Times -> Nat] /\ data' \in [1..Tries[library] -> SUBSET Nat]
  BY <1>1, <1>2, Disks
<1>4. Moves(j, r) /\ r.stage = stage /\ r.at = jobs[j].at
  BY <1>1, <1>3, Stages DEF Named
<1> HIDE DEF r
<1>5. /\ NamedInv' /\ \A k \in DOMAIN jobs : jobs'[k].at = jobs[k].at
      /\ Lone(j)' => Lone(j)
  BY <1>1, <1>4, SameTimes DEF Named, Nameless
<1>6. /\ \A k \in DOMAIN data : k # o => data'[k] = data[k]
      /\ data'[o] = data[o] \union {j}
  BY <1>1, <1>2, Disks
<1>7. DiskInv'
  <2>1. ASSUME NEW i \in DOMAIN data, NEW k \in data'[i] \ data[i]
        PROVE  i \in DOMAIN jobs /\ k \in DOMAIN jobs /\ jobs[i].at \in Times /\ jobs[k].at = jobs[i].at
    <3>1. i = o /\ k = j
      BY <1>6
    <3>2. QED
      BY <1>2, <3>1
  <2>2. \A name \in Times : ~(disk'[name] # 0 /\ disk'[name] # disk[name])
    BY <1>1
  <2>3. QED
    BY <1>4, <1>5, <2>1, <2>2, SameNames
<1>8. OwnInv'
  <2>1. Lone(j)' => Own(j)'
    <3>1. jobs'[j].stage = "written" /\ jobs'[j].at = jobs[j].at
      BY <1>4, JobMoves
    <3>2. QED
      BY <1>1, <1>2, <1>5, <1>6, <3>1 DEF Own
  <2>2. \A k \in DOMAIN jobs : jobs[k].at # jobs[j].at => data'[k] = data[k]
    BY <1>2, <1>6, Disks
  <2>3. QED
    BY <1>1, <1>4, <1>5, <2>1, <2>2, OthersOwn
<1>9. QED
  BY <1>4, <1>5, <1>7, <1>8, JobMoves DEF IInv

(* The page gets what is under the name by now. *)
LEMMA Downloads ==
    ASSUME IInv, NEW j \in DOMAIN jobs, Download(j)
    PROVE  IInv'
<1> DEFINE got == IF disk[FileOf(j)] = 0 THEN {} ELSE data[disk[FileOf(j)]]
           r   == [jobs[j] EXCEPT !.stage = "done", !.got = got]
<1>1. /\ jobs[j].stage = "written" /\ unchangedByJobs /\ disk' = disk /\ data' = data
      /\ jobs' = [jobs EXCEPT ![j].stage = "done", ![j].got = got]
  BY DEF Download, At
<1>2. /\ FileOf(j) = jobs[j].at /\ jobs[j].at \in Times /\ DOMAIN jobs \subseteq 1..Tries[library]
      /\ j \in Nat \ {0}
  BY <1>1, Opens DEF Named
<1>3. got \in SUBSET Nat
  <2>1. ASSUME disk[jobs[j].at] # 0
        PROVE  data[disk[jobs[j].at]] \in SUBSET Nat
    <3>1. disk[jobs[j].at] \in DOMAIN jobs
      BY <1>2, <2>1 DEF IInv, DiskInv
    <3>2. QED
      BY <1>2, <3>1, Disks
  <2>2. QED
    BY <1>2, <2>1
<1>4. Lone(j) => got = {j}
  <2>1. Lone(j) => disk[jobs[j].at] = j /\ data[j] = {j}
    BY <1>1 DEF IInv, OwnInv, Own
  <2>2. QED
    BY <1>2, <2>1
<1> HIDE DEF got
<1>5. disk' \in [Times -> Nat] /\ data' \in [1..Tries[library] -> SUBSET Nat]
  BY <1>1, Disks
<1>6. Moves(j, r) /\ r.stage = "done" /\ r.at = jobs[j].at /\ r.got = got
  <2>1. jobs[j] \in Jobs
    BY LenProperties DEF IInv, Types
  <2>2. /\ r \in Jobs /\ r.files = jobs[j].files /\ r.chosen = jobs[j].chosen /\ r.settled = jobs[j].settled
        /\ r.stage = "done" /\ r.at = jobs[j].at /\ r.got = got
    BY <1>3, <2>1 DEF Jobs, Named
  <2>3. jobs' = [jobs EXCEPT ![j] = r]
    BY <1>1
  <2>4. UNCHANGED <<library, selects, selection, reading, filestrarray, mixed, click, clock>>
    BY <1>1 DEF unchangedByJobs, files
  <2> HIDE DEF r
  <2>5. QED
    BY <1>5, <2>2, <2>3, <2>4 DEF Moves
<1> HIDE DEF r
<1>7. /\ NamedInv' /\ \A k \in DOMAIN jobs : jobs'[k].at = jobs[k].at
      /\ Lone(j)' => Lone(j)
  BY <1>1, <1>6, SameTimes DEF Named, Nameless
<1>8. DiskInv'
  <2>1. r.stage # "open"
    BY <1>6
  <2>2. /\ \A name \in Times : ~(disk'[name] # 0 /\ disk'[name] # disk[name])
        /\ \A i \in DOMAIN data : data'[i] \ data[i] = {}
    BY <1>1
  <2>3. QED
    BY <1>6, <1>7, <2>1, <2>2, SameNames
<1>9. OwnInv'
  <2>1. Lone(j)' => Own(j)'
    <3>1. jobs'[j].stage = "done" /\ jobs'[j].got = got
      BY <1>6, JobMoves
    <3>2. QED
      BY <1>4, <1>7, <3>1 DEF Own
  <2>2. QED
    BY <1>1, <1>6, <1>7, <2>1, OthersOwn
<1>10. QED
  BY <1>6, <1>7, <1>8, <1>9, JobMoves DEF IInv

(* A job that is given its name has nothing on the disk yet. *)
LEMMA Names ==
    ASSUME IInv, NEW j \in DOMAIN jobs, Name(j)
    PROVE  IInv'
<1> DEFINE r == [jobs[j] EXCEPT !.stage = "named", !.at = clock]
<1>1. /\ jobs[j].stage = "posted" /\ unchangedByJobs /\ disk' = disk /\ data' = data
      /\ jobs' = [jobs EXCEPT ![j].stage = "named", ![j].at = clock]
  BY DEF Name, At
<1>2. jobs[j].at = -1 /\ clock \in Times /\ -1 \notin Times
  BY <1>1 DEF IInv, NamedInv, Nameless, Types, Times
<1>3. Moves(j, r) /\ r.stage = "named" /\ r.at = clock
  <2>1. jobs[j] \in Jobs
    BY LenProperties DEF IInv, Types
  <2>2. /\ r \in Jobs /\ r.files = jobs[j].files /\ r.chosen = jobs[j].chosen /\ r.settled = jobs[j].settled
        /\ r.stage = "named" /\ r.at = clock
    BY <1>2, <2>1 DEF Jobs, Named
  <2>3. jobs' = [jobs EXCEPT ![j] = r]
    BY <1>1
  <2>4. UNCHANGED <<library, selects, selection, reading, filestrarray, mixed, click, clock>>
    BY <1>1 DEF unchangedByJobs, files
  <2>5. disk' \in [Times -> Nat] /\ data' \in [1..Tries[library] -> SUBSET Nat]
    BY <1>1, Disks
  <2> HIDE DEF r
  <2>6. QED
    BY <2>2, <2>3, <2>4, <2>5 DEF Moves
<1> HIDE DEF r
<1>4. /\ DOMAIN jobs' = DOMAIN jobs /\ jobs'[j] = r
      /\ \A k \in DOMAIN jobs : k # j => jobs'[k] = jobs[k]
  BY <1>3, JobMoves
<1>5. NamedInv'
  BY <1>2, <1>3, <1>4 DEF IInv, NamedInv, Named, Nameless
<1>6. DiskInv'
  <2>1. ASSUME NEW name \in Times, disk'[name] # 0
        PROVE  disk'[name] \in DOMAIN jobs' /\ jobs'[disk'[name]].at = name
    BY <1>1, <1>2, <1>4, <2>1 DEF IInv, DiskInv
  <2>2. ASSUME NEW k \in DOMAIN jobs', jobs'[k].stage = "open"
        PROVE  jobs'[k].into \in DOMAIN jobs' /\ jobs'[jobs'[k].into].at = jobs'[k].at
    <3>1. k # j
      BY <1>3, <1>4, <2>2
    <3>2. jobs[k].into \in DOMAIN jobs /\ jobs[jobs[k].into].at = jobs[k].at /\ jobs[k].at \in Times
      BY <1>4, <2>2, <3>1 DEF IInv, DiskInv, NamedInv, Named
    <3>3. QED
      BY <1>2, <1>4, <3>1, <3>2
  <2>3. ASSUME NEW i \in DOMAIN data', NEW k \in data'[i]
        PROVE  /\ i \in DOMAIN jobs' /\ k \in DOMAIN jobs'
               /\ jobs'[i].at \in Times /\ jobs'[k].at = jobs'[i].at
    <3>1. i \in DOMAIN jobs /\ k \in DOMAIN jobs /\ jobs[i].at \in Times /\ jobs[k].at = jobs[i].at
      BY <1>1 DEF IInv, DiskInv
    <3>2. QED
      BY <1>2, <1>4, <3>1
  <2>4. QED
    BY <2>1, <2>2, <2>3 DEF DiskInv
<1>7. OwnInv'
  <2>1. ASSUME NEW i \in DOMAIN jobs', Lone(i)'
        PROVE  Own(i)'
    <3>1. CASE i = j
      BY <1>3, <1>4, <3>1 DEF Own
    <3>2. CASE i # j /\ jobs[i].stage \in Named
      <4>1. jobs[i].at \in Times
        BY <1>4, <3>2 DEF IInv, NamedInv
      <4>2. Lone(i)
        BY <1>2, <1>4, <2>1, <3>2, <4>1 DEF Lone
      <4>3. Own(i) /\ jobs'[i] = jobs[i]
        BY <1>4, <3>2, <4>2 DEF IInv, OwnInv
      <4>4. QED
        BY <1>1, <4>3 DEF Own
    <3>3. CASE i # j /\ jobs[i].stage \notin Named
      BY <1>4, <3>3 DEF Own, Named
    <3>4. QED
      BY <3>1, <3>2, <3>3
  <2>2. QED
    BY <2>1 DEF OwnInv
<1>8. QED
  BY <1>3, <1>5, <1>6, <1>7, JobMoves DEF IInv

-----------------------------------------------------------------------------
(* The theorems.                                                           *)

LEMMA InitInv == Init => IInv
<1> SUFFICES ASSUME Init
             PROVE  IInv
  OBVIOUS
<1>1. MaxClock \in Nat /\ Tries \in [Libraries -> Nat]
  BY ContentAssumption, Zenon
<1>2. /\ library \in Libraries /\ selects = 0 /\ selection = {} /\ reading = {} /\ filestrarray = <<>>
      /\ click = NoClick /\ jobs = <<>> /\ clock = 0 /\ disk = [name \in Times |-> 0]
      /\ data = [j \in 1..Tries[library] |-> {}]
  BY DEF Init, Times
<1>3. mixed \in BOOLEAN
  BY DEF Init
<1>4. DOMAIN jobs = {} /\ Len(jobs) = 0 /\ ToSet(filestrarray) = {} /\ IsInjective(filestrarray)
  BY <1>2 DEF ToSet, IsInjective
<1>5. Types
  BY <1>1, <1>2, <1>3, <1>4, EmptySeq DEF Types, Times
<1>6. PageInv
  BY <1>2, <1>4 DEF PageInv
<1>7. ClickInv
  BY <1>2, EmptySeq DEF ClickInv, NoClick
<1>8. PostedFromSelection /\ NamedInv /\ OwnInv
  BY <1>4 DEF PostedFromSelection, NamedInv, OwnInv
<1>9. DiskInv
  BY <1>2, <1>4 DEF DiskInv
<1>10. QED
  BY <1>5, <1>6, <1>7, <1>8, <1>9 DEF IInv

LEMMA StutterInv == IInv /\ UNCHANGED vars => IInv'
<1> SUFFICES ASSUME IInv, UNCHANGED vars
             PROVE  IInv'
  OBVIOUS
<1>1. /\ UNCHANGED <<library, click, jobs, clock, disk, data>>
      /\ selects' = selects /\ selection' = selection /\ filestrarray' = filestrarray /\ reading' = reading
  BY DEF vars, files
<1>2. mixed' = mixed
  BY DEF vars, files
<1>3. /\ selects' \in Nat /\ selection' \in SUBSET library /\ filestrarray' \in Seq(library)
  BY <1>1 DEF IInv, Types
<1>4. mixed' \in BOOLEAN
  BY <1>2 DEF IInv, Types
<1>5. PageInv'
  BY <1>1, <1>2 DEF IInv, PageInv
<1>6. QED
  BY <1>1, <1>3, <1>4, <1>5, SameJobs DEF IInv

LEMMA NextInv == IInv /\ [Next]_vars => IInv'
<1> SUFFICES ASSUME IInv, [Next]_vars
             PROVE  IInv'
  OBVIOUS
<1>1. ASSUME NEW chosen \in SUBSET library, do_jsonfiles_init(chosen)
      PROVE  IInv'
  BY <1>1, Chooses
<1>2. ASSUME NEW read \in reading, onload(read)
      PROVE  IInv'
  BY <1>2, Loads
<1>3. ASSUME NEW read \in reading, onerror(read)
      PROVE  IInv'
  BY <1>3, LoadFails
<1>4. CASE do_create_tpegfile
  BY <1>4, Clicks
<1>5. CASE Tick
  BY <1>5, Ticks
<1>6. ASSUME NEW j \in DOMAIN jobs, Job(j)
      PROVE  IInv'
  <2>1. CASE Post(j) \/ Fail(j)
    BY <2>1, PostsOrFails
  <2>2. CASE Name(j)
    BY <2>2, Names
  <2>3. CASE Delete(j)
    BY <2>3, Deletes
  <2>4. CASE CreateNewFile(j)
    BY <2>4, Creates
  <2>5. CASE Open(j)
    BY <2>5, OpensFile
  <2>6. CASE Write(j)
    BY <2>6, Writes
  <2>7. CASE Download(j)
    BY <2>7, Downloads
  <2>8. QED
    BY <1>6, <2>1, <2>2, <2>3, <2>4, <2>5, <2>6, <2>7 DEF Job
<1>7. CASE UNCHANGED vars
  BY <1>7, StutterInv
<1>8. QED
  BY <1>1, <1>2, <1>3, <1>4, <1>5, <1>6, <1>7 DEF Next

THEOREM InductiveInvariant == Spec => []IInv
BY InitInv, NextInv, PTL DEF Spec

LEMMA InvIsTyped == IInv => TypeOK
<1> SUFFICES ASSUME IInv
             PROVE  TypeOK
  OBVIOUS
<1>1. IsInjective(filestrarray) /\ ToSet(filestrarray) \subseteq library
  <2>1. filestrarray \in Seq(library)
    BY DEF IInv, Types
  <2>2. DOMAIN filestrarray = 1..Len(filestrarray) /\ \A i \in 1..Len(filestrarray) : filestrarray[i] \in library
    BY <2>1, LenProperties
  <2>3. QED
    BY <2>2 DEF IInv, PageInv, ToSet
<1>2. \A read \in reading : read[1] \in library /\ read[2] \in 1..selects
  BY DEF IInv, PageInv
<1>3. \A j \in DOMAIN data : \A k \in data[j] : k \in DOMAIN jobs /\ FileOf(k) = FileOf(j)
  BY DEF IInv, DiskInv, FileOf, NameAt
<1>4. \A name \in DOMAIN disk : disk[name] # 0 => FileOf(disk[name]) = name
  BY Disks DEF IInv, DiskInv, FileOf, NameAt
<1>5. QED
  BY <1>1, <1>2, <1>3, <1>4 DEF TypeOK

(* Nothing is read that was not chosen, and a file has bytes of requests   *)
(* of its name only. *)
THEOREM TypeCorrect == Spec => []TypeOK
BY InductiveInvariant, InvIsTyped, PTL

(* A click posts the files chosen last if their reads have ended well, for *)
(* any number of choices, reads and clicks in any order. *)
THEOREM AlwaysPostedFromSelection == Spec => []PostedFromSelection
<1>1. IInv => PostedFromSelection
  BY DEF IInv
<1>2. QED
  BY <1>1, InductiveInvariant, PTL

(* The URL of an answer serves the bytes of its own request, unless        *)
(* another request was named in the same millisecond: for any number of    *)
(* requests whose steps on the disk interleave. *)
THEOREM AlwaysServesOwn == Spec => []ServesOwn
<1>1. IInv => ServesOwn
  BY DEF IInv, OwnInv, Own, Lone, ServesOwn, At
<1>2. QED
  BY <1>1, InductiveInvariant, PTL

LEMMA NoFault ==
    ASSUME NEW verdicts, \A i \in DOMAIN verdicts : verdicts[i] = "ok"
    PROVE  FirstFault(verdicts) = "ok"
<1>1. {i \in DOMAIN verdicts : verdicts[i] # "ok"} = {}
  OBVIOUS
<1>2. QED
  BY <1>1 DEF FirstFault

(* If a complete message passes the page's check and can be made by the    *)
(* service, then files of complete messages are accepted and saved whole,  *)
(* whatever files are put together.  The premise is about one message.     *)
THEOREM AlwaysCompleteIsSaved ==
    ASSUME \A m \in Messages : IsComplete[m] => Checked[m] = "ok" /\ CanCreate[m]
    PROVE  Spec => []CompleteIsSaved
<1>1. ASSUME IInv
      PROVE  CompleteIsSaved
  <2> DEFINE fs       == click.files
             messages == {MessageAt(fs, p) : p \in Places(fs)}
  <2>1. SUFFICES ASSUME \A i \in DOMAIN fs : Content[fs[i]].kind = "array",
                        \A m \in messages : IsComplete[m]
                 PROVE  click.outcome \in {"none", "posted"} /\ Saved(fs) = messages
    BY DEF CompleteIsSaved
  <2>2. \A i \in DOMAIN fs : fs[i] \in AllFiles
    <3>1. fs \in Seq(AllFiles)
      BY <1>1 DEF IInv, ClickInv
    <3>2. QED
      BY <3>1, LenProperties
  <2>3. ASSUME NEW i \in DOMAIN fs, NEW k \in DOMAIN Content[fs[i]].messages
        PROVE  Content[fs[i]].messages[k] \in messages /\ Content[fs[i]].messages[k] \in Messages
    <3>1. <<i, k>> \in Places(fs) /\ MessageAt(fs, <<i, k>>) = Content[fs[i]].messages[k]
      BY DEF Places, MessageAt
    <3>2. Content[fs[i]].messages \in Seq(Messages)
      BY <2>2, ContentAssumption
    <3>3. Content[fs[i]].messages[k] \in Messages
      BY <3>2, LenProperties
    <3>4. QED
      BY <3>1, <3>3
  <2>4. \A m \in messages : m \in Messages
    <3>1. ASSUME NEW p \in Places(fs)
          PROVE  MessageAt(fs, p) \in Messages
      <4>1. PICK i \in DOMAIN fs : p \in {i} \X DOMAIN Content[fs[i]].messages
        BY DEF Places
      <4>2. p[1] = i /\ p[2] \in DOMAIN Content[fs[i]].messages
        BY <4>1
      <4>3. QED
        BY <2>3, <4>2 DEF MessageAt
    <3>2. QED
      BY <3>1
  <2> HIDE DEF messages
  <2>5. ASSUME NEW i \in DOMAIN fs
        PROVE  Verdict[fs[i]] = "ok"
    <3> DEFINE ms       == Content[fs[i]].messages
               verdicts == [k \in DOMAIN ms |-> Checked[ms[k]]]
    <3>1. \A k \in DOMAIN verdicts : verdicts[k] = "ok"
      BY <2>1, <2>3
    <3> HIDE DEF verdicts
    <3>2. FirstFault(verdicts) = "ok"
      BY <3>1, NoFault
    <3>3. Content[fs[i]].kind = "array"
      BY <2>1
    <3>4. validate_msg(fs[i]) = FirstFault(verdicts)
      BY <3>3 DEF validate_msg, verdicts
    <3>5. QED
      BY <2>2, <3>2, <3>4 DEF Verdict
  <2>6. click.outcome \in {"none", "posted"}
    <3> DEFINE verdicts == [i \in DOMAIN fs |-> Verdict[fs[i]]]
    <3>1. \A i \in DOMAIN verdicts : verdicts[i] = "ok"
      BY <2>5
    <3>2. Outcome(fs) = IF FirstFault(verdicts) = "ok" THEN "posted" ELSE FirstFault(verdicts)
      BY DEF Outcome
    <3> HIDE DEF verdicts
    <3>3. FirstFault(verdicts) = "ok"
      BY <3>1, NoFault
    <3>4. QED
      BY <1>1, <3>2, <3>3 DEF IInv, ClickInv
  <2>7. Saved(fs) = messages
    <3>1. \A q \in Places(fs) : CanCreate[MessageAt(fs, q)]
      BY <2>1, <2>4 DEF messages
    <3>2. {p \in Places(fs) : \A q \in Places(fs) : ~CanCreate[MessageAt(fs, q)] => Before(p, q)} = Places(fs)
      BY <3>1
    <3>3. QED
      BY <3>2 DEF Saved, messages
  <2>8. QED
    BY <2>6, <2>7
<1>2. IInv => CompleteIsSaved
  BY <1>1
<1>3. QED
  BY <1>2, InductiveInvariant, PTL
=============================================================================
