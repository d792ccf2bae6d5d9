-------------------------- MODULE CreateFromFiles --------------------------
(***************************************************************************)
(* Making a TPEG file from JSON files: the page reads the files a user     *)
(* chooses, checks their messages, and posts them; the service makes the   *)
(* messages it can, writes them under a name taken from the clock, and     *)
(* answers with the URL, which the page opens.  Reads end at any time,     *)
(* clicks overlap, and two requests may be given one name.                 *)
(***************************************************************************)
EXTENDS Integers, Sequences, SequencesExt

CONSTANTS
    Messages,
    Checked,            \* message -> what the page's check makes of it
    CanCreate,          \* message -> whether the service can make it
    IsComplete,         \* message -> whether it is as the templates describe it
    Content,            \* file -> its kind (array, other, malformed) and its messages
    Libraries,          \* the sets of files a user may have
    Tries,              \* library -> how often its user chooses files, and clicks
    MaxClock

AllFiles == UNION Libraries

(* FileTemplate has the check, what the service reads, and the templates. *)
ASSUME ContentAssumption ==
    /\ Checked \in [Messages -> {"ok", "refused", "thrown"}]
    /\ CanCreate \in [Messages -> BOOLEAN] /\ IsComplete \in [Messages -> BOOLEAN]
    /\ \A f \in AllFiles : /\ Content[f].kind \in {"array", "other", "malformed"}
                           /\ Content[f].messages \in Seq(Messages)
    /\ Tries \in [Libraries -> Nat] /\ MaxClock \in Nat

VARIABLES
    library,
    selects,        \* how often the user has chosen files
    selection,      \* the files chosen last
    reading,        \* reads under way: file, and which choice asked for it
    filestrarray,   \* files read, in the order their names came
    mixed,          \* history: a read of an earlier choice was under way, or a read failed
    click,          \* the last click: the files it saw and what became of it
    jobs,           \* accepted clicks, with their requests
    clock,          \* milliseconds
    disk,           \* name -> the job whose file is under it, or 0
    data            \* file of a job -> jobs whose bytes are in it

files == <<library, selects, selection, reading, filestrarray, mixed>>
vars  == <<files, click, jobs, clock, disk, data>>

NoClick == [files |-> <<>>, outcome |-> "none"]

Init == /\ library \in Libraries
        /\ selects = 0 /\ selection = {} /\ reading = {} /\ filestrarray = <<>> /\ mixed = FALSE
        /\ click = NoClick /\ jobs = <<>>
        /\ clock = 0 /\ disk = [name \in 0..MaxClock |-> 0]
        /\ data = [j \in 1..Tries[library] |-> {}]

-----------------------------------------------------------------------------
(* The page.                                                               *)

filestrarrayKept == filestrarray

filestrarrayCleared == <<>>

(* Reads of an earlier choice go on, and will end in the new array. *)
do_jsonfiles_init(chosen) ==
    /\ selects < Tries[library]
    /\ selects' = selects + 1
    /\ selection' = chosen
    /\ filestrarray' = filestrarrayCleared
    /\ reading' = reading \union {<<f, selects'>> : f \in chosen}
    /\ mixed' = (reading # {})
    /\ UNCHANGED <<library, click, jobs, clock, disk, data>>

Pushed(f) == Append(filestrarray, f)

\* the texts are kept by name
Stored(f) == IF Contains(filestrarray, f) THEN filestrarray ELSE Append(filestrarray, f)

onload(read) ==
    /\ reading' = reading \ {read}
    /\ filestrarray' = Stored(read[1])
    /\ UNCHANGED <<library, selects, selection, mixed, click, jobs, clock, disk, data>>

onerror(read) ==
    /\ reading' = reading \ {read}
    /\ mixed' = TRUE
    /\ UNCHANGED <<library, selects, selection, filestrarray, click, jobs, clock, disk, data>>

FirstFault(verdicts) ==
    LET faulty == {i \in DOMAIN verdicts : verdicts[i] # "ok"}
    IN IF faulty = {} THEN "ok" ELSE verdicts[CHOOSE i \in faulty : \A k \in faulty : i <= k]

(* validate_msg, after JSON.parse: stops at the first faulty message *)
validate_msg(f) ==
    LET messages == Content[f].messages
    IN CASE Content[f].kind = "malformed" -> "thrown"
         [] Content[f].kind = "other"     -> "refused"
         [] OTHER -> FirstFault([i \in DOMAIN messages |-> Checked[messages[i]]])

Verdict == [f \in AllFiles |-> validate_msg(f)]

(* No files at all are as good as any: the length of an object is          *)
(* undefined.  What is posted later is what was read by now.               *)
do_create_tpegfile ==
    LET verdict == FirstFault([i \in DOMAIN filestrarray |-> Verdict[filestrarray[i]]])
    IN /\ Len(jobs) < Tries[library]
       /\ click' = [files |-> filestrarray, outcome |-> IF verdict = "ok" THEN "posted" ELSE verdict]
       /\ jobs' = IF verdict # "ok" THEN jobs
                  ELSE Append(jobs, [stage |-> "timer", files |-> filestrarray, chosen |-> selection,
                                     settled |-> reading = {} /\ ~mixed,
                                     at |-> -1, into |-> 0, got |-> {}])
       /\ UNCHANGED <<files, clock, disk, data>>

-----------------------------------------------------------------------------
(* The timers of the page and the request of a job.                        *)

unchangedByJobs == UNCHANGED <<files, click, clock>>

At(j, stage) == jobs[j].stage = stage
Goes(j, stage) == jobs' = [jobs EXCEPT ![j].stage = stage]

Post(j) == At(j, "timer") /\ Goes(j, "posted") /\ UNCHANGED <<disk, data>> /\ unchangedByJobs

NameInSeconds(time) == time \div 2

NameAt(time) == time

FileOf(j) == NameAt(jobs[j].at)

(* query, to the name of the file *)
Name(j) == /\ At(j, "posted")
           /\ jobs' = [jobs EXCEPT ![j].stage = "named", ![j].at = clock]
           /\ UNCHANGED <<disk, data>> /\ unchangedByJobs

(* saveTpegFile: delete, createNewFile, opening the stream (which empties  *)
(* the file, or makes it again), writing.  A deleted file goes on to be    *)
(* written by whoever has it open.                                         *)
Delete(j) == /\ At(j, "named") /\ Goes(j, "deleted")
             /\ disk' = [disk EXCEPT ![FileOf(j)] = 0]
             /\ UNCHANGED data /\ unchangedByJobs

Opened(j) == IF disk[FileOf(j)] = 0 THEN j ELSE disk[FileOf(j)]

CreateNewFile(j) == /\ At(j, "deleted") /\ Goes(j, "created")
                    /\ disk' = [disk EXCEPT ![FileOf(j)] = Opened(j)]
                    /\ UNCHANGED data /\ unchangedByJobs

Open(j) == /\ At(j, "created")
           /\ jobs' = [jobs EXCEPT ![j].stage = "open", ![j].into = Opened(j)]
           /\ disk' = [disk EXCEPT ![FileOf(j)] = Opened(j)]
           /\ data' = [data EXCEPT ![Opened(j)] = {}]
           /\ unchangedByJobs

Write(j) == /\ At(j, "open") /\ Goes(j, "written")
            /\ data' = [data EXCEPT ![jobs[j].into] = @ \union {j}]
            /\ UNCHANGED disk /\ unchangedByJobs

(* Any Throwable in saveTpegFile gives the empty URL. *)
Fail(j) == /\ jobs[j].stage \in {"posted", "named", "deleted", "created", "open"}
           /\ Goes(j, "failed") /\ UNCHANGED <<disk, data>> /\ unchangedByJobs

(* window.location.href = result, a second after the answer *)
Download(j) ==
    /\ At(j, "written")
    /\ jobs' = [jobs EXCEPT ![j].stage = "done",
                            ![j].got = IF disk[FileOf(j)] = 0 THEN {} ELSE data[disk[FileOf(j)]]]
    /\ UNCHANGED <<disk, data>> /\ unchangedByJobs

Tick == /\ clock < MaxClock /\ clock' = clock + 1
        /\ UNCHANGED <<files, click, jobs, disk, data>>

(* The messages in the file that is made of fs: those before the first     *)
(* that fails.  The failure is caught outside the loop and the file is     *)
(* saved all the same.                                                     *)
Places(fs) == UNION {{i} \X DOMAIN Content[fs[i]].messages : i \in DOMAIN fs}

MessageAt(fs, p) == Content[fs[p[1]]].messages[p[2]]

Before(p, q) == p[1] < q[1] \/ (p[1] = q[1] /\ p[2] < q[2])

Saved(fs) == {MessageAt(fs, p) : p \in {p \in Places(fs) :
                  \A q \in Places(fs) : ~CanCreate[MessageAt(fs, q)] => Before(p, q)}}

Job(j) == Post(j) \/ Name(j) \/ Delete(j) \/ CreateNewFile(j) \/ Open(j) \/ Write(j) \/ Fail(j) \/ Download(j)

Next == \/ \E chosen \in SUBSET library : do_jsonfiles_init(chosen)
        \/ \E read \in reading : onload(read) \/ onerror(read)
        \/ do_create_tpegfile
        \/ \E j \in DOMAIN jobs : Job(j)
        \/ Tick

Spec == Init /\ [][Next]_vars

-----------------------------------------------------------------------------
(* The state: files under the names taken, each with bytes of jobs that    *)
(* were given its name; nothing is read that was not chosen.               *)
TypeOK ==
    /\ IsInjective(filestrarray) /\ ToSet(filestrarray) \subseteq library
    /\ \A read \in reading : read[1] \in library /\ read[2] \in 1..selects
    /\ \A j \in DOMAIN data : \A k \in data[j] : k \in DOMAIN jobs /\ FileOf(k) = FileOf(j)
    /\ \A name \in DOMAIN disk : disk[name] # 0 => FileOf(disk[name]) = name

(* Files of complete messages, as the templates of the page describe them, *)
(* are accepted, and all their messages are in the file that is made.  Of  *)
(* other files that are accepted the service may keep a part only, and     *)
(* says nothing of it: the page does not miss a required field, takes null *)
(* for an object, and looks at the last element of an array alone.         *)
CompleteIsSaved ==
    LET messages == {MessageAt(click.files, p) : p \in Places(click.files)}
    IN /\ \A i \in DOMAIN click.files : Content[click.files[i]].kind = "array"
       /\ \A m \in messages : IsComplete[m]
       => /\ click.outcome \in {"none", "posted"}
          /\ Saved(click.files) = messages

(* A click posts the files chosen last, all of them and no others, if      *)
(* every read asked for by then has ended well.                            *)
PostedFromSelection ==
    \A j \in DOMAIN jobs :
        jobs[j].settled => ToSet(jobs[j].files) = jobs[j].chosen

(* The URL of an answer serves the bytes of its own request, unless        *)
(* another request was saved in the same millisecond: names have no other  *)
(* part that tells requests apart, and nothing waits between them.         *)
ServesOwn ==
    \A j \in DOMAIN jobs :
        At(j, "done") /\ (\A k \in DOMAIN jobs \ {j} : jobs[k].at # jobs[j].at)
        => jobs[j].got = {j}
=============================================================================
