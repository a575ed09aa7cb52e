--------------------------- MODULE UploadRegistry ---------------------------
(***************************************************************************)
(* Uploads: the registry file packages/uploads/storage.py keeps and the    *)
(* three kinds of process that rewrite it.                                 *)
(*                                                                         *)
(* POST /uploads is an async handler without an await after the file is    *)
(* read, so one upload at a time runs on the event loop; POST .../process  *)
(* runs in the API's thread pool; each Dagster run is a process of its     *)
(* own.  Every change of a status loads the whole registry, edits its copy *)
(* and writes it back through the one file _registry.tmp.  The meta.json   *)
(* sidecars are left out: nothing reads them.                              *)
(***************************************************************************)
EXTENDS Naturals, FiniteSets

CONSTANTS
    Loop,        \* the event loop of the API
    Threads,     \* request threads of the API
    Runs,        \* Dagster runs of upload_to_gold_job, bound: each starts once
    Uploads,     \* upload ids
    MaxFaults    \* bound: restarts, runs that die, conversions that raise

API == {Loop} \union Threads
Actors == API \union Runs

ASSUME UploadAssumption ==
    /\ Loop \notin Threads /\ API \intersect Runs = {}
    /\ Uploads # {}
    /\ MaxFaults \in Nat

VARIABLES
    reg,       \* _registry.json
    tmp,       \* _registry.tmp
    dirs,      \* uploads with a directory
    parquet,   \* uploads with <bronze_table>.parquet on disk
    ran,       \* history: uploads a run brought through Gold
    pc,        \* next step of each actor
    upload,    \* the upload it works on
    want,      \* the status it is writing
    after,     \* where it goes on once the registry is saved
    copy,      \* the records it loaded
    handle,    \* the file it has open for writing
    raced,     \* history: two saves of the registry have overlapped
    faults

files == <<reg, tmp>>
disk == <<dirs, parquet, ran>>
work == <<upload, want, after, copy, handle>>
vars == <<reg, tmp, dirs, parquet, ran, pc, upload, want, after, copy, handle, raced, faults>>

Status == {"uploaded", "converted", "processing", "done", "failed"}
Records == [Uploads -> Status \union {"absent"}]
NoRecords == [u \in Uploads |-> "absent"]

\* "garbage": one text written over a longer one
File == [text : {"none", "empty", "garbage", "json"}, records : Records]
Absent == [text |-> "none", records |-> NoRecords]
Empty == [text |-> "empty", records |-> NoRecords]
Garbage == [text |-> "garbage", records |-> NoRecords]
Json(rs) == [text |-> "json", records |-> rs]

PC == {"idle", "unstarted", "ended", "load", "open", "write", "replace",
       "convert", "get", "launch", "check", "bronze", "medallion"}

TypeOK ==
    /\ reg \in File /\ tmp \in File
    /\ dirs \in SUBSET Uploads /\ parquet \in SUBSET Uploads /\ ran \in SUBSET Uploads
    /\ pc \in [Actors -> PC]
    /\ upload \in [Actors -> Uploads]
    /\ want \in [Actors -> Status]
    /\ after \in [Actors -> PC]
    /\ copy \in [Actors -> Records]
    /\ handle \in [Actors -> {"none", "tmp", "reg", "gone"}]
    /\ raced \in BOOLEAN
    /\ faults \in 0..MaxFaults

Init ==
    /\ reg = Absent /\ tmp = Absent
    /\ dirs = {} /\ parquet = {} /\ ran = {}
    /\ pc = [a \in Actors |-> IF a \in Runs THEN "unstarted" ELSE "idle"]
    /\ upload = [a \in Actors |-> CHOOSE u \in Uploads : TRUE]
    /\ want = [a \in Actors |-> "uploaded"]
    /\ after = [a \in Actors |-> "idle"]
    /\ copy = [a \in Actors |-> NoRecords]
    /\ handle = [a \in Actors |-> "none"]
    /\ raced = FALSE
    /\ faults = 0

-----------------------------------------------------------------------------
(* Rewriting the registry: record_upload and update_upload_status.         *)

Goto(a, p) == pc' = [pc EXCEPT ![a] = p]

\* where an actor is when it has nothing left to do
End(a) == IF a \in Runs THEN "ended" ELSE "idle"

\* mutant: two arguments are swapped
MarkSwapped(a, s, p) ==
    /\ Goto(a, "load")
    /\ want' = [want EXCEPT ![a] = p]
    /\ after' = [after EXCEPT ![a] = p]
    /\ UNCHANGED <<files, upload, copy, handle>>

\* a calls record_upload or update_upload_status with status s and goes on at p
Mark(a, s, p) ==
    /\ Goto(a, "load")
    /\ want' = [want EXCEPT ![a] = s]
    /\ after' = [after EXCEPT ![a] = p]
    /\ UNCHANGED <<files, upload, copy, handle>>

\* _load_registry: no file, or one that does not parse, is an empty registry
Loaded == reg.records

\* mutant: the other records are not kept
LoadNothing(a) ==
    /\ pc[a] = "load"
    /\ Goto(a, "open")
    /\ copy' = [copy EXCEPT ![a] = [NoRecords EXCEPT ![upload[a]] = want[a]]]
    /\ UNCHANGED <<files, disk, upload, want, after, handle>>

\* the edit of the loaded copy; an update of an unknown upload saves nothing
Load(a) ==
    /\ pc[a] = "load"
    /\ IF want[a] # "uploaded" /\ Loaded[upload[a]] = "absent"
       THEN Goto(a, after[a]) /\ UNCHANGED copy
       ELSE /\ Goto(a, "open")
            /\ copy' = [copy EXCEPT ![a] = [Loaded EXCEPT ![upload[a]] = want[a]]]
    /\ UNCHANGED <<files, disk, upload, want, after, handle>>

\* mutant: the registry is written in place
OpenRegistry(a) ==
    /\ pc[a] = "open"
    /\ reg' = Empty
    /\ handle' = [handle EXCEPT ![a] = "reg"]
    /\ Goto(a, "write")
    /\ UNCHANGED <<tmp, disk, upload, want, after, copy>>

\* write_text truncates the file ...
OpenTmp(a) ==
    /\ pc[a] = "open"
    /\ tmp' = Empty
    /\ handle' = [handle EXCEPT ![a] = "tmp"]
    /\ Goto(a, "write")
    /\ UNCHANGED <<reg, disk, upload, want, after, copy>>

\* ... and writes from its start; over another text the end of that may remain
Written(f, rs) == {Json(rs)} \union (IF f.text = "empty" THEN {} ELSE {Garbage})

WriteTmp(a) ==
    /\ pc[a] = "write"
    /\ IF handle[a] = "tmp" THEN tmp' \in Written(tmp, copy[a]) ELSE UNCHANGED tmp
    /\ IF handle[a] = "reg" THEN reg' \in Written(reg, copy[a]) ELSE UNCHANGED reg
    /\ handle' = [handle EXCEPT ![a] = "none"]
    /\ copy' = [copy EXCEPT ![a] = NoRecords]
    /\ Goto(a, "replace")
    /\ UNCHANGED <<disk, upload, want, after>>

\* tmp.replace: whoever still has the file open now writes into the registry
Replace(a) ==
    /\ pc[a] = "replace" /\ tmp.text # "none"
    /\ reg' = tmp
    /\ tmp' = Absent
    /\ handle' = [b \in Actors |-> CASE handle[b] = "tmp" -> "reg"
                                     [] handle[b] = "reg" -> "gone"
                                     [] OTHER -> handle[b]]
    /\ Goto(a, after[a])
    /\ UNCHANGED <<disk, upload, want, after, copy>>

\* another actor has renamed the file: FileNotFoundError ends the request or run
ReplaceMisses(a) ==
    /\ pc[a] = "replace" /\ tmp.text = "none"
    /\ Goto(a, End(a))
    /\ UNCHANGED <<files, disk, work>>

-----------------------------------------------------------------------------
(* POST /uploads and POST /uploads/{id}/process.                           *)

\* mutant: an upload id is given twice
ReceiveAgain(u) ==
    /\ pc[Loop] = "idle"
    /\ dirs' = dirs \union {u}
    /\ upload' = [upload EXCEPT ![Loop] = u]
    /\ want' = [want EXCEPT ![Loop] = "uploaded"]
    /\ after' = [after EXCEPT ![Loop] = "convert"]
    /\ Goto(Loop, "load")
    /\ UNCHANGED <<files, parquet, ran, copy, handle>>

Receive(u) ==
    /\ pc[Loop] = "idle" /\ u \notin dirs
    /\ dirs' = dirs \union {u}
    /\ upload' = [upload EXCEPT ![Loop] = u]
    /\ want' = [want EXCEPT ![Loop] = "uploaded"]
    /\ after' = [after EXCEPT ![Loop] = "convert"]
    /\ Goto(Loop, "load")
    /\ UNCHANGED <<files, parquet, ran, copy, handle>>

\* the worksheet becomes Parquet, or a ConversionError says what to fix
Convert ==
    /\ pc[Loop] = "convert"
    /\ \/ parquet' = parquet \union {upload[Loop]} /\ Mark(Loop, "converted", "idle")
       \/ parquet' = parquet /\ Mark(Loop, "failed", "idle")
    /\ UNCHANGED <<dirs, ran>>

\* a client asks for an upload it has seen in the list
Ask(t, u) ==
    /\ pc[t] = "idle" /\ u \in dirs
    /\ upload' = [upload EXCEPT ![t] = u]
    /\ Goto(t, "get")
    /\ UNCHANGED <<files, disk, want, after, copy, handle>>

\* mutant: the status is not checked
GetAny(t) ==
    /\ pc[t] = "get"
    /\ Goto(t, IF Loaded[upload[t]] # "absent" THEN "launch" ELSE "idle")
    /\ UNCHANGED <<files, disk, work>>

Get(t) ==
    /\ pc[t] = "get"
    /\ Goto(t, IF Loaded[upload[t]] \in {"converted", "done", "failed"}
               THEN "launch" ELSE "idle")
    /\ UNCHANGED <<files, disk, work>>

\* Dagster answers with the run id: the upload is marked after the launch
Launch(t) ==
    /\ pc[t] = "launch"
    /\ \E r \in Runs :
         /\ pc[r] = "unstarted"
         /\ pc' = [pc EXCEPT ![r] = "check", ![t] = "load"]
         /\ upload' = [upload EXCEPT ![r] = upload[t]]
    /\ want' = [want EXCEPT ![t] = "processing"]
    /\ after' = [after EXCEPT ![t] = "idle"]
    /\ UNCHANGED <<files, disk, copy, handle>>

\* Dagster is unreachable or refuses; a request that timed out may have started a run
LaunchFails(t) ==
    /\ pc[t] = "launch"
    /\ \/ Goto(t, "idle") /\ UNCHANGED upload
       \/ \E r \in Runs :
            /\ pc[r] = "unstarted"
            /\ pc' = [pc EXCEPT ![r] = "check", ![t] = "idle"]
            /\ upload' = [upload EXCEPT ![r] = upload[t]]
    /\ UNCHANGED <<files, disk, want, after, copy, handle>>

-----------------------------------------------------------------------------
(* upload_to_gold_job.                                                     *)

\* an unknown upload or a missing Parquet file fails the run and marks nothing
Check(r) ==
    /\ pc[r] = "check"
    /\ Goto(r, IF Loaded[upload[r]] # "absent" /\ upload[r] \in parquet
               THEN "bronze" ELSE "ended")
    /\ UNCHANGED <<files, disk, work>>

\* the loader succeeds, or its exit code or an exception marks the upload failed
LoadBronze(r) ==
    /\ pc[r] = "bronze"
    /\ \/ Goto(r, "medallion") /\ UNCHANGED <<files, work>>
       \/ Mark(r, "failed", "ended")
    /\ UNCHANGED disk

\* mutant: the mark does not depend on Gold
MarksAnyway(r) ==
    /\ pc[r] = "medallion"
    /\ Mark(r, "done", "ended")
    /\ UNCHANGED disk

\* Silver and Gold; when one fails op_mark_upload_done is never reached
Medallion(r) ==
    /\ pc[r] = "medallion"
    /\ \/ ran' = ran \union {upload[r]} /\ Mark(r, "done", "ended")
       \/ Goto(r, "ended") /\ UNCHANGED <<files, work, ran>>
    /\ UNCHANGED <<dirs, parquet>>

-----------------------------------------------------------------------------
(* Failures.                                                               *)

Fails == faults < MaxFaults /\ faults' = faults + 1

\* PyArrow rejects a value _coerce_cell let through: HTTP 500, no mark
ConvertRaises ==
    /\ Fails
    /\ pc[Loop] = "convert"
    /\ Goto(Loop, "idle")
    /\ UNCHANGED <<files, disk, work>>

\* the API process dies; files stay as they are
Restart ==
    /\ Fails
    /\ pc' = [a \in Actors |-> IF a \in API THEN "idle" ELSE pc[a]]
    /\ handle' = [a \in Actors |-> IF a \in API THEN "none" ELSE handle[a]]
    /\ copy' = [a \in Actors |-> IF a \in API THEN NoRecords ELSE copy[a]]
    /\ UNCHANGED <<files, disk, upload, want, after>>

RunDies(r) ==
    /\ Fails
    /\ pc[r] \notin {"unstarted", "ended"}
    /\ Goto(r, "ended")
    /\ handle' = [handle EXCEPT ![r] = "none"]
    /\ copy' = [copy EXCEPT ![r] = NoRecords]
    /\ UNCHANGED <<files, disk, upload, want, after>>

-----------------------------------------------------------------------------
Save(a) == Load(a) \/ OpenTmp(a) \/ WriteTmp(a) \/ Replace(a) \/ ReplaceMisses(a)

Step ==
    \/ /\ \/ \E a \in Actors : Save(a)
          \/ \E u \in Uploads : Receive(u)
          \/ Convert
          \/ \E t \in Threads : \/ \E u \in Uploads : Ask(t, u)
                                \/ Get(t) \/ Launch(t) \/ LaunchFails(t)
          \/ \E r \in Runs : Check(r) \/ LoadBronze(r) \/ Medallion(r)
       /\ UNCHANGED faults
    \/ ConvertRaises \/ Restart
    \/ \E r \in Runs : RunDies(r)

\* between its load of the registry and its rename of the file
Saving(a) == pc[a] \in {"open", "write", "replace"}
Overlap == \E a, b \in Actors : a # b /\ Saving(a) /\ Saving(b)

Next == Step /\ raced' = (raced \/ Overlap')

Spec == Init /\ [][Next]_vars
-----------------------------------------------------------------------------
(* Properties.                                                             *)

Quiet == \A a \in Actors : pc[a] \in {"idle", "unstarted", "ended"}

\* A status is earned whatever the interleaving: 'converted' has its Parquet file,
\* 'done' was brought through Gold by a run, 'processing' had a run launched.  A lost
\* or repeated write may put an older status back but never one that was not true.
StatusEarned ==
    \A u \in Uploads :
      /\ Loaded[u] = "converted" => u \in parquet
      /\ Loaded[u] = "done" => u \in ran /\ u \in parquet
      /\ Loaded[u] = "processing" => \E r \in Runs : pc[r] # "unstarted" /\ upload[r] = u

RegistryReadable == reg.text \in {"none", "json"}

\* "Atomic file writes (tmp + rename) give us safety against half-writes", and
\* _registry.json holds "all uploads": as long as no two saves have overlapped a reader
\* never meets a text that does not parse, and finds every upload that was converted,
\* whichever processes wrote and died in the middle of writing (_save_registry).
AllUploadsListed == ~raced => RegistryReadable /\ \A u \in parquet : Loaded[u] # "absent"

\* As long as no two saves have overlapped, a save changes the entry it is about and no
\* other, and moves it along the life of an upload: the registry is a map with atomic
\* updates, which UploadMap specifies.
Map == INSTANCE UploadMap WITH records <- Loaded
ImplementsMap == Map!Init /\ [][raced' \/ Map!Next]_Loaded

\* 'processing' means "Dagster job in flight": with nothing in flight no upload
\* is left in it (process_upload, upload_to_gold_job).
ProcessingInFlight == Quiet => \A u \in Uploads : Loaded[u] # "processing"
============================================================================
