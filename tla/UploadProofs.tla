---------------------------- MODULE UploadProofs ----------------------------
(***************************************************************************)
(* Theorems about UploadRegistry: for every set of uploads, threads and    *)
(* Dagster runs and any number of failures; then what holds until two      *)
(* saves of the registry overlap.                                          *)
(***************************************************************************)
EXTENDS UploadRegistry, TLAPS

-----------------------------------------------------------------------------
(* Typing.                                                                 *)

LEMMA FilesTyped ==
    /\ Absent \in File /\ Empty \in File /\ Garbage \in File
    /\ \A rs \in Records : Json(rs) \in File
BY DEF Absent, Empty, Garbage, Json, File, NoRecords, Records

LEMMA InitTyped == Init => TypeOK
<1> SUFFICES ASSUME Init PROVE TypeOK
  OBVIOUS
<1>1. (CHOOSE u \in Uploads : TRUE) \in Uploads
  BY UploadAssumption
<1>2. NoRecords \in Records
  BY DEF NoRecords, Records
<1>3. raced \in BOOLEAN
  BY DEF Init
<1> QED
  BY <1>1, <1>2, <1>3, FilesTyped, UploadAssumption DEF Init, TypeOK, PC, Status

LEMMA MarkTyped ==
    ASSUME TypeOK, NEW a \in Actors, NEW s \in Status, NEW p \in PC, Mark(a, s, p),
           UNCHANGED <<ran, dirs, faults>>, parquet' \in SUBSET Uploads, raced' \in BOOLEAN
    PROVE  TypeOK'
BY DEF TypeOK, Mark, Goto, files, PC

LEMMA SaveTyped ==
    ASSUME TypeOK, UNCHANGED faults, raced' \in BOOLEAN, NEW a \in Actors, Save(a)
    PROVE  TypeOK'
<1> USE DEF TypeOK
<1>0. NoRecords \in Records
  BY DEF NoRecords, Records
<1>1. CASE Load(a)
  <2>1. reg.records \in Records
    BY DEF File
  <2>2. [Loaded EXCEPT ![upload[a]] = want[a]] \in Records
    BY <2>1 DEF Loaded, Records
  <2> QED
    BY <1>1, <2>2 DEF Load, Goto, files, disk, PC
<1>2. CASE OpenTmp(a)
  BY <1>2, FilesTyped DEF OpenTmp, Goto, disk, PC
<1>3. CASE WriteTmp(a)
  <2>1. \A f \in File : Written(f, copy[a]) \subseteq File
    BY FilesTyped DEF Written
  <2>2. reg' \in File /\ tmp' \in File
    BY <1>3, <2>1 DEF WriteTmp
  <2> QED
    BY <1>0, <1>3, <2>2 DEF WriteTmp, Goto, disk, PC
<1>4. CASE Replace(a)
  <2>1. handle' \in [Actors -> {"none", "tmp", "reg", "gone"}]
    BY <1>4 DEF Replace
  <2> QED
    BY <1>4, <2>1, FilesTyped DEF Replace, Goto, disk
<1>5. CASE ReplaceMisses(a)
  BY <1>5 DEF ReplaceMisses, Goto, End, files, disk, work, PC
<1> QED
  BY <1>1, <1>2, <1>3, <1>4, <1>5 DEF Save

LEMMA RequestTyped ==
    ASSUME TypeOK, UNCHANGED faults, raced' \in BOOLEAN,
           \/ \E u \in Uploads : Receive(u)
           \/ Convert
           \/ \E t \in Threads : (\E u \in Uploads : Ask(t, u)) \/ Get(t) \/ Launch(t) \/ LaunchFails(t)
    PROVE  TypeOK'
<1> USE DEF TypeOK
<1>0. Loop \in Actors /\ Threads \subseteq Actors /\ Runs \subseteq Actors
  BY DEF Actors, API
<1>1. CASE \E u \in Uploads : Receive(u)
  BY <1>0, <1>1 DEF Receive, Goto, files, PC, Status
<1>2. CASE Convert
  <2>1. parquet' \in SUBSET Uploads /\ UNCHANGED <<dirs, ran>>
    BY <1>0, <1>2 DEF Convert
  <2>2. Mark(Loop, "converted", "idle") \/ Mark(Loop, "failed", "idle")
    BY <1>2 DEF Convert
  <2> QED
    BY <1>0, <2>1, <2>2, MarkTyped DEF Status, PC
<1>3. ASSUME NEW t \in Threads, (\E u \in Uploads : Ask(t, u)) \/ Get(t)
      PROVE  TypeOK'
  BY <1>0, <1>3 DEF Ask, Get, Goto, files, disk, work, PC
<1>4. ASSUME NEW t \in Threads, Launch(t) \/ LaunchFails(t)
      PROVE  TypeOK'
  BY <1>0, <1>4 DEF Launch, LaunchFails, Goto, files, disk, PC, Status
<1> QED
  BY <1>1, <1>2, <1>3, <1>4

LEMMA RunTyped ==
    ASSUME TypeOK, UNCHANGED faults, raced' \in BOOLEAN, NEW r \in Runs,
           Check(r) \/ LoadBronze(r) \/ Medallion(r)
    PROVE  TypeOK'
<1> USE DEF TypeOK
<1>0. r \in Actors
  BY DEF Actors
<1>1. CASE Check(r)
  BY <1>0, <1>1 DEF Check, Goto, files, disk, work, PC
<1>2. CASE LoadBronze(r)
  <2>1. CASE Mark(r, "failed", "ended")
    BY <1>0, <1>2, <2>1, MarkTyped DEF LoadBronze, disk, Status, PC
  <2>2. CASE Goto(r, "medallion") /\ UNCHANGED <<files, work>>
    BY <1>0, <1>2, <2>2 DEF LoadBronze, Goto, files, disk, work, PC
  <2> QED
    BY <1>2, <2>1, <2>2 DEF LoadBronze
<1>3. CASE Medallion(r)
  <2>1. ran' \in SUBSET Uploads /\ UNCHANGED <<dirs, parquet>>
    BY <1>0, <1>3 DEF Medallion
  <2> QED
    BY <1>0, <1>3, <2>1 DEF Medallion, Mark, Goto, files, work, PC, Status
<1> QED
  BY <1>1, <1>2, <1>3

LEMMA FaultTyped ==
    ASSUME TypeOK, raced' \in BOOLEAN, ConvertRaises \/ Restart \/ \E r \in Runs : RunDies(r)
    PROVE  TypeOK'
<1> USE DEF TypeOK
<1>0. Loop \in Actors /\ Runs \subseteq Actors /\ NoRecords \in Records
  BY DEF Actors, API, NoRecords, Records
<1>1. faults' \in 0..MaxFaults
  BY UploadAssumption DEF ConvertRaises, Restart, RunDies, Fails
<1>2. CASE ConvertRaises
  BY <1>0, <1>1, <1>2 DEF ConvertRaises, Goto, files, disk, work, PC
<1>3. CASE Restart
  BY <1>0, <1>1, <1>3 DEF Restart, files, disk, PC
<1>4. ASSUME NEW r \in Runs, RunDies(r)
      PROVE  TypeOK'
  BY <1>0, <1>1, <1>4 DEF RunDies, Goto, files, disk, PC
<1> QED
  BY <1>2, <1>3, <1>4

\* Every behaviour is well typed: the registry file holds nothing, a half-written
\* text or a map from uploads to known statuses, and every actor is at a known step.
THEOREM TypeCorrect == Spec => []TypeOK
<1>1. TypeOK /\ [Next]_vars => TypeOK'
  <2> SUFFICES ASSUME TypeOK, [Next]_vars PROVE TypeOK'
    OBVIOUS
  <2>1. CASE UNCHANGED vars
    BY <2>1 DEF vars, TypeOK
  <2>2. Next => Step /\ raced' \in BOOLEAN
    BY DEF Next
  <2> QED
    BY <2>1, <2>2, SaveTyped, RequestTyped, RunTyped, FaultTyped DEF Step
<1> QED
  BY <1>1, InitTyped, PTL DEF Spec

-----------------------------------------------------------------------------
(* A status is earned: what every copy of the registry says of an upload   *)
(* is true, so no order of the writes can make the file say a false thing. *)

\* Status s would be true of upload u.
Earned(u, s) ==
    /\ s = "converted" => u \in parquet
    /\ s = "done" => u \in ran /\ u \in parquet
    /\ s = "processing" => \E r \in Runs : pc[r] # "unstarted" /\ upload[r] = u

AllEarned(rs) == \A u \in Uploads : Earned(u, rs[u])

EarnedInv ==
    /\ AllEarned(reg.records) /\ AllEarned(tmp.records)
    /\ \A a \in Actors : /\ AllEarned(copy[a])
                         /\ pc[a] = "load" => Earned(upload[a], want[a])
                         /\ after[a] \in {"idle", "convert", "ended"}
    /\ \A r \in Runs : pc[r] \in {"bronze", "medallion"} => upload[r] \in parquet

\* Nothing that was true of an upload stops being true.
Stays ==
    /\ parquet \subseteq parquet' /\ ran \subseteq ran'
    /\ \A r \in Runs : pc[r] # "unstarted" => pc'[r] # "unstarted" /\ upload'[r] = upload[r]

LEMMA TruthStays ==
    ASSUME Stays
    PROVE  /\ \A u, s : Earned(u, s) => Earned(u, s)'
           /\ \A rs : AllEarned(rs) => (\A u \in Uploads : Earned(u, rs[u])')
BY DEF Stays, Earned, AllEarned

\* The files and the copies after the step hold only what was true, or still is.
LEMMA NothingRecorded == AllEarned(NoRecords) /\ AllEarned(Empty.records) /\ AllEarned(Garbage.records)
                         /\ AllEarned(Absent.records)
BY DEF AllEarned, Earned, NoRecords, Empty, Garbage, Absent

\* A step of a keeps EarnedInv when what a itself holds afterwards is true.
LEMMA EarnedStep ==
    ASSUME TypeOK, EarnedInv, Stays, NEW a \in Actors,
           \A b \in Actors \ {a} : /\ pc'[b] = pc[b] /\ upload'[b] = upload[b] /\ want'[b] = want[b]
                                   /\ after'[b] = after[b] /\ copy'[b] = copy[b],
           AllEarned(reg.records)', AllEarned(tmp.records)', AllEarned(copy[a])',
           (pc[a] = "load" => Earned(upload[a], want[a]))',
           after'[a] \in {"idle", "convert", "ended"},
           a \in Runs => (pc'[a] \in {"bronze", "medallion"} => upload'[a] \in parquet')
    PROVE  EarnedInv'
<1>1. ASSUME NEW b \in Actors \ {a}
      PROVE  /\ AllEarned(copy[b])' /\ (pc[b] = "load" => Earned(upload[b], want[b]))'
             /\ after'[b] \in {"idle", "convert", "ended"}
  <2>1. AllEarned(copy[b]) => AllEarned(copy[b])'
    BY <1>1, TruthStays DEF AllEarned
  <2>2. Earned(upload[b], want[b]) => Earned(upload[b], want[b])'
    BY <1>1 DEF Stays, Earned
  <2> QED
    BY <1>1, <2>1, <2>2 DEF EarnedInv
<1>2. ASSUME NEW r \in Runs, pc'[r] \in {"bronze", "medallion"}
      PROVE  upload'[r] \in parquet'
  BY <1>2 DEF EarnedInv, Stays, Actors
<1> QED
  BY <1>1, <1>2 DEF EarnedInv

\* What a writes is its copy, or a text that cannot be read.
LEMMA SaveEarned ==
    ASSUME TypeOK, EarnedInv, NEW a \in Actors, Save(a)
    PROVE  EarnedInv'
<1> USE DEF TypeOK
<1>1. /\ UNCHANGED <<disk, upload, want, after>>
      /\ \A b \in Actors \ {a} : pc'[b] = pc[b] /\ copy'[b] = copy[b]
      /\ pc'[a] \in {"open", "write", "replace", "idle", "convert", "ended"}
  <2>1. \E p \in {"open", "write", "replace", "idle", "convert", "ended"} : Goto(a, p)
    BY DEF Save, Load, OpenTmp, WriteTmp, Replace, ReplaceMisses, End, EarnedInv
  <2> QED
    BY <2>1 DEF Save, Load, OpenTmp, WriteTmp, Replace, ReplaceMisses, Goto, work
<1>2. Stays
  BY <1>1 DEF Stays, Actors, disk
<1>3. \A rs : AllEarned(rs) => AllEarned(rs)'
  BY <1>2 DEF Stays, AllEarned, Earned
<1>4. /\ AllEarned(reg.records)' /\ AllEarned(tmp.records)' /\ AllEarned(copy[a])'
  <2>0. /\ AllEarned(reg.records) /\ AllEarned(tmp.records) /\ AllEarned(copy[a])
        /\ AllEarned(NoRecords) /\ AllEarned(Empty.records) /\ AllEarned(Absent.records) /\ AllEarned(Garbage.records)
    BY NothingRecorded DEF EarnedInv
  <2>1. CASE Load(a)
    <3>1. AllEarned(copy'[a])
      <4>1. CASE copy' = copy
        BY <2>0, <4>1
      <4>2. CASE copy'[a] = [Loaded EXCEPT ![upload[a]] = want[a]]
        <5>1. Earned(upload[a], want[a]) /\ Loaded \in Records
          BY <2>1 DEF Load, EarnedInv, Loaded, File
        <5> QED
          BY <2>0, <4>2, <5>1 DEF AllEarned, Loaded, Records
      <4> QED
        BY <2>1, <4>1, <4>2 DEF Load
    <3>2. UNCHANGED files
      BY <2>1 DEF Load
    <3> QED
      BY <1>3, <2>0, <3>1, <3>2 DEF files, AllEarned
  <2>2. CASE OpenTmp(a)
    <3>1. reg' = reg /\ tmp' = Empty /\ copy' = copy
      BY <2>2 DEF OpenTmp
    <3> QED
      BY <1>3, <2>0, <3>1 DEF AllEarned
  <2>3. CASE WriteTmp(a)
    <3>1. \A f, g : g \in Written(f, copy[a]) => g.records \in {copy[a], Garbage.records}
      BY DEF Written, Json
    <3>2. /\ tmp'.records \in {tmp.records, copy[a], Garbage.records}
          /\ reg'.records \in {reg.records, copy[a], Garbage.records}
          /\ copy'[a] = NoRecords
      BY <2>3, <3>1 DEF WriteTmp
    <3> QED
      BY <1>3, <2>0, <3>2 DEF AllEarned
  <2>4. CASE Replace(a)
    <3>1. reg' = tmp /\ tmp' = Absent /\ copy' = copy
      BY <2>4 DEF Replace
    <3> QED
      BY <1>3, <2>0, <3>1 DEF AllEarned
  <2>5. CASE ReplaceMisses(a)
    <3>1. reg' = reg /\ tmp' = tmp /\ copy' = copy
      BY <2>5 DEF ReplaceMisses, files, work
    <3> QED
      BY <1>3, <2>0, <3>1 DEF AllEarned
  <2> QED
    BY <2>1, <2>2, <2>3, <2>4, <2>5 DEF Save
<1> QED
  BY <1>1, <1>2, <1>4, EarnedStep DEF EarnedInv

\* A step that leaves the registry and the copies alone.
LEMMA RegistryLeft ==
    ASSUME Stays, EarnedInv, UNCHANGED <<files, copy>>, NEW a \in Actors
    PROVE  /\ AllEarned(reg.records)' /\ AllEarned(tmp.records)' /\ AllEarned(copy[a])'
<1>1. reg' = reg /\ tmp' = tmp /\ copy' = copy
  BY DEF files
<1>2. \A rs : AllEarned(rs) => AllEarned(rs)'
  BY DEF Stays, AllEarned, Earned
<1> QED
  BY <1>1, <1>2 DEF EarnedInv, AllEarned

\* The event loop marks an upload 'converted' once its Parquet file is on disk.
LEMMA LoopEarned ==
    ASSUME TypeOK, EarnedInv, (\E u \in Uploads : Receive(u)) \/ Convert \/ ConvertRaises
    PROVE  EarnedInv'
<1> USE DEF TypeOK
<1>0. Loop \in Actors /\ Loop \notin Runs
  BY UploadAssumption DEF Actors, API
<1>1. /\ UNCHANGED <<files, copy, ran>> /\ parquet \subseteq parquet'
      /\ \A b \in Actors \ {Loop} : /\ pc'[b] = pc[b] /\ upload'[b] = upload[b]
                                    /\ want'[b] = want[b] /\ after'[b] = after[b]
      /\ after'[Loop] \in {"idle", "convert", "ended"}
  <2>1. CASE \E u \in Uploads : Receive(u)
    BY <1>0, <2>1 DEF Receive, Goto
  <2>2. CASE Convert
    BY <1>0, <2>2 DEF Convert, Mark, Goto
  <2>3. CASE ConvertRaises
    BY <1>0, <2>3 DEF ConvertRaises, Goto, disk, work, EarnedInv
  <2> QED
    BY <2>1, <2>2, <2>3
<1>2. Stays
  BY <1>0, <1>1 DEF Stays, Actors
<1>3. pc'[Loop] = "load" => \/ want'[Loop] \in {"uploaded", "failed"}
                            \/ want'[Loop] = "converted" /\ upload'[Loop] \in parquet'
  <2>1. CASE \E u \in Uploads : Receive(u)
    BY <1>0, <2>1 DEF Receive
  <2>2. CASE Convert
    BY <1>0, <2>2 DEF Convert, Mark
  <2>3. CASE ConvertRaises
    BY <1>0, <2>3 DEF ConvertRaises, Goto
  <2> QED
    BY <2>1, <2>2, <2>3
<1>4. (pc[Loop] = "load" => Earned(upload[Loop], want[Loop]))'
  BY <1>3 DEF Earned
<1>5. UNCHANGED <<files, copy>>
  BY <1>1
<1>6. AllEarned(reg.records)' /\ AllEarned(tmp.records)' /\ AllEarned(copy[Loop])'
  BY <1>0, <1>2, <1>5, RegistryLeft
<1> QED
  BY <1>0, <1>1, <1>2, <1>4, <1>6, EarnedStep

\* A thread asks for 'processing' after it has launched a run of that upload.
LEMMA ThreadEarned ==
    ASSUME TypeOK, EarnedInv, NEW t \in Threads,
           (\E u \in Uploads : Ask(t, u)) \/ Get(t) \/ Launch(t) \/ LaunchFails(t)
    PROVE  EarnedInv'
<1> USE DEF TypeOK
<1>0. t \in Actors /\ t \notin Runs /\ Runs \subseteq Actors
  BY UploadAssumption DEF Actors, API
<1>1. CASE (\E u \in Uploads : Ask(t, u)) \/ Get(t)
  <2>1. /\ UNCHANGED <<files, disk, want, after, copy>>
        /\ pc'[t] \in {"get", "launch", "idle"}
        /\ \A b \in Actors \ {t} : pc'[b] = pc[b] /\ upload'[b] = upload[b]
    BY <1>0, <1>1 DEF Ask, Get, Goto, work
  <2>2. Stays
    BY <1>0, <2>1 DEF Stays, disk
  <2>3. AllEarned(reg.records)' /\ AllEarned(tmp.records)' /\ AllEarned(copy[t])'
    BY <1>0, <2>1, <2>2, RegistryLeft
  <2> QED
    BY <1>0, <2>1, <2>2, <2>3, EarnedStep DEF EarnedInv
<1>2. CASE Launch(t) \/ LaunchFails(t)
  <2>1. /\ UNCHANGED <<files, disk, copy>>
        /\ \A b \in Actors : after'[b] \in {"idle", "convert", "ended"}
        /\ \A b \in Actors \ {t} : want'[b] = want[b]
    BY <1>0, <1>2 DEF Launch, LaunchFails, EarnedInv
  <2>2. \/ pc'[t] = "idle" /\ \A b \in Actors \ {t} : pc'[b] = pc[b] /\ upload'[b] = upload[b]
        \/ \E r \in Runs :
             /\ pc'[r] = "check" /\ upload'[r] = upload[t] /\ pc[r] = "unstarted"
             /\ upload'[t] = upload[t]
             /\ \A b \in Actors \ {t, r} : pc'[b] = pc[b] /\ upload'[b] = upload[b]
             /\ \/ pc'[t] = "idle"
                \/ pc'[t] = "load" /\ want'[t] = "processing"
    <3>1. CASE Launch(t)
      <4>1. PICK r \in Runs :
           /\ pc[r] = "unstarted"
           /\ pc' = [pc EXCEPT ![r] = "check", ![t] = "load"]
           /\ upload' = [upload EXCEPT ![r] = upload[t]]
        BY <3>1 DEF Launch
      <4>2. want'[t] = "processing"
        BY <1>0, <3>1 DEF Launch
      <4>3. r # t /\ r \in Actors
        BY <1>0
      <4>4. /\ pc'[r] = "check" /\ upload'[r] = upload[t] /\ upload'[t] = upload[t] /\ pc'[t] = "load"
            /\ \A b \in Actors \ {t, r} : pc'[b] = pc[b] /\ upload'[b] = upload[b]
        BY <1>0, <4>1, <4>3
      <4> QED
        BY <4>1, <4>2, <4>4
    <3>2. CASE LaunchFails(t)
      <4>1. CASE Goto(t, "idle") /\ UNCHANGED upload
        BY <1>0, <4>1 DEF Goto
      <4>2. ASSUME NEW r \in Runs, pc[r] = "unstarted",
                   pc' = [pc EXCEPT ![r] = "check", ![t] = "idle"],
                   upload' = [upload EXCEPT ![r] = upload[t]]
            PROVE  /\ pc'[r] = "check" /\ upload'[r] = upload[t] /\ upload'[t] = upload[t] /\ pc'[t] = "idle"
                   /\ \A b \in Actors \ {t, r} : pc'[b] = pc[b] /\ upload'[b] = upload[b]
        BY <1>0, <4>2
      <4> QED
        BY <3>2, <4>1, <4>2 DEF LaunchFails
    <3> QED
      BY <1>2, <3>1, <3>2
  <2>3. Stays
    BY <1>0, <2>1, <2>2 DEF Stays, disk
  <2>4. AllEarned(reg.records)' /\ AllEarned(tmp.records)' /\ \A b \in Actors : AllEarned(copy[b])'
    BY <2>1, <2>3, RegistryLeft, <1>0
  <2>5. ASSUME NEW b \in Actors, pc'[b] = "load"
        PROVE  Earned(upload[b], want[b])'
    <3>1. CASE b = t
      BY <1>0, <2>2, <2>5, <3>1 DEF Earned
    <3>2. CASE b # t
      <4>1. pc[b] = "load" /\ upload'[b] = upload[b] /\ want'[b] = want[b]
        BY <2>1, <2>2, <2>5, <3>2
      <4> QED
        BY <2>3, <4>1 DEF EarnedInv, Stays, Earned
    <3> QED
      BY <3>1, <3>2
  <2>6. ASSUME NEW r \in Runs, pc'[r] \in {"bronze", "medallion"}
        PROVE  upload'[r] \in parquet'
    BY <1>0, <2>1, <2>2, <2>6 DEF EarnedInv, disk
  <2> QED
    BY <2>1, <2>4, <2>5, <2>6 DEF EarnedInv
<1> QED
  BY <1>1, <1>2

\* A run marks 'done' after it has brought the upload's Parquet file through Gold.
LEMMA RunEarned ==
    ASSUME TypeOK, EarnedInv, NEW r \in Runs,
           Check(r) \/ LoadBronze(r) \/ Medallion(r) \/ RunDies(r)
    PROVE  EarnedInv'
<1> USE DEF TypeOK
<1>0. r \in Actors
  BY DEF Actors
<1>1. /\ UNCHANGED <<files, upload, parquet>> /\ ran \subseteq ran' /\ pc'[r] # "unstarted"
      /\ \A b \in Actors \ {r} : /\ pc'[b] = pc[b] /\ want'[b] = want[b] /\ after'[b] = after[b]
                                 /\ copy'[b] = copy[b]
      /\ after'[r] \in {"idle", "convert", "ended"} /\ copy'[r] \in {copy[r], NoRecords}
  <2>1. CASE Check(r)
    BY <1>0, <2>1 DEF Check, Goto, disk, work, EarnedInv
  <2>2. CASE LoadBronze(r)
    BY <1>0, <2>2 DEF LoadBronze, Mark, Goto, disk, work, EarnedInv
  <2>3. CASE Medallion(r)
    BY <1>0, <2>3 DEF Medallion, Mark, Goto, work, EarnedInv
  <2>4. CASE RunDies(r)
    BY <1>0, <2>4 DEF RunDies, Goto, disk, EarnedInv
  <2> QED
    BY <2>1, <2>2, <2>3, <2>4
<1>2. Stays
  BY <1>0, <1>1 DEF Stays, Actors
<1>3. AllEarned(reg.records)' /\ AllEarned(tmp.records)' /\ AllEarned(copy[r])'
  <2>1. \A rs : AllEarned(rs) => AllEarned(rs)'
    BY <1>2 DEF Stays, AllEarned, Earned
  <2>2. AllEarned(reg.records) /\ AllEarned(tmp.records) /\ AllEarned(copy[r]) /\ AllEarned(NoRecords)
    BY <1>0, NothingRecorded DEF EarnedInv
  <2> QED
    BY <1>1, <2>1, <2>2 DEF files, AllEarned
<1>4. /\ pc'[r] = "load" => \/ want'[r] = "failed"
                            \/ want'[r] = "done" /\ upload[r] \in ran' /\ upload[r] \in parquet
      /\ pc'[r] \in {"bronze", "medallion"} => upload[r] \in parquet
  <2>1. CASE Check(r)
    BY <1>0, <2>1 DEF Check, Goto
  <2>2. CASE LoadBronze(r)
    BY <1>0, <2>2 DEF LoadBronze, Mark, Goto, EarnedInv
  <2>3. CASE Medallion(r)
    BY <1>0, <2>3 DEF Medallion, Mark, Goto, EarnedInv
  <2>4. CASE RunDies(r)
    BY <1>0, <2>4 DEF RunDies, Goto
  <2> QED
    BY <2>1, <2>2, <2>3, <2>4
<1>5. (pc[r] = "load" => Earned(upload[r], want[r]))'
  BY <1>1, <1>4 DEF Earned
<1> QED
  BY <1>0, <1>1, <1>2, <1>3, <1>4, <1>5, EarnedStep

LEMMA EarnedInductive ==
    /\ Init => EarnedInv
    /\ TypeOK /\ EarnedInv /\ [Next]_vars => EarnedInv'
<1>1. Init => EarnedInv
  <2> SUFFICES ASSUME Init PROVE EarnedInv
    OBVIOUS
  <2>1. \A a \in Actors : copy[a] = NoRecords /\ after[a] = "idle" /\ pc[a] \in {"idle", "unstarted"}
    BY DEF Init
  <2> QED
    BY <2>1, NothingRecorded DEF Init, EarnedInv, Actors
<1>2. ASSUME TypeOK, EarnedInv, [Next]_vars
      PROVE  EarnedInv'
  <2>1. CASE Restart
    <3> USE DEF TypeOK
    <3>1. /\ UNCHANGED <<files, disk, upload, want, after>>
          /\ \A a \in Actors : /\ pc'[a] = pc[a] \/ pc'[a] = "idle"
                               /\ copy'[a] = copy[a] \/ copy'[a] = NoRecords
          /\ \A r \in Runs : pc'[r] = pc[r]
      BY <1>2, <2>1, UploadAssumption DEF Restart, Actors
    <3>2. Stays
      BY <3>1 DEF Stays, disk
    <3>3. \A rs : AllEarned(rs) => AllEarned(rs)'
      BY <3>2 DEF Stays, AllEarned, Earned
    <3>4. AllEarned(reg.records)' /\ AllEarned(tmp.records)'
      BY <1>2, <3>1, <3>3 DEF EarnedInv, files, AllEarned
    <3>5. ASSUME NEW a \in Actors
          PROVE  AllEarned(copy[a])' /\ (pc[a] = "load" => Earned(upload[a], want[a]))'
      <4>1. AllEarned(copy[a])'
        BY <1>2, <3>1, <3>3, NothingRecorded DEF EarnedInv, AllEarned
      <4>2. (pc[a] = "load" => Earned(upload[a], want[a]))'
        BY <1>2, <3>1, <3>2 DEF EarnedInv, Stays, Earned
      <4> QED
        BY <4>1, <4>2
    <3> QED
      BY <1>2, <3>1, <3>4, <3>5 DEF EarnedInv, disk
  <2>2. CASE UNCHANGED vars
    BY <1>2, <2>2 DEF vars, EarnedInv, AllEarned, Earned
  <2> QED
    BY <1>2, <2>1, <2>2, SaveEarned, LoopEarned, ThreadEarned, RunEarned DEF Next, Step
<1> QED
  BY <1>1, <1>2

\* However saves of the registry interleave, are lost, repeated or torn, the file
\* never says of an upload what was not true of it.
THEOREM StatusesAreEarned == Spec => []StatusEarned
<1>1. EarnedInv => StatusEarned
  BY DEF EarnedInv, AllEarned, Earned, StatusEarned, Loaded
<1> QED
  BY <1>1, TypeCorrect, EarnedInductive, PTL DEF Spec

-----------------------------------------------------------------------------
(* While no two saves have overlapped: what the promises of storage.py are *)
(* worth with any number of request threads and runs, restarts, deaths and *)
(* conversions that raise included.                                        *)

\* An upload that has left its conversion behind.
Past == {"converted", "failed", "done", "processing"}

\* The records the save of a will leave.
Saved(a) == [Loaded EXCEPT ![upload[a]] = want[a]]

\* The upload in a's hands, at each step of its save: not recorded before record_upload,
\* 'uploaded' until its conversion is marked, past it when a thread or a run marks it.
InHand(a) ==
    /\ upload[a] \in dirs
    /\ \/ /\ a = Loop /\ want[a] = "uploaded" /\ after[a] = "convert"
          /\ Loaded[upload[a]] = "absent"
       \/ /\ a = Loop /\ want[a] \in {"converted", "failed"} /\ after[a] = "idle"
          /\ Loaded[upload[a]] = "uploaded"
       \/ /\ a \in Threads /\ want[a] = "processing" /\ after[a] = "idle"
          /\ Loaded[upload[a]] \in Past
       \/ /\ a \in Runs /\ want[a] \in {"done", "failed"} /\ after[a] = "ended"
          /\ Loaded[upload[a]] \in Past

\* The temporary file is the saver's own from the moment it is truncated.
OwnFile(a) ==
    /\ pc[a] \in {"open", "write"} => copy[a] = Saved(a)
    /\ pc[a] = "write" => tmp.text = "empty" /\ handle[a] = "tmp"
    /\ pc[a] # "write" => handle[a] = "none"
    /\ pc[a] = "replace" => tmp = Json(Saved(a))

Knows(a) ==
    /\ pc[a] = "load" \/ Saving(a) => InHand(a)
    /\ a = Loop /\ pc[a] = "convert" => Loaded[upload[a]] = "uploaded"
    /\ a \in Threads /\ pc[a] = "launch" => Loaded[upload[a]] \in Past
    /\ a \in Runs /\ pc[a] \in {"check", "bronze", "medallion"} => Loaded[upload[a]] \in Past

Listed ==
    /\ RegistryReadable
    /\ \A u \in Uploads : Loaded[u] # "absent" => u \in dirs
    /\ \A u \in parquet : Loaded[u] # "absent"

Serial == ~Overlap /\ Listed /\ \A a \in Actors : Knows(a) /\ OwnFile(a)

SerialInv == ~raced => Serial

LEMMA SavedEntry ==
    ASSUME TypeOK, NEW a \in Actors
    PROVE  /\ Loaded \in Records /\ Saved(a) \in Records
           /\ Saved(a)[upload[a]] = want[a]
           /\ \A u \in Uploads : u # upload[a] => Saved(a)[u] = Loaded[u]
BY DEF TypeOK, Saved, Loaded, Records, File

\* What an actor knows of its upload stays true when another completes a save of its own.
LEMMA OthersKnow ==
    ASSUME TypeOK, NEW a \in Actors, NEW b \in Actors \ {a}, Knows(b),
           pc'[b] = pc[b], upload'[b] = upload[b], want'[b] = want[b], after'[b] = after[b],
           dirs \subseteq dirs', Loaded' = Loaded \/ (Loaded' = Saved(a) /\ InHand(a))
    PROVE  Knows(b)'
<1>0. upload[b] \in Uploads /\ Loop \notin Threads /\ Loop \notin Runs
  BY UploadAssumption DEF TypeOK, API
<1>1. Loaded'[upload[b]] = Loaded[upload[b]]
      \/ (Loaded[upload[b]] \in Past /\ Loaded'[upload[b]] \in Past)
      \/ (a = Loop /\ Loaded[upload[b]] \notin Past)
  BY <1>0, SavedEntry DEF InHand, Past
<1>2. Loaded[upload[b]] \in Past => Loaded'[upload[b]] \in Past
  BY <1>0, <1>1, SavedEntry DEF InHand, Past
<1>3. b = Loop /\ Loaded[upload[b]] \in {"absent", "uploaded"} => Loaded'[upload[b]] = Loaded[upload[b]]
  BY <1>0, <1>1, SavedEntry DEF InHand, Past
<1> QED
  BY <1>0, <1>2, <1>3 DEF Knows, InHand, Saving

\* No other actor saves: none of them has the file open.
LEMMA OthersOwnNothing ==
    ASSUME Serial, NEW a \in Actors, NEW b \in Actors \ {a}, Saving(a), pc'[b] = pc[b],
           handle'[b] = handle[b]
    PROVE  OwnFile(b)' /\ ~Saving(b) /\ handle[b] = "none"
BY DEF Serial, Overlap, Saving, OwnFile

\* Of the five steps of a save only the rename changes the registry, by one entry.
LEMMA SerialSave ==
    ASSUME TypeOK, Serial, ~Overlap', NEW a \in Actors, Save(a)
    PROVE  /\ Serial'
           /\ Loaded' = Loaded \/ (Loaded' = Saved(a) /\ InHand(a))
<1> USE DEF TypeOK
<1>1. InHand(a) /\ Knows(a) /\ OwnFile(a)
  BY DEF Save, Load, OpenTmp, WriteTmp, Replace, ReplaceMisses, Serial, Knows, Saving
<1>2. /\ UNCHANGED <<dirs, parquet, upload, want, after>>
      /\ \A b \in Actors \ {a} : pc'[b] = pc[b] /\ copy'[b] = copy[b]
  BY DEF Save, Load, OpenTmp, WriteTmp, Replace, ReplaceMisses, Goto, disk, files, work
<1>3. Loop \notin Threads /\ Loop \notin Runs /\ upload[a] \in Uploads
  BY UploadAssumption DEF API
<1>4. CASE Load(a)
  <2>1. UNCHANGED <<reg, tmp, handle>> /\ pc[a] = "load" /\ pc'[a] = "open" /\ copy'[a] = Saved(a)
    BY <1>1, <1>4 DEF Load, Goto, InHand, Saved, Past, files
  <2>2. Loaded' = Loaded /\ Listed'
    BY <1>2, <2>1 DEF Loaded, Serial, Listed, RegistryReadable
  <2>3. Knows(a)' /\ OwnFile(a)'
    BY <1>1, <1>2, <2>1, <2>2 DEF Knows, OwnFile, InHand, Saving, Saved
  <2>4. ASSUME NEW b \in Actors \ {a}
        PROVE  Knows(b)' /\ OwnFile(b)'
    <3>1. Knows(b)'
      BY <1>2, <2>2, OthersKnow DEF Serial
    <3>2. ~Saving(b) /\ handle[b] = "none"
      BY <1>2, <2>1 DEF Overlap, Saving, Serial, OwnFile
    <3>3. OwnFile(b)'
      BY <1>2, <2>1, <3>2 DEF OwnFile, Saving
    <3> QED
      BY <3>1, <3>3
  <2> QED
    BY <2>2, <2>3, <2>4 DEF Serial
<1>5. CASE OpenTmp(a) \/ WriteTmp(a)
  <2>1. /\ UNCHANGED reg /\ Saving(a)
        /\ \A b \in Actors \ {a} : handle'[b] = handle[b]
        /\ \/ pc'[a] = "write" /\ handle'[a] = "tmp" /\ tmp'.text = "empty" /\ copy'[a] = copy[a] /\ pc[a] = "open"
           \/ pc'[a] = "replace" /\ handle'[a] = "none" /\ tmp' = Json(Saved(a))
    <3>1. CASE OpenTmp(a)
      BY <3>1 DEF OpenTmp, Goto, Empty, Saving
    <3>2. CASE WriteTmp(a)
      BY <1>1, <3>2 DEF WriteTmp, Written, Goto, OwnFile, Saving
    <3> QED
      BY <1>5, <3>1, <3>2
  <2>2. Loaded' = Loaded /\ Listed'
    BY <1>2, <2>1 DEF Loaded, Serial, Listed, RegistryReadable
  <2>3. Knows(a)' /\ OwnFile(a)'
    BY <1>1, <1>2, <2>1, <2>2 DEF Knows, OwnFile, InHand, Saving, Saved
  <2>4. ASSUME NEW b \in Actors \ {a}
        PROVE  Knows(b)' /\ OwnFile(b)'
    <3>1. Knows(b)'
      BY <1>2, <2>2, OthersKnow DEF Serial
    <3> QED
      BY <1>2, <2>1, <3>1, OthersOwnNothing
  <2> QED
    BY <2>2, <2>3, <2>4 DEF Serial
<1>6. CASE Replace(a)
  <2>0. Saving(a)
    BY <1>6 DEF Replace, Saving
  <2>1. reg' = Json(Saved(a)) /\ pc'[a] = after[a] /\ pc[a] = "replace"
    BY <1>1, <1>6 DEF Replace, Goto, OwnFile
  <2>2. Loaded' = Saved(a) /\ RegistryReadable'
    BY <2>1 DEF Loaded, Json, RegistryReadable
  <2>3. \A b \in Actors : handle[b] = "none"
    BY <1>1, <2>0, <2>1, OthersOwnNothing DEF Serial, Overlap, Saving, OwnFile
  <2>4. \A b \in Actors : handle'[b] = "none"
    BY <1>6, <2>3 DEF Replace
  <2>5. Listed'
    BY <1>1, <1>2, <1>3, <2>2, SavedEntry DEF Listed, Serial, InHand
  <2>6. Knows(a)' /\ OwnFile(a)'
    BY <1>1, <1>2, <1>3, <2>1, <2>2, <2>4, SavedEntry DEF Knows, OwnFile, InHand, Saving
  <2>7. ASSUME NEW b \in Actors \ {a}
        PROVE  Knows(b)' /\ OwnFile(b)'
    <3>1. Knows(b)'
      BY <1>1, <1>2, <2>2, OthersKnow DEF Serial
    <3> QED
      BY <1>2, <2>0, <2>3, <2>4, <3>1, OthersOwnNothing
  <2> QED
    BY <1>1, <2>2, <2>5, <2>6, <2>7 DEF Serial
<1>7. CASE ReplaceMisses(a)
  BY <1>1, <1>7 DEF ReplaceMisses, OwnFile, Json
<1> QED
  BY <1>4, <1>5, <1>6, <1>7 DEF Save

\* A step that is no save leaves the registry and every file handle alone.
LEMMA SerialOther ==
    ASSUME TypeOK, Serial, ~Overlap', NEW A \in SUBSET Actors,
           UNCHANGED files, dirs \subseteq dirs',
           \A u \in parquet' : u \in parquet \/ Loaded[u] # "absent",
           \A b \in Actors \ A : /\ pc'[b] = pc[b] /\ upload'[b] = upload[b] /\ want'[b] = want[b]
                                 /\ after'[b] = after[b] /\ copy'[b] = copy[b] /\ handle'[b] = handle[b],
           \A a \in A : Knows(a)' /\ ~Saving(a)' /\ handle'[a] = "none"
    PROVE  Serial' /\ Loaded' = Loaded
<1>1. Loaded' = Loaded /\ UNCHANGED <<reg, tmp>>
  BY DEF Loaded, files
<1>2. Listed'
  BY <1>1 DEF Serial, Listed, RegistryReadable
<1>3. ASSUME NEW b \in Actors \ A
      PROVE  Knows(b)' /\ OwnFile(b)'
  BY <1>1 DEF Serial, Knows, OwnFile, InHand, Saving, Saved
<1>4. ASSUME NEW a \in A
      PROVE  OwnFile(a)'
  BY DEF OwnFile, Saving
<1> QED
  BY <1>1, <1>2, <1>3, <1>4 DEF Serial

LEMMA SerialOne ==
    ASSUME TypeOK, Serial, ~Overlap', NEW a \in Actors,
           UNCHANGED files, dirs \subseteq dirs',
           \A u \in parquet' : u \in parquet \/ Loaded[u] # "absent",
           \A b \in Actors \ {a} : /\ pc'[b] = pc[b] /\ upload'[b] = upload[b] /\ want'[b] = want[b]
                                   /\ after'[b] = after[b] /\ copy'[b] = copy[b] /\ handle'[b] = handle[b],
           Knows(a)', ~Saving(a)', handle'[a] = "none"
    PROVE  Serial' /\ Loaded' = Loaded
<1>1. {a} \in SUBSET Actors
  OBVIOUS
<1> QED
  BY <1>1, SerialOther

LEMMA SerialRequest ==
    ASSUME TypeOK, Serial, ~Overlap',
           \/ (\E u \in Uploads : Receive(u)) \/ Convert \/ ConvertRaises
           \/ \E t \in Threads : (\E u \in Uploads : Ask(t, u)) \/ Get(t) \/ Launch(t) \/ LaunchFails(t)
    PROVE  Serial' /\ Loaded' = Loaded
<1>0. /\ Loop \in Actors /\ Threads \subseteq Actors /\ Runs \subseteq Actors
      /\ Loop \notin Threads /\ Loop \notin Runs /\ Threads \intersect Runs = {}
      /\ Loaded \in Records
  BY UploadAssumption DEF Actors, API, Loaded, File, TypeOK
<1>1. ASSUME NEW u \in Uploads, Receive(u)
      PROVE  Serial' /\ Loaded' = Loaded
  <2>1. /\ UNCHANGED <<files, parquet, copy, handle>> /\ dirs' = dirs \union {u} /\ u \notin dirs
        /\ pc[Loop] = "idle" /\ pc'[Loop] = "load" /\ upload'[Loop] = u
        /\ want'[Loop] = "uploaded" /\ after'[Loop] = "convert"
        /\ \A b \in Actors \ {Loop} : /\ pc'[b] = pc[b] /\ upload'[b] = upload[b]
                                      /\ want'[b] = want[b] /\ after'[b] = after[b]
    BY <1>0, <1>1 DEF Receive, Goto, TypeOK
  <2>2. Loaded'[u] = "absent" /\ handle'[Loop] = "none"
    BY <1>0, <2>1 DEF Serial, Listed, OwnFile, Loaded, files, TypeOK
  <2>3. Knows(Loop)' /\ ~Saving(Loop)'
    BY <1>0, <2>1, <2>2 DEF Knows, Saving, InHand, TypeOK
  <2> QED
    BY <1>0, <2>1, <2>2, <2>3, SerialOne
<1>2. CASE Convert
  <2>1. /\ UNCHANGED <<files, dirs, upload, copy, handle>>
        /\ parquet' \subseteq parquet \union {upload[Loop]}
        /\ pc[Loop] = "convert" /\ pc'[Loop] = "load"
        /\ want'[Loop] \in {"converted", "failed"} /\ after'[Loop] = "idle"
        /\ \A b \in Actors \ {Loop} : pc'[b] = pc[b] /\ want'[b] = want[b] /\ after'[b] = after[b]
    BY <1>0, <1>2 DEF Convert, Mark, Goto, TypeOK
  <2>2. /\ Loaded[upload[Loop]] = "uploaded" /\ upload[Loop] \in dirs
        /\ Loaded' = Loaded /\ handle'[Loop] = "none"
    BY <1>0, <2>1 DEF Serial, Listed, Knows, OwnFile, Loaded, files, TypeOK
  <2>3. Knows(Loop)' /\ ~Saving(Loop)'
    BY <1>0, <2>1, <2>2 DEF Knows, Saving, InHand, TypeOK
  <2> QED
    BY <1>0, <2>1, <2>2, <2>3, SerialOne
<1>3. CASE ConvertRaises
  <2>1. /\ UNCHANGED <<files, dirs, parquet, upload, want, after, copy, handle>>
        /\ pc[Loop] = "convert" /\ pc'[Loop] = "idle"
        /\ \A b \in Actors \ {Loop} : pc'[b] = pc[b]
    BY <1>0, <1>3 DEF ConvertRaises, Goto, disk, work, TypeOK
  <2>2. Knows(Loop)' /\ ~Saving(Loop)' /\ handle'[Loop] = "none"
    BY <1>0, <2>1 DEF Knows, Saving, Serial, OwnFile, TypeOK
  <2> QED
    BY <1>0, <2>1, <2>2, SerialOne
<1>4. ASSUME NEW t \in Threads, (\E u \in Uploads : Ask(t, u)) \/ Get(t)
      PROVE  Serial' /\ Loaded' = Loaded
  <2>1. /\ UNCHANGED <<files, dirs, parquet, want, after, copy, handle>>
        /\ pc[t] \in {"idle", "get"} /\ pc'[t] \in {"get", "launch", "idle"}
        /\ pc'[t] = "launch" => Loaded[upload[t]] \in Past /\ upload'[t] = upload[t]
        /\ \A b \in Actors \ {t} : pc'[b] = pc[b] /\ upload'[b] = upload[b]
    BY <1>0, <1>4 DEF Ask, Get, Goto, disk, work, Past, TypeOK
  <2>2. Loaded' = Loaded
    BY <2>1 DEF Loaded, files, TypeOK
  <2>3. Knows(t)' /\ ~Saving(t)' /\ handle'[t] = "none"
    BY <1>0, <2>1, <2>2 DEF Knows, Saving, Serial, OwnFile, TypeOK
  <2> QED
    BY <1>0, <2>1, <2>3, SerialOne
<1>5. ASSUME NEW t \in Threads, Launch(t) \/ LaunchFails(t)
      PROVE  Serial' /\ Loaded' = Loaded
  <2>1. /\ UNCHANGED <<files, dirs, parquet, copy, handle>> /\ pc[t] = "launch"
        /\ \A b \in Actors \ {t} : want'[b] = want[b] /\ after'[b] = after[b]
    BY <1>0, <1>5 DEF Launch, LaunchFails, disk, TypeOK
  <2>2. Loaded' = Loaded
    BY <2>1 DEF Loaded, files, TypeOK
  <2>3. Loaded[upload[t]] \in Past /\ upload[t] \in dirs /\ upload[t] \in Uploads
    BY <1>0, <2>1 DEF Serial, Knows, Listed, Past, TypeOK
  <2>4. CASE Goto(t, "idle") /\ UNCHANGED <<upload, want>>
    <3>1. /\ pc'[t] = "idle"
          /\ \A b \in Actors \ {t} : pc'[b] = pc[b] /\ upload'[b] = upload[b]
      BY <1>0, <2>4 DEF Goto, TypeOK
    <3>2. Knows(t)' /\ ~Saving(t)' /\ handle'[t] = "none"
      BY <1>0, <2>1, <3>1 DEF Knows, Saving, Serial, OwnFile, TypeOK
    <3> QED
      BY <1>0, <2>1, <3>1, <3>2, SerialOne
  <2>5. ASSUME NEW r \in Runs, pc[r] = "unstarted",
               \/ /\ pc' = [pc EXCEPT ![r] = "check", ![t] = "load"]
                  /\ want' = [want EXCEPT ![t] = "processing"] /\ after' = [after EXCEPT ![t] = "idle"]
               \/ pc' = [pc EXCEPT ![r] = "check", ![t] = "idle"],
               upload' = [upload EXCEPT ![r] = upload[t]]
        PROVE  Serial' /\ Loaded' = Loaded
    <3>0. r # t /\ r \in Actors /\ t \in Actors
      BY <1>0
    <3>1. /\ pc'[r] = "check" /\ upload'[r] = upload[t] /\ upload'[t] = upload[t]
          /\ pc'[t] = "idle" \/ (pc'[t] = "load" /\ want'[t] = "processing" /\ after'[t] = "idle")
      BY <2>5, <3>0 DEF TypeOK
    <3>2. handle'[t] = "none" /\ handle'[r] = "none"
      BY <2>1, <2>5, <3>0 DEF Serial, OwnFile, TypeOK
    <3>3. Knows(t)' /\ ~Saving(t)'
      BY <1>0, <2>1, <2>2, <2>3, <3>1 DEF Knows, Saving, InHand, TypeOK
    <3>4. Knows(r)' /\ ~Saving(r)'
      BY <1>0, <2>2, <2>3, <3>1 DEF Knows, Saving, TypeOK
    <3>5. ASSUME NEW b \in Actors \ {t, r}
          PROVE  /\ pc'[b] = pc[b] /\ upload'[b] = upload[b] /\ want'[b] = want[b]
                 /\ after'[b] = after[b] /\ copy'[b] = copy[b] /\ handle'[b] = handle[b]
      BY <2>1, <2>5, <3>0 DEF TypeOK
    <3>6. {t, r} \in SUBSET Actors
      BY <3>0
    <3> QED
      BY <2>1, <3>2, <3>3, <3>4, <3>5, <3>6, SerialOther
  <2> QED
    BY <1>5, <2>4, <2>5 DEF Launch, LaunchFails, TypeOK
<1> QED
  BY <1>1, <1>2, <1>3, <1>4, <1>5

LEMMA SerialRun ==
    ASSUME TypeOK, Serial, ~Overlap', NEW r \in Runs,
           Check(r) \/ LoadBronze(r) \/ Medallion(r) \/ RunDies(r)
    PROVE  Serial' /\ Loaded' = Loaded
<1>0. r \in Actors /\ r # Loop /\ r \notin Threads
  BY UploadAssumption DEF Actors, API, TypeOK
<1>1. /\ UNCHANGED <<files, dirs, parquet, upload>>
      /\ \A b \in Actors \ {r} : /\ pc'[b] = pc[b] /\ want'[b] = want[b] /\ after'[b] = after[b]
                                 /\ copy'[b] = copy[b] /\ handle'[b] = handle[b]
      /\ handle'[r] = "none"
      /\ \/ pc'[r] = "ended"
         \/ pc[r] \in {"check", "bronze"} /\ pc'[r] \in {"bronze", "medallion"}
         \/ /\ pc[r] \in {"bronze", "medallion"} /\ pc'[r] = "load"
            /\ want'[r] \in {"done", "failed"} /\ after'[r] = "ended"
  <2>1. pc[r] # "write" => handle[r] = "none"
    BY <1>0 DEF Serial, OwnFile, TypeOK
  <2>2. CASE Check(r)
    BY <1>0, <2>1, <2>2 DEF Check, Goto, disk, work, TypeOK
  <2>3. CASE LoadBronze(r)
    BY <1>0, <2>1, <2>3 DEF LoadBronze, Mark, Goto, disk, work, TypeOK
  <2>4. CASE Medallion(r)
    BY <1>0, <2>1, <2>4 DEF Medallion, Mark, Goto, work, TypeOK
  <2>5. CASE RunDies(r)
    BY <1>0, <2>5 DEF RunDies, Goto, disk, TypeOK
  <2> QED
    BY <2>2, <2>3, <2>4, <2>5
<1>2. Loaded' = Loaded
  BY <1>1 DEF Loaded, files, TypeOK
<1>3. pc'[r] # "ended" => Loaded[upload[r]] \in Past /\ upload[r] \in dirs
  BY <1>0, <1>1 DEF Serial, Knows, Listed, Past, TypeOK
<1>4. Knows(r)' /\ ~Saving(r)'
  BY <1>0, <1>1, <1>2, <1>3 DEF Knows, Saving, InHand, TypeOK
<1> QED
  BY <1>0, <1>1, <1>4, SerialOne

LEMMA SerialRestart ==
    ASSUME TypeOK, Serial, ~Overlap', Restart
    PROVE  Serial' /\ Loaded' = Loaded
<1>1. /\ UNCHANGED <<files, dirs, parquet, upload, want, after>>
      /\ \A b \in Actors \ API : pc'[b] = pc[b] /\ copy'[b] = copy[b] /\ handle'[b] = handle[b]
      /\ \A a \in API : pc'[a] = "idle" /\ handle'[a] = "none"
  BY DEF TypeOK, Restart, disk, Actors
<1>2. API \in SUBSET Actors /\ API \intersect Runs = {}
  BY UploadAssumption DEF Actors
<1>3. \A a \in API : Knows(a)' /\ ~Saving(a)'
  BY <1>1, <1>2 DEF Knows, Saving
<1> QED
  BY <1>1, <1>2, <1>3, SerialOther

LEMMA SerialInductive ==
    /\ Init => SerialInv /\ Map!Init
    /\ TypeOK /\ SerialInv /\ [Next]_vars =>
         /\ SerialInv'
         /\ raced' \/ Loaded' = Loaded \/ \E a \in Actors : Loaded' = Saved(a) /\ InHand(a)
<1>1. Init => SerialInv /\ Map!Init
  BY DEF Init, SerialInv, Serial, Overlap, Listed, Knows, OwnFile, Saving, RegistryReadable, Loaded,
         Absent, NoRecords, Map!Init
<1>2. ASSUME TypeOK, SerialInv, [Next]_vars
      PROVE  /\ SerialInv'
             /\ raced' \/ Loaded' = Loaded \/ \E a \in Actors : Loaded' = Saved(a) /\ InHand(a)
  <2>1. CASE UNCHANGED vars
    BY <1>2, <2>1 DEF vars, SerialInv, Serial, Overlap, Listed, Knows, OwnFile, Saving,
                      RegistryReadable, InHand, Saved, Loaded
  <2>2. CASE Next /\ raced'
    BY <2>2 DEF SerialInv
  <2>3. CASE Next /\ ~raced'
    <3>1. Serial /\ ~Overlap' /\ Step
      BY <1>2, <2>3 DEF Next, SerialInv, TypeOK
    <3>2. Serial' /\ (Loaded' = Loaded \/ \E a \in Actors : Loaded' = Saved(a) /\ InHand(a))
      BY <1>2, <3>1, SerialSave, SerialRequest, SerialRun, SerialRestart DEF Step
    <3> QED
      BY <3>2 DEF SerialInv
  <2> QED
    BY <1>2, <2>1, <2>2, <2>3
<1> QED
  BY <1>1, <1>2

\* "Atomic file writes" while saves do not overlap: whatever threads and runs take part,
\* a reader never meets half a registry, also after a restart or a death in the middle of
\* a save, and an upload that was converted stays listed.
THEOREM SerialListsAll == Spec => []AllUploadsListed
<1>1. SerialInv => AllUploadsListed
  BY DEF SerialInv, Serial, Listed, AllUploadsListed
<1> QED
  BY <1>1, TypeCorrect, SerialInductive, PTL DEF Spec

\* Until two saves overlap the registry is the map UploadMap specifies: each step changes
\* one entry along the life of an upload, restarts and deaths included.
THEOREM SerialImplementsMap == Spec => ImplementsMap
<1>1. TypeOK /\ (\E a \in Actors : Loaded' = Saved(a) /\ InHand(a)) => Map!Next
  <2> SUFFICES ASSUME TypeOK, NEW a \in Actors, Loaded' = Saved(a), InHand(a) PROVE Map!Next
    OBVIOUS
  <2>1. upload[a] \in Uploads
    BY DEF TypeOK
  <2>2. <<Loaded[upload[a]], want[a]>> \in Map!Follows /\ want[a] # "absent"
    BY DEF Map!Follows, InHand, Past
  <2>3. want[a] \in {"uploaded", "converted", "processing", "done", "failed"}
    BY DEF InHand
  <2>4. Map!Put(upload[a], want[a])
    BY <2>2 DEF Map!Put, Saved
  <2> QED
    BY <2>1, <2>3, <2>4 DEF Map!Next
<1>2. TypeOK /\ SerialInv /\ [Next]_vars => [raced' \/ Map!Next]_Loaded
  BY <1>1, SerialInductive
<1> QED
  BY <1>2, TypeCorrect, SerialInductive, PTL DEF Spec, ImplementsMap
=============================================================================
