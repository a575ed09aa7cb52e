-------------------------- MODULE BulletinCanonProofs --------------------------
(***************************************************************************)
(* What a request that runs by itself achieves, for any number of request   *)
(* threads, reason codes and earlier failures: a reset restores the         *)
(* baseline, an apply from the baseline takes effect, and code L has an     *)
(* active version all along.                                                *)
(***************************************************************************)
EXTENDS BulletinCanon, TLAPS, FiniteSetTheorems

(***************************************************************************)
(* The strengthening.  A request knows what its own statements did as long  *)
(* as no other request runs, so each part of Progress is guarded by that.   *)
(***************************************************************************)
TypeInv ==
    /\ status \in [Values -> Status]
    /\ doc \in BOOLEAN /\ override \in BOOLEAN
    /\ targets \in SUBSET {OldL, NewL}
    /\ file \in SUBSET Values
    /\ table \in [Values -> Nat]
    /\ pc \in [Handlers -> PC]
    /\ op \in [Handlers -> {"apply", "reset"}]
    /\ old \in [Handlers -> {OldL, NewL}]
    /\ rest \in [Handlers -> SUBSET Values]
    /\ alone \in [Handlers -> BOOLEAN]
    /\ from \in [Handlers -> Canons]

\* the original version is never deleted
OldThere == status[OldL] # "absent"

\* edges go with their node
EdgesOfOverride == ~override => targets = {}

ApplyPC == {"doc", "find", "new", "override", "lookup", "select", "supersede"}
ResetPC == {"delete_new", "delete_override", "delete_doc", "restore"}
LoadPC == {"build", "replace", "insert", "answer"}

\* a request is in one of its own scripts
OwnScripts ==
    \A h \in Handlers : /\ pc[h] \in ApplyPC => op[h] = "apply"
                        /\ pc[h] \in ResetPC => op[h] = "reset"

Running(h) == pc[h] # "idle" /\ alone[h]

\* nothing runs beside a request that is alone
Solitary ==
    \A h, g \in Handlers : Running(h) /\ g # h => pc[g] = "idle"

OldActive == status[OldL] # "superseded"

\* what a lone reset has undone
Undone(h) ==
    op[h] = "reset" =>
      /\ pc[h] \in (ResetPC \ {"delete_new"}) \union LoadPC => status[NewL] = "absent"
      /\ pc[h] \in {"delete_doc", "restore"} \union LoadPC => ~override
      /\ pc[h] \in {"restore"} \union LoadPC => ~doc
      /\ pc[h] \in LoadPC => OldActive

\* what a lone apply from the baseline has done
Done(h) ==
    op[h] = "apply" /\ from[h] = "baseline" =>
      /\ pc[h] \in {"doc", "find", "new"} =>
           OldActive /\ status[NewL] = "absent" /\ ~override
      /\ pc[h] \in {"new", "override"} => old[h] = OldL
      /\ pc[h] \in {"override", "lookup", "select"} => OldActive
      /\ pc[h] = "override" => ~override
      /\ pc[h] \in (ApplyPC \ {"doc"}) \union LoadPC => doc
      /\ pc[h] \in {"override", "lookup", "select", "supersede"} \union LoadPC =>
           status[NewL] = "draft"
      /\ pc[h] \in {"lookup", "select", "supersede"} \union LoadPC =>
           override /\ targets = {OldL}
      /\ pc[h] = "supersede" => rest[h] \subseteq {OldL} /\ (OldActive => OldL \in rest[h])
      /\ pc[h] \in LoadPC => ~OldActive

\* what a lone load has written
Written(h) ==
    /\ pc[h] = "replace" => file = Active
    /\ pc[h] = "insert" =>
         /\ rest[h] \subseteq Active
         /\ \A v \in Values : table[v] = IF v \in Active \ rest[h] THEN 1 ELSE 0
    /\ pc[h] = "answer" => TableIsCanon

Progress(h) == Running(h) => Undone(h) /\ Done(h) /\ Written(h)

IInv ==
    /\ TypeInv /\ OldThere /\ EdgesOfOverride /\ OwnScripts /\ Solitary
    /\ \A h \in Handlers : Progress(h)

Step(g) ==
    \/ \E o \in {"apply", "reset"} : Start(g, o)
    \/ MergeDoc(g) \/ FindOld(g) \/ CreateNew(g) \/ CreateOverride(g)
    \/ LookUp(g) \/ SelectTargets(g) \/ Supersede(g)
    \/ DeleteNew(g) \/ DeleteOverride(g) \/ DeleteDoc(g) \/ Restore(g)
    \/ Build(g) \/ ReplaceTable(g) \/ InsertRow(g) \/ Answer(g) \/ Dies(g)

-----------------------------------------------------------------------------
(* Every step is one handler's.                                             *)
LEMMA NextIsStep == Next => \E g \in Handlers : Step(g)
  BY DEF Next, Step, ApplySteps, ResetSteps, LoadSteps

(* The initial state satisfies the strengthening. *)
LEMMA InitIInv == Init => IInv
<1> SUFFICES ASSUME Init PROVE IInv
  OBVIOUS
<1> USE CanonAssumption
<1>1. TypeInv
  BY DEF Init, TypeInv, Values, Status, PC, Canons
<1>2. OldThere /\ EdgesOfOverride
  BY DEF Init, OldThere, EdgesOfOverride, Values
<1>3. OwnScripts /\ Solitary /\ \A h \in Handlers : Progress(h)
  BY DEF Init, OwnScripts, Solitary, Progress, Running, ApplyPC, ResetPC
<1> QED
  BY <1>1, <1>2, <1>3 DEF IInv

(* Types are kept by every step. *)
LEMMA TypeStep ==
  ASSUME TypeInv, NEW g \in Handlers, Step(g)
  PROVE  TypeInv'
<1> USE CanonAssumption DEF TypeInv, Goto, End, graph
<1>1. ASSUME NEW o \in {"apply", "reset"}, Start(g, o) PROVE TypeInv'
  BY <1>1 DEF Start, PC, Canons
<1>2. CASE MergeDoc(g) BY <1>2 DEF MergeDoc, PC
<1>3. CASE FindOld(g)
  <2>1. ASSUME NEW v \in {OldL, NewL}, old' = [old EXCEPT ![g] = v], Goto(g, "new"),
               UNCHANGED <<op, rest, alone, from>>
        PROVE  TypeInv'
    BY <1>3, <2>1 DEF FindOld, PC
  <2>2. CASE End(g) BY <1>3, <2>2 DEF FindOld, PC, Canons
  <2> QED
    BY <1>3, <2>1, <2>2 DEF FindOld, ActiveL
<1>4. CASE CreateNew(g) BY <1>4 DEF CreateNew, PC, Values, Status
<1>5. CASE CreateOverride(g) BY <1>5 DEF CreateOverride, PC
<1>6. CASE LookUp(g) BY <1>6 DEF LookUp, PC
<1>7. CASE SelectTargets(g) BY <1>7 DEF SelectTargets, PC, Values
<1>8. CASE Supersede(g) BY <1>8 DEF Supersede, PC, Status
<1>9. CASE DeleteNew(g) BY <1>9 DEF DeleteNew, PC, Status
<1>10. CASE DeleteOverride(g) BY <1>10 DEF DeleteOverride, PC
<1>11. CASE DeleteDoc(g) BY <1>11 DEF DeleteDoc, PC
<1>12. CASE Restore(g) BY <1>12 DEF Restore, PC, Status
<1>13. CASE Build(g)
  <2>1. CASE Active = {} BY <1>13, <2>1 DEF Build, PC, Canons
  <2>2. CASE Active # {}
    <3>1. Active \subseteq Values
      BY DEF Active
    <3> QED
      BY <1>13, <2>2, <3>1 DEF Build, PC
  <2> QED
    BY <2>1, <2>2
<1>14. CASE ReplaceTable(g) BY <1>14 DEF ReplaceTable, PC
<1>15. CASE InsertRow(g) BY <1>15 DEF InsertRow, PC
<1>16. CASE Answer(g) BY <1>16 DEF Answer, PC, Canons
<1>17. CASE Dies(g) BY <1>17 DEF Dies, PC, Canons
<1> QED
  BY <1>1, <1>2, <1>3, <1>4, <1>5, <1>6, <1>7, <1>8, <1>9, <1>10, <1>11, <1>12,
     <1>13, <1>14, <1>15, <1>16, <1>17 DEF Step

(* The small invariants. *)
LEMMA SmallStep ==
  ASSUME TypeInv, OldThere, EdgesOfOverride, OwnScripts, NEW g \in Handlers, Step(g)
  PROVE  OldThere' /\ EdgesOfOverride' /\ OwnScripts'
<1> USE CanonAssumption DEF TypeInv, Goto, End, graph
<1>1. OldThere'
  <2> USE DEF OldThere
  <2>1. ASSUME NEW o \in {"apply", "reset"}, Start(g, o) PROVE OldThere'
    BY <2>1 DEF Start
  <2>2. CASE CreateNew(g) BY <2>2 DEF CreateNew, Values
  <2>3. CASE Supersede(g) BY <2>3 DEF Supersede, Values
  <2>4. CASE DeleteNew(g) BY <2>4 DEF DeleteNew, Values
  <2>5. CASE Restore(g) BY <2>5 DEF Restore, Values
  <2>6. CASE FindOld(g) BY <2>6 DEF FindOld
  <2>7. CASE Build(g) BY <2>7 DEF Build
  <2> QED
    BY <2>1, <2>2, <2>3, <2>4, <2>5, <2>6, <2>7
       DEF Step, MergeDoc, CreateOverride, LookUp, SelectTargets, DeleteOverride,
           DeleteDoc, ReplaceTable, InsertRow, Answer, Dies
<1>2. EdgesOfOverride'
  <2> USE DEF EdgesOfOverride
  <2>1. ASSUME NEW o \in {"apply", "reset"}, Start(g, o) PROVE EdgesOfOverride'
    BY <2>1 DEF Start
  <2>2. CASE FindOld(g) BY <2>2 DEF FindOld
  <2>3. CASE Build(g) BY <2>3 DEF Build
  <2>4. CASE DeleteNew(g) BY <2>4 DEF DeleteNew
  <2>5. CASE CreateOverride(g) BY <2>5 DEF CreateOverride
  <2>6. CASE DeleteOverride(g) BY <2>6 DEF DeleteOverride
  <2> QED
    BY <2>1, <2>2, <2>3, <2>4, <2>5, <2>6
       DEF Step, MergeDoc, CreateNew, LookUp, SelectTargets, Supersede, DeleteDoc,
           Restore, ReplaceTable, InsertRow, Answer, Dies
<1>3. OwnScripts'
  <2> USE DEF OwnScripts, ApplyPC, ResetPC
  <2>1. ASSUME NEW o \in {"apply", "reset"}, Start(g, o) PROVE OwnScripts'
    BY <2>1 DEF Start
  <2>2. CASE MergeDoc(g) BY <2>2 DEF MergeDoc
  <2>3. CASE FindOld(g) BY <2>3 DEF FindOld
  <2>4. CASE CreateNew(g) BY <2>4 DEF CreateNew
  <2>5. CASE CreateOverride(g) BY <2>5 DEF CreateOverride
  <2>6. CASE LookUp(g) BY <2>6 DEF LookUp
  <2>7. CASE SelectTargets(g) BY <2>7 DEF SelectTargets
  <2>8. CASE Supersede(g) BY <2>8 DEF Supersede
  <2>9. CASE DeleteNew(g) BY <2>9 DEF DeleteNew
  <2>10. CASE DeleteOverride(g) BY <2>10 DEF DeleteOverride
  <2>11. CASE DeleteDoc(g) BY <2>11 DEF DeleteDoc
  <2>12. CASE Restore(g) BY <2>12 DEF Restore
  <2>13. CASE Build(g) BY <2>13 DEF Build
  <2>14. CASE ReplaceTable(g) BY <2>14 DEF ReplaceTable
  <2>15. CASE InsertRow(g) BY <2>15 DEF InsertRow
  <2>16. CASE Answer(g) BY <2>16 DEF Answer
  <2>17. CASE Dies(g) BY <2>17 DEF Dies
  <2> QED
    BY <2>1, <2>2, <2>3, <2>4, <2>5, <2>6, <2>7, <2>8, <2>9, <2>10, <2>11, <2>12,
       <2>13, <2>14, <2>15, <2>16, <2>17 DEF Step
<1> QED
  BY <1>1, <1>2, <1>3

(* A step moves one handler.  If another request was running it is not, or  *)
(* is no longer, alone: only the start of a request happens beside it.      *)
LEMMA OthersStep ==
  ASSUME TypeInv, Solitary, NEW g \in Handlers, NEW h \in Handlers, h # g, Step(g)
  PROVE  pc'[h] = pc[h] /\ ~Running(h)'
<1> USE CanonAssumption DEF TypeInv, Goto, End, Running, Solitary
<1>1. ASSUME NEW o \in {"apply", "reset"}, Start(g, o)
      PROVE  pc'[h] = pc[h] /\ ~Running(h)'
  BY <1>1 DEF Start
<1>2. ASSUME pc[g] # "idle", pc'[h] = pc[h], alone'[h] = alone[h]
      PROVE  pc'[h] = pc[h] /\ ~Running(h)'
  BY <1>2
<1>3. CASE FindOld(g) BY <1>2, <1>3 DEF FindOld
<1>4. CASE Supersede(g) BY <1>2, <1>4 DEF Supersede
<1>5. CASE Build(g) BY <1>2, <1>5 DEF Build
<1>6. CASE InsertRow(g) BY <1>2, <1>6 DEF InsertRow
<1>7. CASE MergeDoc(g) \/ CreateNew(g) \/ CreateOverride(g) \/ LookUp(g) \/ SelectTargets(g)
  BY <1>2, <1>7 DEF MergeDoc, CreateNew, CreateOverride, LookUp, SelectTargets
<1>8. CASE DeleteNew(g) \/ DeleteOverride(g) \/ DeleteDoc(g) \/ Restore(g)
  BY <1>2, <1>8 DEF DeleteNew, DeleteOverride, DeleteDoc, Restore
<1>9. CASE ReplaceTable(g) \/ Answer(g) \/ Dies(g)
  BY <1>2, <1>9 DEF ReplaceTable, Answer, Dies
<1> QED
  BY <1>1, <1>3, <1>4, <1>5, <1>6, <1>7, <1>8, <1>9 DEF Step

(* A request that is alone after its own step finds the others idle. *)
LEMMA OwnStep ==
  ASSUME TypeInv, Solitary, NEW g \in Handlers, NEW k \in Handlers, k # g, Step(g), Running(g)'
  PROVE  pc'[k] = "idle"
<1> USE CanonAssumption DEF TypeInv, Goto, End, Running, Solitary
<1>1. pc'[k] = pc[k]
  BY OthersStep
<1>2. ASSUME NEW o \in {"apply", "reset"}, Start(g, o) PROVE pc[k] = "idle"
  BY <1>2 DEF Start
<1>3. ASSUME pc[g] # "idle", alone'[g] = alone[g] PROVE pc[k] = "idle"
  BY <1>3
<1>4. CASE FindOld(g) BY <1>3, <1>4 DEF FindOld, PC
<1>5. CASE Build(g) BY <1>3, <1>5 DEF Build, PC
<1>6. CASE Answer(g) \/ Dies(g) BY <1>6 DEF Answer, Dies
<1>7. CASE \/ MergeDoc(g) \/ CreateNew(g) \/ CreateOverride(g) \/ LookUp(g)
           \/ SelectTargets(g) \/ Supersede(g)
  BY <1>3, <1>7 DEF MergeDoc, CreateNew, CreateOverride, LookUp, SelectTargets, Supersede
<1>8. CASE \/ DeleteNew(g) \/ DeleteOverride(g) \/ DeleteDoc(g) \/ Restore(g)
           \/ ReplaceTable(g) \/ InsertRow(g)
  BY <1>3, <1>8 DEF DeleteNew, DeleteOverride, DeleteDoc, Restore, ReplaceTable, InsertRow
<1> QED
  BY <1>1, <1>2, <1>4, <1>5, <1>6, <1>7, <1>8 DEF Step

LEMMA SolitaryStep ==
  ASSUME TypeInv, Solitary, NEW g \in Handlers, Step(g)
  PROVE  Solitary'
  BY OthersStep, OwnStep DEF Solitary

-----------------------------------------------------------------------------
(* The step of a request that is alone keeps what it knows.                 *)

LEMMA StartProgress ==
  ASSUME TypeInv, NEW g \in Handlers, NEW o \in {"apply", "reset"}, Start(g, o)
  PROVE  Progress(g)'
<1> USE CanonAssumption DEF TypeInv, Start, Goto, graph
<1>1. Undone(g)'
  BY DEF Undone, ResetPC, LoadPC
<1>2. Written(g)'
  BY DEF Written
<1>3. Done(g)'
  <2>1. SUFFICES ASSUME Baseline, pc'[g] = "doc"
                 PROVE  OldActive /\ status[NewL] = "absent" /\ ~override
    BY DEF Done, ApplyPC, LoadPC, OldActive
  <2> QED
    BY <2>1 DEF Baseline, ActiveL, Active, OldActive
<1> QED
  BY <1>1, <1>2, <1>3 DEF Progress

LEMMA ApplyProgress ==
  ASSUME TypeInv, OldThere, EdgesOfOverride, OwnScripts, NEW g \in Handlers,
         Running(g), Undone(g), Done(g),
         \/ MergeDoc(g) \/ FindOld(g) \/ CreateNew(g) \/ CreateOverride(g)
         \/ LookUp(g) \/ SelectTargets(g) \/ Supersede(g)
  PROVE  Progress(g)'
<1> USE CanonAssumption DEF TypeInv, Goto, End, graph, OldThere, EdgesOfOverride,
        OwnScripts, ApplyPC, ResetPC, LoadPC
<1>1. CASE MergeDoc(g)
  BY <1>1 DEF MergeDoc, Progress, Undone, Done, Written, OldActive
<1>2. CASE FindOld(g)
  <2>1. CASE End(g) BY <2>1 DEF Progress, Running
  <2>2. ASSUME NEW v \in ActiveL, old' = [old EXCEPT ![g] = v], Goto(g, "new"),
               UNCHANGED <<op, rest, alone, from>>
        PROVE  Progress(g)'
    BY <1>2, <2>2
       DEF FindOld, Progress, Undone, Done, Written, OldActive, ActiveL, Active
  <2> QED
    BY <1>2, <2>1, <2>2 DEF FindOld
<1>3. CASE CreateNew(g)
  BY <1>3 DEF CreateNew, Progress, Undone, Done, Written, OldActive, Values
<1>4. CASE CreateOverride(g)
  BY <1>4 DEF CreateOverride, Progress, Undone, Done, Written, OldActive
<1>5. CASE LookUp(g)
  BY <1>5 DEF LookUp, Progress, Undone, Done, Written, OldActive
<1>6. CASE SelectTargets(g)
  BY <1>6 DEF SelectTargets, Progress, Undone, Done, Written, OldActive
<1>7. CASE Supersede(g)
  <2>1. CASE rest[g] = {} /\ Goto(g, "build") /\ UNCHANGED <<status, rest>>
    BY <1>7, <2>1 DEF Supersede, Progress, Undone, Done, Written, OldActive
  <2>2. ASSUME NEW v \in rest[g],
               status' = [status EXCEPT ![v] = IF @ = "absent" THEN @ ELSE "superseded"],
               rest' = [rest EXCEPT ![g] = @ \ {v}], UNCHANGED pc
        PROVE  Progress(g)'
    BY <1>7, <2>2 DEF Supersede, Progress, Undone, Done, Written, OldActive, Values
  <2> QED
    BY <1>7, <2>1, <2>2 DEF Supersede
<1> QED
  BY <1>1, <1>2, <1>3, <1>4, <1>5, <1>6, <1>7

LEMMA ResetProgress ==
  ASSUME TypeInv, OldThere, EdgesOfOverride, OwnScripts, NEW g \in Handlers,
         Running(g), Undone(g), Done(g),
         DeleteNew(g) \/ DeleteOverride(g) \/ DeleteDoc(g) \/ Restore(g)
  PROVE  Progress(g)'
<1> USE CanonAssumption DEF TypeInv, Goto, graph, OldThere, EdgesOfOverride,
        OwnScripts, ApplyPC, ResetPC, LoadPC, Progress, Undone, Done, Written, OldActive
<1>1. CASE DeleteNew(g)
  BY <1>1 DEF DeleteNew, Values
<1>2. CASE DeleteOverride(g)
  BY <1>2 DEF DeleteOverride
<1>3. CASE DeleteDoc(g)
  BY <1>3 DEF DeleteDoc
<1>4. CASE Restore(g)
  BY <1>4 DEF Restore, Values
<1> QED
  BY <1>1, <1>2, <1>3, <1>4

LEMMA LoadProgress ==
  ASSUME TypeInv, NEW g \in Handlers, Running(g), Undone(g), Done(g), Written(g),
         Build(g) \/ ReplaceTable(g) \/ InsertRow(g) \/ Answer(g)
  PROVE  Progress(g)'
<1> USE CanonAssumption DEF TypeInv, Goto, End, graph, ApplyPC, ResetPC, LoadPC
<1>1. CASE Answer(g)
  BY <1>1 DEF Answer, Progress, Running
<1>2. CASE Build(g)
  <2>1. CASE End(g) BY <2>1 DEF Progress, Running
  <2>2. CASE ~End(g)
    <3>1. pc' = [pc EXCEPT ![g] = "replace"] /\ file' = Active /\ Active' = Active
      BY <1>2, <2>2 DEF Build, Active
    <3>2. UNCHANGED <<status, doc, override, targets, op, old, rest, alone, from>>
      BY <1>2, <2>2 DEF Build
    <3>3. Undone(g)' /\ Done(g)'
      BY <1>2, <3>1, <3>2 DEF Build, Undone, Done, OldActive
    <3>4. Written(g)'
      BY <3>1 DEF Written
    <3> QED
      BY <3>3, <3>4 DEF Progress
  <2> QED
    BY <2>1, <2>2
<1>3. CASE ReplaceTable(g)
  <2>1. Undone(g)' /\ Done(g)'
    BY <1>3 DEF ReplaceTable, Undone, Done, OldActive
  <2>2. Written(g)'
    BY <1>3 DEF ReplaceTable, Written, Active
  <2> QED
    BY <2>1, <2>2 DEF Progress
<1>4. CASE InsertRow(g)
  <2>1. Undone(g)' /\ Done(g)'
    BY <1>4 DEF InsertRow, Undone, Done, OldActive
  <2>2. Active' = Active
    BY <1>4 DEF InsertRow, Active
  <2>3. Written(g)'
    <3>1. CASE rest[g] = {} /\ Goto(g, "answer") /\ UNCHANGED <<table, rest>>
      BY <1>4, <2>2, <3>1 DEF InsertRow, Written, TableIsCanon
    <3>2. ASSUME NEW v \in rest[g], table' = [table EXCEPT ![v] = @ + 1],
                 rest' = [rest EXCEPT ![g] = @ \ {v}], UNCHANGED pc
          PROVE  Written(g)'
      BY <1>4, <2>2, <3>2 DEF InsertRow, Written
    <3> QED
      BY <1>4, <3>1, <3>2 DEF InsertRow
  <2> QED
    BY <2>1, <2>3 DEF Progress
<1> QED
  BY <1>1, <1>2, <1>3, <1>4

LEMMA OwnProgress ==
  ASSUME IInv, NEW g \in Handlers, Step(g)
  PROVE  Progress(g)'
<1> USE DEF IInv
<1>1. ASSUME NEW o \in {"apply", "reset"}, Start(g, o) PROVE Progress(g)'
  BY <1>1, StartProgress
<1>2. CASE Dies(g)
  BY <1>2 DEF Dies, End, Goto, TypeInv, Progress, Running
<1>3. CASE ~alone[g]
  BY <1>1, <1>2, <1>3
     DEF Step, Progress, Running, TypeInv, MergeDoc, FindOld, CreateNew, CreateOverride,
         LookUp, SelectTargets, Supersede, DeleteNew, DeleteOverride, DeleteDoc, Restore,
         Build, ReplaceTable, InsertRow, Answer, End, Goto
<1>4. CASE alone[g] /\ pc[g] # "idle"
  <2>1. Running(g) /\ Undone(g) /\ Done(g) /\ Written(g)
    BY <1>4 DEF Progress, Running
  <2> QED
    BY <2>1, <1>1, <1>2, ApplyProgress, ResetProgress, LoadProgress DEF Step
<1>5. CASE pc[g] = "idle"
  BY <1>1, <1>2, <1>5
     DEF Step, MergeDoc, FindOld, CreateNew, CreateOverride,
         LookUp, SelectTargets, Supersede, DeleteNew, DeleteOverride, DeleteDoc, Restore,
         Build, ReplaceTable, InsertRow, Answer
<1> QED
  BY <1>3, <1>4, <1>5

(* The strengthening is inductive. *)
LEMMA StepIInv ==
  ASSUME IInv, [Next]_vars
  PROVE  IInv'
<1>1. ASSUME NEW g \in Handlers, Step(g) PROVE IInv'
  <2>1. TypeInv'
    BY <1>1, TypeStep DEF IInv
  <2>2. OldThere' /\ EdgesOfOverride' /\ OwnScripts'
    BY <1>1, SmallStep DEF IInv
  <2>3. Solitary'
    BY <1>1, SolitaryStep DEF IInv
  <2>4. Progress(g)'
    BY <1>1, OwnProgress
  <2>5. ASSUME NEW h \in Handlers, h # g PROVE Progress(h)'
    BY <1>1, <2>5, OthersStep DEF IInv, Progress
  <2> QED
    BY <2>1, <2>2, <2>3, <2>4, <2>5 DEF IInv
<1>2. CASE UNCHANGED vars
  BY <1>2 DEF vars, IInv, TypeInv, OldThere, EdgesOfOverride, OwnScripts, Solitary,
              Running, Progress, Undone, Done, Written, OldActive, Active, TableIsCanon
<1> QED
  BY <1>1, <1>2, NextIsStep

LEMMA Inductive == Spec => []IInv
  BY InitIInv, StepIInv, PTL DEF Spec

-----------------------------------------------------------------------------
(* The theorems.                                                            *)

(* The canon a lone request leaves, from what it knows when it answers. *)
LEMMA CanonAtEnd ==
  ASSUME IInv, NEW h \in Handlers, pc[h] = "answer", alone[h]
  PROVE  /\ TableIsCanon
         /\ op[h] = "reset" => Baseline
         /\ op[h] = "apply" /\ from[h] = "baseline" => Applied
<1> USE CanonAssumption DEF IInv
<1>1. Undone(h) /\ Done(h) /\ Written(h)
  BY DEF Progress, Running
<1>2. TableIsCanon
  BY <1>1 DEF Written
<1>3. ASSUME op[h] = "reset" PROVE Baseline
  BY <1>1, <1>3 DEF Undone, LoadPC, OldActive, OldThere, Baseline, ActiveL, Active, Values
<1>4. ASSUME op[h] = "apply", from[h] = "baseline" PROVE Applied
  BY <1>1, <1>4 DEF Done, LoadPC, OldActive, ApplyPC, Applied, ActiveL, Active, Values
<1> QED
  BY <1>2, <1>3, <1>4

(* A reset that no other request overlaps restores the baseline, in the     *)
(* graph and in the reference table, whatever happened before.              *)
THEOREM ResetIsComplete == Spec => []ResetRestores
<1>1. IInv => ResetRestores
  BY CanonAtEnd DEF ResetRestores, Succeeds
<1> QED
  BY <1>1, Inductive, PTL

(* An apply that no other request overlaps and that starts from the          *)
(* baseline makes the bulletin's version the active one.                     *)
THEOREM ApplyIsComplete == Spec => []ApplyTakesEffect
<1>1. IInv => ApplyTakesEffect
  BY CanonAtEnd DEF ApplyTakesEffect, Succeeds
<1> QED
  BY <1>1, Inductive, PTL

(* Code L has an active version at every statement of such an apply, which   *)
(* is where a crash may leave it.                                            *)
THEOREM CodeIsKept == Spec => []CodeKept
<1>1. ASSUME IInv, NEW h \in Handlers, op[h] = "apply", from[h] = "baseline", alone[h],
             pc[h] # "idle"
      PROVE  ActiveL # {}
  <2> USE CanonAssumption DEF IInv
  <2>1. Done(h)
    BY <1>1 DEF Progress, Running
  <2>2. pc[h] \in ApplyPC \union LoadPC
    BY <1>1 DEF TypeInv, PC, OwnScripts, ApplyPC, ResetPC, LoadPC
  <2>3. CASE pc[h] \in {"doc", "find", "new"}
    BY <1>1, <2>1, <2>3 DEF Done, OldActive, OldThere, ActiveL, Active, Values
  <2>4. CASE pc[h] \notin {"doc", "find", "new"}
    BY <1>1, <2>1, <2>2, <2>4 DEF Done, ApplyPC, LoadPC, ActiveL, Active, Values
  <2> QED
    BY <2>3, <2>4
<1>2. IInv => CodeKept
  BY <1>1 DEF CodeKept
<1> QED
  BY <1>2, Inductive, PTL

-----------------------------------------------------------------------------
(***************************************************************************)
(* Types.  TypeOK bounds how often a row is in the table, whose primary key *)
(* is not enforced: a request empties the table before it inserts, and      *)
(* inserts a row once, so the table holds a row at most once for each       *)
(* request thread.  What is stable is the sum of the rows there are and the *)
(* inserts that are pending.                                                *)
(***************************************************************************)
Pending(v) == {h \in Handlers : pc[h] = "insert" /\ v \in rest[h]}
RowsBounded == \A v \in Values : table[v] + Cardinality(Pending(v)) <= Cardinality(Handlers)
FaultsBounded == faults \in 0..MaxFaults

LEMMA PendingFinite ==
    ASSUME NEW S \in SUBSET Handlers
    PROVE  Cardinality(S) \in Nat /\ Cardinality(S) <= Cardinality(Handlers)
           /\ Cardinality(Handlers) \in Nat
  BY CanonAssumption, FS_Subset, FS_CardinalityType

LEMMA PendingShrinks ==
    ASSUME TypeInv, NEW v \in Values, Pending(v)' \subseteq Pending(v), table'[v] <= table[v],
           table[v] + Cardinality(Pending(v)) <= Cardinality(Handlers), table'[v] \in Nat
    PROVE  table'[v] + Cardinality(Pending(v)') <= Cardinality(Handlers)
<1>1. IsFiniteSet(Pending(v)) /\ Pending(v) \in SUBSET Handlers
  BY CanonAssumption, FS_Subset DEF Pending
<1>2. Cardinality(Pending(v)') <= Cardinality(Pending(v))
  BY <1>1, FS_Subset
<1>3. Cardinality(Pending(v)') \in Nat /\ Cardinality(Pending(v)) \in Nat
      /\ Cardinality(Handlers) \in Nat
  BY <1>1, PendingFinite
<1> QED
  BY <1>2, <1>3 DEF TypeInv

LEMMA RowsStep ==
    ASSUME TypeInv, RowsBounded, NEW g \in Handlers, Step(g), TypeInv'
    PROVE  RowsBounded'
<1> SUFFICES ASSUME NEW v \in Values
             PROVE  table'[v] + Cardinality(Pending(v)') <= Cardinality(Handlers)
  BY DEF RowsBounded
<1>0. /\ table[v] \in Nat /\ table'[v] \in Nat
      /\ table[v] + Cardinality(Pending(v)) <= Cardinality(Handlers)
  BY DEF TypeInv, RowsBounded
<1>1. CASE ReplaceTable(g)
  <2>1. table'[v] = 0
    BY <1>1 DEF ReplaceTable
  <2>2. Pending(v)' \in SUBSET Handlers
    BY DEF Pending
  <2>3. /\ Cardinality(Pending(v)') <= Cardinality(Handlers)
        /\ Cardinality(Pending(v)') \in Nat /\ Cardinality(Handlers) \in Nat
    BY <2>2, PendingFinite
  <2> QED
    BY <2>1, <2>3
<1>2. CASE InsertRow(g)
  <2>1. ASSUME NEW u \in rest[g], table' = [table EXCEPT ![u] = @ + 1],
               rest' = [rest EXCEPT ![g] = @ \ {u}], UNCHANGED pc, pc[g] = "insert"
        PROVE  table'[v] + Cardinality(Pending(v)') <= Cardinality(Handlers)
    <3>1. CASE u = v
      <4>1. Pending(v)' = Pending(v) \ {g} /\ g \in Pending(v)
        BY <2>1, <3>1 DEF Pending, TypeInv
      <4>2. table'[v] = table[v] + 1
        BY <2>1, <3>1 DEF TypeInv
      <4>3. IsFiniteSet(Pending(v)) /\ Cardinality(Pending(v)) \in Nat
            /\ Cardinality(Handlers) \in Nat
        BY CanonAssumption, FS_Subset, PendingFinite DEF Pending
      <4>4. Cardinality(Pending(v)') = Cardinality(Pending(v)) - 1
        BY <4>1, <4>3, FS_RemoveElement
      <4> QED
        BY <1>0, <4>2, <4>3, <4>4
    <3>2. CASE u # v
      <4>1. Pending(v)' \subseteq Pending(v)
        BY <2>1, <3>2 DEF Pending, TypeInv
      <4>2. table'[v] = table[v]
        BY <2>1, <3>2 DEF TypeInv
      <4> QED
        BY <1>0, <4>1, <4>2, PendingShrinks
    <3> QED
      BY <3>1, <3>2
  <2>2. CASE Goto(g, "answer") /\ UNCHANGED <<table, rest>>
    <3>1. Pending(v)' \subseteq Pending(v)
      BY <2>2 DEF Goto, Pending, TypeInv
    <3> QED
      BY <1>0, <2>2, <3>1, PendingShrinks
  <2> QED
    BY <1>2, <2>1, <2>2 DEF InsertRow
<1>3. CASE ~ReplaceTable(g) /\ ~InsertRow(g)
  <2>1. ASSUME pc'[g] # "insert", \A h \in Handlers \ {g} : pc'[h] = pc[h] /\ rest'[h] = rest[h]
        PROVE  Pending(v)' \subseteq Pending(v)
    BY <2>1 DEF Pending
  <2>2. /\ UNCHANGED table /\ pc'[g] # "insert"
        /\ \A h \in Handlers \ {g} : pc'[h] = pc[h] /\ rest'[h] = rest[h]
    <3> USE DEF TypeInv, Goto, End, graph
    <3>1. ASSUME NEW o \in {"apply", "reset"}, Start(g, o) PROVE
          /\ UNCHANGED table /\ pc'[g] # "insert"
          /\ \A h \in Handlers \ {g} : pc'[h] = pc[h] /\ rest'[h] = rest[h]
      BY <3>1 DEF Start
    <3>2. CASE FindOld(g) BY <3>2 DEF FindOld
    <3>3. CASE Supersede(g) BY <3>3 DEF Supersede
    <3>4. CASE Build(g) BY <3>4 DEF Build
    <3>5. CASE MergeDoc(g) \/ CreateNew(g) \/ CreateOverride(g) \/ LookUp(g) \/ SelectTargets(g)
      BY <3>5 DEF MergeDoc, CreateNew, CreateOverride, LookUp, SelectTargets
    <3>6. CASE DeleteNew(g) \/ DeleteOverride(g) \/ DeleteDoc(g) \/ Restore(g)
      BY <3>6 DEF DeleteNew, DeleteOverride, DeleteDoc, Restore
    <3>7. CASE Answer(g) \/ Dies(g)
      BY <3>7 DEF Answer, Dies
    <3> QED
      BY <1>3, <3>1, <3>2, <3>3, <3>4, <3>5, <3>6, <3>7 DEF Step
  <2> QED
    BY <1>0, <2>1, <2>2, PendingShrinks
<1> QED
  BY <1>1, <1>2, <1>3

\* Every behaviour is well typed; in particular requests that overlap leave a row in the
\* table at most once for each of the threads.
THEOREM TypeCorrect == Spec => []TypeOK
<1>1. Init => RowsBounded /\ FaultsBounded
  <2> SUFFICES ASSUME Init PROVE RowsBounded /\ FaultsBounded
    OBVIOUS
  <2>1. ASSUME NEW v \in Values
        PROVE  table[v] + Cardinality(Pending(v)) <= Cardinality(Handlers)
    <3>1. Pending(v) = {} /\ table[v] \in {0, 1}
      BY <2>1 DEF Init, Pending
    <3>2. Cardinality(Pending(v)) = 0 /\ Cardinality(Handlers) \in Nat \ {0}
      BY <3>1, CanonAssumption, FS_EmptySet, FS_CardinalityType
    <3> QED
      BY <3>1, <3>2
  <2> QED
    BY <2>1, CanonAssumption DEF Init, RowsBounded, FaultsBounded
<1>2. IInv /\ IInv' /\ RowsBounded /\ FaultsBounded /\ [Next]_vars
        => RowsBounded' /\ FaultsBounded'
  <2> SUFFICES ASSUME IInv, IInv', RowsBounded, FaultsBounded, [Next]_vars
               PROVE  RowsBounded' /\ FaultsBounded'
    OBVIOUS
  <2>1. CASE UNCHANGED vars
    BY <2>1 DEF vars, RowsBounded, FaultsBounded, Pending
  <2>2. CASE Next
    <3>1. RowsBounded'
      BY <2>2, NextIsStep, RowsStep DEF IInv
    <3>2. FaultsBounded'
      BY <2>2, CanonAssumption DEF Next, Dies, FaultsBounded
    <3> QED
      BY <3>1, <3>2
  <2> QED
    BY <2>1, <2>2
<1>3. IInv /\ RowsBounded /\ FaultsBounded => TypeOK
  <2> SUFFICES ASSUME IInv, RowsBounded, FaultsBounded PROVE TypeOK
    OBVIOUS
  <2>1. ASSUME NEW v \in Values PROVE table[v] \in 0..Cardinality(Handlers)
    <3>1. Pending(v) \in SUBSET Handlers
      BY DEF Pending
    <3>2. Cardinality(Pending(v)) \in Nat /\ Cardinality(Handlers) \in Nat
      BY <3>1, PendingFinite
    <3> QED
      BY <3>2 DEF IInv, TypeInv, RowsBounded
  <2>2. table \in [Values -> 0..Cardinality(Handlers)]
    BY <2>1 DEF IInv, TypeInv
  <2> QED
    BY <2>2 DEF IInv, TypeInv, FaultsBounded, TypeOK
<1> QED
  BY <1>1, <1>2, <1>3, Inductive, PTL DEF Spec
===============================================================================
