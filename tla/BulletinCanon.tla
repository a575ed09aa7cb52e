----------------------------- MODULE BulletinCanon -----------------------------
(***************************************************************************)
(* The credit-score bulletin: POST /bulletin/apply and /bulletin/reset, the *)
(* four scripts they run one after the other, and what these do to the     *)
(* reason code L in the graph and in REFERENCE.TSPR_REASON_CODE_MAP.       *)
(*                                                                         *)
(* Each script is a sequence of Cypher or SQL statements, every one        *)
(* committed on its own.  Only what decides the versions is kept: the      *)
(* audit entries, USER_ACTION rows and citation edges are written and not  *)
(* read back, and the validation at the end of an apply is that of         *)
(* FilingLifecycle.                                                        *)
(***************************************************************************)
EXTENDS Naturals, FiniteSets

CONSTANTS
    Handlers,       \* request threads of the API
    OldL, NewL,     \* the CodeValues of code L: before and after the bulletin
    Others,         \* the CodeValues of the other reason codes
    MaxFaults       \* bound: requests that end in the middle

Values == {OldL, NewL} \union Others

ASSUME CanonAssumption ==
    /\ OldL # NewL /\ OldL \notin Others /\ NewL \notin Others
    /\ MaxFaults \in Nat
    /\ IsFiniteSet(Handlers) /\ Handlers # {}

VARIABLES
    status,      \* status of each CodeValue of the list; "absent": no node
    doc,         \* the bulletin's RegulationDocument exists
    override,    \* the BulletinOverride exists
    targets,     \* its OVERRIDES edges
    file,        \* rows of tspr_reason_code_map.sql
    table,       \* how often each CodeValue has a row in the reference table
    pc,          \* next statement of each handler
    op,          \* the request it serves
    old,         \* the CodeValue it read as the one to supersede
    rest,        \* what its loop still has to do
    alone,       \* history: no other request overlapped this one
    from,        \* history: the canon the request found
    faults

graph == <<status, doc, override, targets>>
vars == <<status, doc, override, targets, file, table, pc, op, old, rest, alone, from, faults>>

Status == {"absent", "approved", "draft", "superseded"}
PC == {"idle", "doc", "find", "new", "override", "lookup", "select", "supersede",
       "delete_new", "delete_override", "delete_doc", "restore",
       "build", "replace", "insert", "answer"}
Canons == {"baseline", "applied", "other"}

TypeOK ==
    /\ status \in [Values -> Status]
    /\ doc \in BOOLEAN /\ override \in BOOLEAN
    /\ targets \in SUBSET {OldL, NewL}
    /\ file \in SUBSET Values
    /\ table \in [Values -> 0..Cardinality(Handlers)]
    /\ pc \in [Handlers -> PC]
    /\ op \in [Handlers -> {"apply", "reset"}]
    /\ old \in [Handlers -> {OldL, NewL}]
    /\ rest \in [Handlers -> SUBSET Values]
    /\ alone \in [Handlers -> BOOLEAN]
    /\ from \in [Handlers -> Canons]
    /\ faults \in 0..MaxFaults

\* the list as extracted and its table as loaded, before any bulletin
Init ==
    /\ status = [v \in Values |-> IF v = NewL THEN "absent" ELSE "approved"]
    /\ doc = FALSE /\ override = FALSE /\ targets = {}
    /\ file = Values \ {NewL}
    /\ table = [v \in Values |-> IF v = NewL THEN 0 ELSE 1]
    /\ pc = [h \in Handlers |-> "idle"]
    /\ op = [h \in Handlers |-> "apply"]
    /\ old = [h \in Handlers |-> OldL]
    /\ rest = [h \in Handlers |-> {}]
    /\ alone = [h \in Handlers |-> TRUE]
    /\ from = [h \in Handlers |-> "baseline"]
    /\ faults = 0

-----------------------------------------------------------------------------
Goto(h, p) == pc' = [pc EXCEPT ![h] = p]

\* the request ends and its locals with it
End(h) ==
    /\ Goto(h, "idle")
    /\ op' = [op EXCEPT ![h] = "apply"]
    /\ old' = [old EXCEPT ![h] = OldL]
    /\ rest' = [rest EXCEPT ![h] = {}]
    /\ alone' = [alone EXCEPT ![h] = TRUE]
    /\ from' = [from EXCEPT ![h] = "baseline"]

\* the versions the edition-pinning queries see
Active == {v \in Values : status[v] \notin {"absent", "superseded"}}
ActiveL == Active \intersect {OldL, NewL}

\* the canon before the bulletin and the one it asks for
Baseline == ActiveL = {OldL} /\ status[NewL] = "absent" /\ ~doc /\ ~override
Applied == ActiveL = {NewL} /\ doc /\ targets = {OldL}

\* a request starts its first script
Start(h, o) ==
    /\ pc[h] = "idle"
    /\ Goto(h, IF o = "apply" THEN "doc" ELSE "delete_new")
    /\ op' = [op EXCEPT ![h] = o]
    /\ alone' = [g \in Handlers |-> IF g = h THEN \A k \in Handlers : pc[k] = "idle"
                                   ELSE pc[g] = "idle"]
    /\ from' = [from EXCEPT ![h] = IF Baseline THEN "baseline"
                                   ELSE IF Applied THEN "applied" ELSE "other"]
    /\ UNCHANGED <<graph, file, table, old, rest>>

-----------------------------------------------------------------------------
(* scripts.apply_credit_score_bulletin                                     *)

MergeDoc(h) ==
    /\ pc[h] = "doc"
    /\ doc' = TRUE
    /\ Goto(h, "find")
    /\ UNCHANGED <<status, override, targets, file, table, op, old, rest, alone, from>>

\* single() takes the first of several active versions; none ends the request
FindOld(h) ==
    /\ pc[h] = "find"
    /\ \/ \E v \in ActiveL :
            /\ old' = [old EXCEPT ![h] = v]
            /\ Goto(h, "new")
            /\ UNCHANGED <<op, rest, alone, from>>
       \/ ActiveL = {} /\ End(h)
    /\ UNCHANGED <<graph, file, table>>

CreateNew(h) ==
    /\ pc[h] = "new"
    /\ status' = [status EXCEPT ![NewL] = IF @ = "absent" THEN "draft" ELSE @]
    /\ Goto(h, "override")
    /\ UNCHANGED <<doc, override, targets, file, table, op, old, rest, alone, from>>

\* MERGE of the node and of an edge to the old version, if that still exists
CreateOverride(h) ==
    /\ pc[h] = "override"
    /\ override' = TRUE
    /\ targets' = targets \union {v \in {old[h]} : status[v] # "absent"}
    /\ Goto(h, "lookup")
    /\ UNCHANGED <<status, doc, file, table, op, old, rest, alone, from>>

-----------------------------------------------------------------------------
(* scripts.apply_bulletin --bulletin <name>                                *)

\* an override that is not there is reported and is no error
LookUp(h) ==
    /\ pc[h] = "lookup"
    /\ Goto(h, IF override THEN "select" ELSE "build")
    /\ UNCHANGED <<graph, file, table, op, old, rest, alone, from>>

\* mutant: the targets are looked up by their code
SelectByCode(h) ==
    /\ pc[h] = "select"
    /\ rest' = [rest EXCEPT ![h] = ActiveL]
    /\ Goto(h, "supersede")
    /\ UNCHANGED <<graph, file, table, op, old, alone, from>>

\* the targets that were not superseded when they were read
SelectTargets(h) ==
    /\ pc[h] = "select"
    /\ rest' = [rest EXCEPT ![h] = {v \in targets : status[v] # "superseded"}]
    /\ Goto(h, "supersede")
    /\ UNCHANGED <<graph, file, table, op, old, alone, from>>

Supersede(h) ==
    /\ pc[h] = "supersede"
    /\ \/ \E v \in rest[h] :
            /\ status' = [status EXCEPT ![v] = IF @ = "absent" THEN @ ELSE "superseded"]
            /\ rest' = [rest EXCEPT ![h] = @ \ {v}]
            /\ UNCHANGED pc
       \/ rest[h] = {} /\ Goto(h, "build") /\ UNCHANGED <<status, rest>>
    /\ UNCHANGED <<doc, override, targets, file, table, op, old, alone, from>>

-----------------------------------------------------------------------------
(* scripts.reset_credit_score_bulletin                                     *)

DeleteNew(h) ==
    /\ pc[h] = "delete_new"
    /\ status' = [status EXCEPT ![NewL] = "absent"]
    /\ targets' = targets \ {NewL}
    /\ Goto(h, "delete_override")
    /\ UNCHANGED <<doc, override, file, table, op, old, rest, alone, from>>

DeleteOverride(h) ==
    /\ pc[h] = "delete_override"
    /\ override' = FALSE /\ targets' = {}
    /\ Goto(h, "delete_doc")
    /\ UNCHANGED <<status, doc, file, table, op, old, rest, alone, from>>

DeleteDoc(h) ==
    /\ pc[h] = "delete_doc"
    /\ doc' = FALSE
    /\ Goto(h, "restore")
    /\ UNCHANGED <<status, override, targets, file, table, op, old, rest, alone, from>>

\* mutant: only the version the override points to is restored
RestoreOverridden(h) ==
    /\ pc[h] = "restore"
    /\ status' = [v \in Values |-> IF v \in targets THEN "approved" ELSE status[v]]
    /\ Goto(h, "build")
    /\ UNCHANGED <<doc, override, targets, file, table, op, old, rest, alone, from>>

Restore(h) ==
    /\ pc[h] = "restore"
    /\ status' = [v \in Values |-> IF v \in {OldL, NewL} /\ status[v] = "superseded"
                                   THEN "approved" ELSE status[v]]
    /\ Goto(h, "build")
    /\ UNCHANGED <<doc, override, targets, file, table, op, old, rest, alone, from>>

-----------------------------------------------------------------------------
(* scripts.build_reference_reason_codes, then snow sql -f                  *)

\* mutant: superseded versions are emitted as well
BuildAll(h) ==
    /\ pc[h] = "build"
    /\ file' = {v \in Values : status[v] # "absent"}
    /\ Goto(h, "replace")
    /\ UNCHANGED <<graph, table, op, old, rest, alone, from>>

\* one row per active version; a list without any is an error
Build(h) ==
    /\ pc[h] = "build"
    /\ IF Active = {} THEN End(h) /\ UNCHANGED file
       ELSE /\ file' = Active
            /\ Goto(h, "replace")
            /\ UNCHANGED <<op, old, rest, alone, from>>
    /\ UNCHANGED <<graph, table>>

\* mutant: the table is kept and only the rows are inserted
KeepTable(h) ==
    /\ pc[h] = "replace"
    /\ rest' = [rest EXCEPT ![h] = file]
    /\ Goto(h, "insert")
    /\ UNCHANGED <<graph, file, table, op, old, alone, from>>

\* CREATE OR REPLACE TABLE and DELETE
ReplaceTable(h) ==
    /\ pc[h] = "replace"
    /\ table' = [v \in Values |-> 0]
    /\ rest' = [rest EXCEPT ![h] = file]
    /\ Goto(h, "insert")
    /\ UNCHANGED <<graph, file, op, old, alone, from>>

InsertRow(h) ==
    /\ pc[h] = "insert"
    /\ \/ \E v \in rest[h] :
            /\ table' = [table EXCEPT ![v] = @ + 1]
            /\ rest' = [rest EXCEPT ![h] = @ \ {v}]
            /\ UNCHANGED pc
       \/ rest[h] = {} /\ Goto(h, "answer") /\ UNCHANGED <<table, rest>>
    /\ UNCHANGED <<graph, file, op, old, alone, from>>

\* "ok": true
Answer(h) ==
    /\ pc[h] = "answer"
    /\ End(h)
    /\ UNCHANGED <<graph, file, table>>

-----------------------------------------------------------------------------
\* a statement raises, a script passes its 120 seconds or the API stops:
\* the request ends there
Dies(h) ==
    /\ faults < MaxFaults /\ faults' = faults + 1
    /\ pc[h] # "idle"
    /\ End(h)
    /\ UNCHANGED <<graph, file, table>>

ApplySteps(h) ==
    \/ MergeDoc(h) \/ FindOld(h) \/ CreateNew(h) \/ CreateOverride(h)
    \/ LookUp(h) \/ SelectTargets(h) \/ Supersede(h)

ResetSteps(h) == DeleteNew(h) \/ DeleteOverride(h) \/ DeleteDoc(h) \/ Restore(h)

LoadSteps(h) == Build(h) \/ ReplaceTable(h) \/ InsertRow(h) \/ Answer(h)

Next ==
    \E h \in Handlers :
      \/ /\ \/ \E o \in {"apply", "reset"} : Start(h, o)
            \/ ApplySteps(h) \/ ResetSteps(h) \/ LoadSteps(h)
         /\ UNCHANGED faults
      \/ Dies(h)

Spec == Init /\ [][Next]_vars
-----------------------------------------------------------------------------
(* Properties.                                                             *)

\* the table has one row for each active version and no other row
TableIsCanon == \A v \in Values : table[v] = IF v \in Active THEN 1 ELSE 0

\* A request that nothing overlapped is about to answer with ok.
Succeeds(h, o) == pc[h] = "answer" /\ op[h] = o /\ alone[h]

\* A reset brings graph and table back to the baseline, whatever interleaved, half
\* done or repeated requests left behind ("Reverses what apply_credit_score_bulletin
\* + apply_bulletin did").
ResetRestores == \A h \in Handlers : Succeeds(h, "reset") => Baseline /\ TableIsCanon

\* An apply that starts from the baseline makes the bulletin's version of code L the
\* only active one, in the graph and in the table, whatever state an earlier failure
\* left the file or the table in.
ApplyTakesEffect ==
    \A h \in Handlers :
      Succeeds(h, "apply") /\ from[h] = "baseline" => Applied /\ TableIsCanon

\* While such an apply runs, and wherever it is cut off, the graph has an active
\* version of code L: the new one is there before the old one is superseded.
CodeKept ==
    \A h \in Handlers :
      op[h] = "apply" /\ from[h] = "baseline" /\ alone[h] /\ pc[h] # "idle"
        => ActiveL # {}

===============================================================================
