-------------------------- MODULE FilingLifecycle --------------------------
(***************************************************************************)
(* The life of one filing: validation, the sign-off chain, sealing and the *)
(* regulator's acknowledgment, as served by api/rhs_demo.py.               *)
(*                                                                         *)
(* Every endpoint is a synchronous FastAPI handler, so requests run in a   *)
(* thread pool; each SQL statement is sent on its own and commits at once. *)
(* A handler is therefore a sequence of actions, one per statement, and    *)
(* whatever a handler read is a local copy by the time it writes.          *)
(*                                                                         *)
(* A violation is a key: a (policy, rule) pair of the filing whose record  *)
(* the rule's violation_sql selects.  Row contents, citations and the      *)
(* resolution_action tag are left out.  GOLD is not part of this module.   *)
(***************************************************************************)
EXTENDS Naturals, Sequences, FiniteSets

CONSTANTS
    Handlers,        \* request threads of the API process
    Keys,            \* (policy, rule) pairs that can be in violation
    NumRules,        \* rows of REFERENCE.TSPR_VALIDATION_RULES, in rule_number order
    RuleOf,          \* RuleOf[k]: the rule of key k
    Blocking,        \* keys whose rule has severity ERROR
    Preexisting,     \* TRUE: the FILING_BATCH row was created beforehand
    MaxFaults,       \* bound: statements that raise, restarts of the process
    MaxSubmissions   \* bound: rows of FILING_SUBMISSION

Rules == 1..NumRules

ASSUME LifecycleAssumption ==
    /\ IsFiniteSet(Keys)
    /\ NumRules \in Nat \ {0}
    /\ RuleOf \in [Keys -> Rules]
    /\ Blocking \subseteq Keys
    /\ Preexisting \in BOOLEAN
    /\ MaxFaults \in Nat
    /\ MaxSubmissions \in Nat

VARIABLES
    \* the database
    bronze,       \* keys currently in violation in BRONZE
    batch,        \* the FILING_BATCH rows with this filing_batch_id
    exc,          \* FILING_EXCEPTION: resolution_status per key
    match,        \* RULE_MATCH_RESULT: status per rule in the latest run
    submissions,  \* FILING_SUBMISSION rows, oldest first
    log,          \* USER_ACTION: the kinds of request with a row
    \* the handlers
    pc,           \* the statement each handler is about to send
    op,           \* the request it serves
    cont,         \* where it goes on after _ensure_filing_batch
    rule,         \* loop over the rules: the next one
    found,        \* violations found so far
    todo,         \* loops over keys: the ones left
    \* history
    reached,      \* sign-off states ever written to FILING_BATCH.status
    blurred,      \* the last validation overlapped with another or was broken off
    faults        \* statements that raised and restarts so far

tables == <<bronze, batch, exc, match, submissions, log, reached>>
locals == <<op, cont, rule, found, todo>>
vars == <<bronze, batch, exc, match, submissions, log, reached,
          pc, op, cont, rule, found, todo, blurred, faults>>

-----------------------------------------------------------------------------
(* Sign-off chain.                                                         *)

\* mutant: the officer no longer waits for the actuary
OfficerSkipsActuary ==
    [ analyst |-> [required |-> "validated",        next |-> "analyst_signed"],
      actuary |-> [required |-> "analyst_signed",   next |-> "actuary_approved"],
      officer |-> [required |-> "analyst_signed",   next |-> "officer_approved"] ]

\* required state and next state per role; actor labels are left out
APPROVAL_CHAIN ==
    [ analyst |-> [required |-> "validated",        next |-> "analyst_signed"],
      actuary |-> [required |-> "analyst_signed",   next |-> "actuary_approved"],
      officer |-> [required |-> "actuary_approved", next |-> "officer_approved"] ]

Roles == {"analyst", "actuary", "officer"}

\* the states a validation run leaves alone
SignedOff == {"analyst_signed", "actuary_approved", "officer_approved",
              "submitted", "acked"}

Status == {"draft", "validating", "resolving", "validated"} \union SignedOff

\* mutant: sealing asks for the actuary's state
SealsEarly(o) == IF o \in Roles THEN APPROVAL_CHAIN[o].required
                 ELSE IF o = "seal" THEN "actuary_approved" ELSE "submitted"

\* the state a gate asks for, per chain operation
Required(o) == IF o \in Roles THEN APPROVAL_CHAIN[o].required
               ELSE IF o = "seal" THEN "officer_approved" ELSE "submitted"

\* the state its UPDATE writes
Target(o) == IF o \in Roles THEN APPROVAL_CHAIN[o].next
             ELSE IF o = "seal" THEN "submitted" ELSE "acked"

ChainOps == Roles \union {"seal", "ack"}
Ops == ChainOps \union {"validate", "view", "fix"}

Row == [status : Status, blockers : Nat]

PC == {"idle", "scope", "rules", "ensure", "create", "matches", "merge", "select_open",
       "close", "summary", "gate", "submission", "receipt", "write", "fix", "log"}

-----------------------------------------------------------------------------
TablesType ==
    /\ bronze \in SUBSET Keys
    /\ batch \in Seq(Row)
    /\ exc \in [Keys -> {"none", "open", "fixed"}]
    /\ match \in [Rules -> {"none", "pass", "fail"}]
    /\ submissions \in Seq({"sealed", "acked"})
    /\ log \in SUBSET Ops
    /\ reached \in SUBSET SignedOff

LocalsType ==
    /\ pc \in [Handlers -> PC]
    /\ op \in [Handlers -> Ops]
    /\ cont \in [Handlers -> PC]
    /\ rule \in [Handlers -> Rules]
    /\ found \in [Handlers -> SUBSET Keys]
    /\ todo \in [Handlers -> SUBSET Keys]

TypeOK == TablesType /\ LocalsType /\ blurred \in BOOLEAN /\ faults \in 0..MaxFaults

Init ==
    /\ bronze \in SUBSET Keys
    /\ batch = IF Preexisting THEN <<[status |-> "draft", blockers |-> 0]>> ELSE <<>>
    /\ exc = [k \in Keys |-> "none"]
    /\ match = [r \in Rules |-> "none"]
    /\ submissions = <<>>
    /\ log = {}
    /\ reached = {}
    /\ pc = [h \in Handlers |-> "idle"]
    /\ op = [h \in Handlers |-> "view"]
    /\ cont = [h \in Handlers |-> "idle"]
    /\ rule = [h \in Handlers |-> 1]
    /\ found = [h \in Handlers |-> {}]
    /\ todo = [h \in Handlers |-> {}]
    /\ blurred = FALSE
    /\ faults = 0

-----------------------------------------------------------------------------
(* Control of a handler.                                                   *)

\* h goes on to statement p; after the last statement it returns
Goto(h, p) == pc' = [pc EXCEPT ![h] = p]

\* h calls _ensure_filing_batch and continues at p
CallEnsure(h, p) ==
    /\ Goto(h, "ensure")
    /\ cont' = [cont EXCEPT ![h] = p]

\* h enters _record_action: ensure the batch, then insert the USER_ACTION row
CallRecordAction(h) == CallEnsure(h, "log")

\* h answers its request and forgets its locals
Return(h) ==
    /\ Goto(h, "idle")
    /\ op' = [op EXCEPT ![h] = "view"]
    /\ cont' = [cont EXCEPT ![h] = "idle"]
    /\ rule' = [rule EXCEPT ![h] = 1]
    /\ found' = [found EXCEPT ![h] = {}]
    /\ todo' = [todo EXCEPT ![h] = {}]

\* UPDATE FILING_BATCH SET status = s: every row with this id, whatever it holds
WriteStatus(s) ==
    /\ batch' = [i \in DOMAIN batch |-> [batch[i] EXCEPT !.status = s]]
    /\ reached' = IF batch = <<>> THEN reached ELSE reached \union {s}

-----------------------------------------------------------------------------
(* Requests arriving at an idle thread.                                    *)

Accept(h, o, p) ==
    /\ pc[h] = "idle"
    /\ Goto(h, p)
    /\ op' = [op EXCEPT ![h] = o]
    /\ UNCHANGED tables

\* GET /validate?filing=...
StartValidate(h) ==
    /\ Accept(h, "validate", "scope")
    /\ UNCHANGED <<cont, rule, found, todo>>

\* POST /filing/{id}/approve
StartApprove(h) ==
    /\ \E role \in Roles : Accept(h, role, "ensure")
    /\ cont' = [cont EXCEPT ![h] = "gate"]
    /\ UNCHANGED <<rule, found, todo>>

\* GET /filing/{id}/file?persist=true
StartSeal(h) ==
    /\ Len(submissions) + Cardinality({g \in Handlers : op[g] = "seal"}) < MaxSubmissions
    /\ Accept(h, "seal", "gate")
    /\ UNCHANGED <<cont, rule, found, todo>>

\* POST /filing/{id}/ack
StartAck(h) ==
    /\ Accept(h, "ack", "gate")
    /\ UNCHANGED <<cont, rule, found, todo>>

\* GET /filing/{id}/approval-state: creates the row as 'draft' on the first visit
StartView(h) ==
    /\ Accept(h, "view", "ensure")
    /\ UNCHANGED <<cont, rule, found, todo>>

\* POST /bronze/fix for a policy of this filing
StartFix(h) ==
    /\ Accept(h, "fix", "fix")
    /\ \E k \in Keys : todo' = [todo EXCEPT ![h] = {k}]
    /\ UNCHANGED <<cont, rule, found>>

-----------------------------------------------------------------------------
(* _ensure_filing_batch and _record_action.                                *)

\* continue after the ensure; GET approval-state has nothing left to change
AfterEnsure(h) ==
    IF cont[h] = "idle" THEN Return(h)
    ELSE Goto(h, cont[h]) /\ UNCHANGED locals

\* SELECT filing_batch_id ... : the row exists, or it has to be inserted
EnsureSelect(h) ==
    /\ pc[h] = "ensure"
    /\ IF batch # <<>> THEN AfterEnsure(h)
       ELSE Goto(h, "create") /\ UNCHANGED locals
    /\ UNCHANGED tables

\* INSERT; Snowflake does not enforce pk_filing_batch
EnsureInsert(h) ==
    /\ pc[h] = "create"
    /\ batch' = Append(batch,
                  [status |-> IF op[h] = "validate" /\ cont[h] = "matches"
                              THEN "validating" ELSE "draft",
                   blockers |-> 0])
    /\ AfterEnsure(h)
    /\ UNCHANGED <<bronze, exc, match, submissions, log, reached>>

\* INSERT INTO USER_ACTION; the handler then answers
RecordAction(h) ==
    /\ pc[h] = "log"
    /\ log' = log \union {op[h]}
    /\ Return(h)
    /\ UNCHANGED <<bronze, batch, exc, match, submissions, reached>>

-----------------------------------------------------------------------------
(* Validation: one SELECT per rule, then _record_validation_run.           *)

\* SELECT the policy of every record, to tell which violations are this filing's
ReadScope(h) ==
    /\ pc[h] = "scope"
    /\ Goto(h, "rules")
    /\ UNCHANGED tables
    /\ UNCHANGED locals

\* the rule loop moves on; after the last rule the run is recorded
NextRule(h) ==
    IF rule[h] = NumRules
    THEN CallEnsure(h, "matches") /\ UNCHANGED rule
    ELSE /\ rule' = [rule EXCEPT ![h] = @ + 1]
         /\ UNCHANGED <<pc, cont>>

EvaluateRule(h) ==
    /\ pc[h] = "rules"
    /\ found' = [found EXCEPT ![h] = @ \union {k \in bronze : RuleOf[k] = rule[h]}]
    /\ NextRule(h)
    /\ UNCHANGED <<tables, op, todo>>

\* one "fail" row per violation, one "pass" row per rule with violation_count 0
InsertMatches(h) ==
    /\ pc[h] = "matches"
    /\ match' = [r \in Rules |->
                   IF \E k \in found[h] : RuleOf[k] = r THEN "fail" ELSE "pass"]
    /\ todo' = [todo EXCEPT ![h] = found[h]]
    /\ Goto(h, IF found[h] = {} THEN "select_open" ELSE "merge")
    /\ UNCHANGED <<bronze, batch, exc, submissions, log, reached>>
    /\ UNCHANGED <<op, cont, rule, found>>

\* MERGE ... WHEN NOT MATCHED THEN INSERT 'open', violations in rule order
MergeException(h) ==
    /\ pc[h] = "merge"
    /\ \E k \in todo[h] :
         /\ \A j \in todo[h] : RuleOf[k] <= RuleOf[j]
         /\ exc' = [exc EXCEPT ![k] = IF @ = "none" THEN "open" ELSE @]
         /\ todo' = [todo EXCEPT ![h] = @ \ {k}]
         /\ Goto(h, IF todo[h] = {k} THEN "select_open" ELSE "merge")
    /\ UNCHANGED <<bronze, batch, match, submissions, log, reached>>
    /\ UNCHANGED <<op, cont, rule, found>>

\* mutant: the SELECT asks for another filing's exceptions and finds none
SelectNone(h) ==
    /\ pc[h] = "select_open"
    /\ todo' = [todo EXCEPT ![h] = {}]
    /\ Goto(h, "summary")
    /\ UNCHANGED <<tables, op, cont, rule, found>>

\* SELECT the open exceptions and keep those not in the current run
SelectOpen(h) ==
    /\ pc[h] = "select_open"
    /\ LET stale == {k \in Keys : exc[k] = "open"} \ found[h]
       IN  /\ todo' = [todo EXCEPT ![h] = stale]
           /\ Goto(h, IF stale = {} THEN "summary" ELSE "close")
    /\ UNCHANGED <<tables, op, cont, rule, found>>

CloseException(h) ==
    /\ pc[h] = "close"
    /\ \E k \in todo[h] :
         /\ exc' = [exc EXCEPT ![k] = "fixed"]
         /\ todo' = [todo EXCEPT ![h] = @ \ {k}]
         /\ Goto(h, IF todo[h] = {k} THEN "summary" ELSE "close")
    /\ UNCHANGED <<bronze, batch, match, submissions, log, reached>>
    /\ UNCHANGED <<op, cont, rule, found>>

\* open_blockers: violations of severity ERROR in this run
ErrorBlockers(h) == Cardinality(found[h] \intersect Blocking)

\* mutant: a run resets the sign-off states
ResetBySummary(row, n) ==
    [status |-> IF n > 0 THEN "resolving" ELSE "validated", blockers |-> n]

\* mutant: the count of the previous run stays
KeepsCount(row, n) ==
    [status |-> IF row.status \in SignedOff THEN row.status
                ELSE IF n > 0 THEN "resolving" ELSE "validated",
     blockers |-> row.blockers]

\* mutant: the count is one short
CountsShort(row, n) ==
    [status |-> IF row.status \in SignedOff THEN row.status
                ELSE IF n > 0 THEN "resolving" ELSE "validated",
     blockers |-> n - 1]

\* the row after a run: sign-off states stay, others follow the blockers
Summarised(row, n) ==
    [status |-> IF row.status \in SignedOff THEN row.status
                ELSE IF n > 0 THEN "resolving" ELSE "validated",
     blockers |-> n]

UpdateSummary(h) ==
    /\ pc[h] = "summary"
    /\ batch' = [i \in DOMAIN batch |-> Summarised(batch[i], ErrorBlockers(h))]
    /\ CallRecordAction(h)
    /\ UNCHANGED <<bronze, exc, match, submissions, log, reached>>
    /\ UNCHANGED <<op, rule, found, todo>>

-----------------------------------------------------------------------------
(* The gates.  A gate reads rows[0] of an unordered SELECT: any row.       *)

\* the gate lets h pass on to statement p, or answers 404 / 409
Gate(h, open, p) ==
    \/ /\ \E i \in DOMAIN batch : open[i]
       /\ Goto(h, p)
       /\ UNCHANGED locals
    \/ /\ batch = <<>> \/ \E i \in DOMAIN batch : ~open[i]
       /\ Return(h)

\* mutant: the blockers are not looked at
ApproveBlocked(h) ==
    /\ pc[h] = "gate" /\ op[h] \in Roles
    /\ Gate(h, [i \in DOMAIN batch |-> batch[i].status = Required(op[h])], "write")
    /\ UNCHANGED tables

ApproveGate(h) ==
    /\ pc[h] = "gate" /\ op[h] \in Roles
    /\ Gate(h, [i \in DOMAIN batch |-> /\ batch[i].status = Required(op[h])
                                       /\ batch[i].blockers = 0], "write")
    /\ UNCHANGED tables

\* mutant: the approval answers without its USER_ACTION
ApproveUnlogged(h) ==
    /\ pc[h] = "write" /\ op[h] \in Roles
    /\ WriteStatus(Target(op[h]))
    /\ Return(h)
    /\ UNCHANGED <<bronze, exc, match, submissions, log>>

ApproveWrite(h) ==
    /\ pc[h] = "write" /\ op[h] \in Roles
    /\ WriteStatus(Target(op[h]))
    /\ CallRecordAction(h)
    /\ UNCHANGED <<bronze, exc, match, submissions, log>>
    /\ UNCHANGED <<op, rule, found, todo>>

\* mutant: the submission row is not written
SealUnrecorded(h) ==
    /\ pc[h] = "gate" /\ op[h] = "seal"
    /\ Gate(h, [i \in DOMAIN batch |-> /\ batch[i].status = Required("seal")
                                       /\ batch[i].blockers = 0], "write")
    /\ UNCHANGED tables

SealGate(h) ==
    /\ pc[h] = "gate" /\ op[h] = "seal"
    /\ Gate(h, [i \in DOMAIN batch |-> /\ batch[i].status = Required("seal")
                                       /\ batch[i].blockers = 0], "submission")
    /\ UNCHANGED tables

\* INSERT INTO FILING_SUBMISSION ... 'sealed'
SealSubmission(h) ==
    /\ pc[h] = "submission"
    /\ submissions' = Append(submissions, "sealed")
    /\ Goto(h, "write")
    /\ UNCHANGED <<bronze, batch, exc, match, log, reached>>
    /\ UNCHANGED locals

SealWrite(h) ==
    /\ pc[h] = "write" /\ op[h] = "seal"
    /\ WriteStatus("submitted")
    /\ CallRecordAction(h)
    /\ UNCHANGED <<bronze, exc, match, submissions, log>>
    /\ UNCHANGED <<op, rule, found, todo>>

AckGate(h) ==
    /\ pc[h] = "gate" /\ op[h] = "ack"
    /\ Gate(h, [i \in DOMAIN batch |-> batch[i].status = Required("ack")], "receipt")
    /\ UNCHANGED tables

\* UPDATE the submission with the latest submitted_at
AckReceipt(h) ==
    /\ pc[h] = "receipt"
    /\ submissions' = [i \in DOMAIN submissions |->
                         IF i = Len(submissions) THEN "acked" ELSE submissions[i]]
    /\ Goto(h, "write")
    /\ UNCHANGED <<bronze, batch, exc, match, log, reached>>
    /\ UNCHANGED locals

AckWrite(h) ==
    /\ pc[h] = "write" /\ op[h] = "ack"
    /\ WriteStatus("acked")
    /\ CallRecordAction(h)
    /\ UNCHANGED <<bronze, exc, match, submissions, log>>
    /\ UNCHANGED <<op, rule, found, todo>>

-----------------------------------------------------------------------------
(* Bronze.                                                                 *)

\* UPDATE one Bronze field: the policy may satisfy or violate the rule afterwards
FixBronze(h) ==
    /\ pc[h] = "fix"
    /\ \E k \in todo[h] : bronze' \in {bronze \ {k}, bronze \union {k}}
    /\ todo' = [todo EXCEPT ![h] = {}]
    /\ CallRecordAction(h)
    /\ UNCHANGED <<batch, exc, match, submissions, log, reached>>
    /\ UNCHANGED <<op, rule, found>>

\* a Bronze load (TRUNCATE, then COPY) replaces the records; {} also stands for
\* the moment between the two statements
ReloadBronze ==
    /\ bronze' \in SUBSET Keys
    /\ UNCHANGED <<batch, exc, match, submissions, log, reached, pc>>
    /\ UNCHANGED locals

-----------------------------------------------------------------------------
(* Failures: h's statement raises and has no effect.                       *)

Fails == faults < MaxFaults /\ faults' = faults + 1

\* the lookup of ReadScope raises: swallowed, and no record maps to a policy of the
\* filing, so whatever the rules select is dropped and the run is recorded empty
ScopeRaises(h) ==
    /\ Fails
    /\ pc[h] = "scope"
    /\ CallEnsure(h, "matches")
    /\ UNCHANGED tables
    /\ UNCHANGED <<op, rule, found, todo>>

\* the rule's SQL raises: violation_count 0, so that it counts as passed; next rule
RuleRaises(h) ==
    /\ Fails
    /\ pc[h] = "rules"
    /\ NextRule(h)
    /\ UNCHANGED <<tables, op, found, todo>>

\* inside _ensure_filing_batch: swallowed, the caller goes on with filing_id
EnsureRaises(h) ==
    /\ Fails
    /\ pc[h] \in {"ensure", "create"}
    /\ AfterEnsure(h)
    /\ UNCHANGED tables

\* inside _record_validation_run or _record_action: the rest is abandoned;
\* in a gate, an approval, an ack or a fix: HTTP 500
StatementRaises(h) ==
    /\ Fails
    /\ \/ pc[h] \in {"matches", "merge", "select_open", "close", "summary",
                     "gate", "receipt", "fix", "log"}
       \/ pc[h] = "write" /\ op[h] # "seal"
    /\ Return(h)
    /\ UNCHANGED tables

\* sealing goes on without the submission row, and without the new status
SealStatementRaises(h) ==
    /\ Fails
    /\ \/ /\ pc[h] = "submission"
          /\ Goto(h, "write")
          /\ UNCHANGED locals
       \/ /\ pc[h] = "write" /\ op[h] = "seal"
          /\ CallRecordAction(h)
          /\ UNCHANGED <<op, rule, found, todo>>
    /\ UNCHANGED tables

\* the API process restarts: every request in flight is gone
Restart ==
    /\ Fails
    /\ pc' = [h \in Handlers |-> "idle"]
    /\ op' = [h \in Handlers |-> "view"]
    /\ cont' = [h \in Handlers |-> "idle"]
    /\ rule' = [h \in Handlers |-> 1]
    /\ found' = [h \in Handlers |-> {}]
    /\ todo' = [h \in Handlers |-> {}]
    /\ UNCHANGED tables

-----------------------------------------------------------------------------
Start(h) ==
    \/ StartValidate(h) \/ StartApprove(h) \/ StartSeal(h)
    \/ StartAck(h) \/ StartView(h) \/ StartFix(h)

\* the next statement of the request h serves
Step(h) ==
    \/ EnsureSelect(h) \/ EnsureInsert(h) \/ RecordAction(h)
    \/ ReadScope(h) \/ EvaluateRule(h) \/ InsertMatches(h) \/ MergeException(h)
    \/ SelectOpen(h) \/ CloseException(h) \/ UpdateSummary(h)
    \/ ApproveGate(h) \/ ApproveWrite(h)
    \/ SealGate(h) \/ SealSubmission(h) \/ SealWrite(h)
    \/ AckGate(h) \/ AckReceipt(h) \/ AckWrite(h)
    \/ FixBronze(h)

Fault(h) ==
    \/ ScopeRaises(h) \/ RuleRaises(h) \/ EnsureRaises(h)
    \/ StatementRaises(h) \/ SealStatementRaises(h)

\* the statements of a validation that record its run, from the first MERGE to the summary
Recording == {"merge", "select_open", "close", "summary"}
Records(h) == pc[h] \in Recording

\* A run that begins to record alone starts afresh; one that overlaps with another, or
\* ends without its summary, leaves exceptions and summary of different runs.
Blurs ==
    \/ \E g, h \in Handlers : g # h /\ Records(g) /\ Records(h)'
    \/ \E h \in Handlers : Records(h) /\ pc'[h] = "idle"
    \/ blurred /\ ~ /\ \A h \in Handlers : ~Records(h)
                    /\ \E h \in Handlers : Records(h)'

Next ==
    /\ \/ /\ \/ \E h \in Handlers : Start(h) \/ Step(h)
             \/ ReloadBronze
          /\ UNCHANGED faults
       \/ \E h \in Handlers : Fault(h)
       \/ Restart
    /\ blurred' = Blurs

Spec == Init /\ [][Next]_vars
-----------------------------------------------------------------------------
(* Properties.                                                             *)

Quiet == \A h \in Handlers : pc[h] = "idle"

\* Nobody's signature is skipped: a row of the filing is in a sign-off state
\* only when the filing has been through every state before it in
\* APPROVAL_CHAIN, seal and ack included, however the requests interleave.
SignaturesComplete ==
    \A i \in DOMAIN batch :
      /\ batch[i].status \in SignedOff => "analyst_signed" \in reached
      /\ batch[i].status \in SignedOff \ {"analyst_signed"} =>
            "actuary_approved" \in reached
      /\ batch[i].status \in {"officer_approved", "submitted", "acked"} =>
            "officer_approved" \in reached
      /\ batch[i].status = "acked" => "submitted" \in reached

\* 'validated' and 'resolving' say what open_blockers says: one UPDATE writes
\* both, and no other statement may separate them (_record_validation_run).
StatusMatchesBlockers ==
    \A i \in DOMAIN batch :
      /\ batch[i].status = "validated" => batch[i].blockers = 0
      /\ batch[i].status = "resolving" => batch[i].blockers > 0

\* "Do not regress later sign-off states": once a row carries a signature no
\* statement of any request takes it back to a state before the signatures.
NeverUnsigned ==
    [][\A i \in DOMAIN batch :
         batch[i].status \in SignedOff => batch'[i].status \in SignedOff]_batch

\* A filing is 'submitted' only with a sealed file on record, and 'acked' only
\* with an acknowledged one (filing_file and filing_ack write the submission
\* before the status), as long as no statement fails.
CustodyOnRecord ==
    faults = 0 => \A i \in DOMAIN batch :
      /\ batch[i].status \in {"submitted", "acked"} => submissions # <<>>
      /\ batch[i].status = "acked" =>
            \E j \in DOMAIN submissions : submissions[j] = "acked"

\* Each transition leaves its USER_ACTION row: when no request is in flight, the
\* log names the operation of every sign-off state the filing has been in.
TransitionsLogged ==
    faults = 0 /\ Quiet => \A o \in ChainOps : Target(o) \in reached => o \in log

\* The documented state machine of one filing; the first FILING_BATCH row
\* carries its state.
Machine == INSTANCE FilingStateMachine WITH
    status   <- IF batch = <<>> THEN "none" ELSE batch[1].status,
    blockers <- IF batch = <<>> THEN 0 ELSE batch[1].blockers
ImplementsMachine == Machine!Spec

\* With no request in flight a 'validated' filing has no open exception of severity ERROR,
\* although exceptions and summary are written by many statements: one validation that
\* records its run alone and to the end repairs what overlapping runs, runs broken off and
\* rules that raised have left (_record_validation_run).
ValidatedHasNoOpenBlocker ==
    Quiet /\ ~blurred => \A i \in DOMAIN batch : batch[i].status = "validated" =>
               \A k \in Blocking : exc[k] # "open"

\* "Only an officer-approved filing with zero open ERROR blockers can be submitted": when
\* filing_file writes 'submitted' the filing has no open blockers, as its gate has asked.
SealedOnlyWhenClear ==
    [][\A h \in Handlers : SealWrite(h) => \A i \in DOMAIN batch : batch[i].blockers = 0]_vars

============================================================================
