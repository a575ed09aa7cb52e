--------------------------- MODULE SignoffProofs ---------------------------
(***************************************************************************)
(* The sign-off chain of FilingLifecycle, proved for every set of request  *)
(* threads, every set of violations and any number of failures; then what  *)
(* it leaves on record, what a validation that records alone leaves, and   *)
(* what holds for one request at a time.                                   *)
(***************************************************************************)
EXTENDS FilingLifecycleProofs

\* The chain of docs/poc-decisions.md:602, from 'validated' on: who signs directly before whom.
Before == { <<"analyst_signed", "actuary_approved">>,
            <<"actuary_approved", "officer_approved">>,
            <<"officer_approved", "submitted">>,
            <<"submitted", "acked">> }

\* the sign-off states that must come before s
Predecessors(s) == {r \in SignedOff : <<r, s>> \in Before}

\* The strengthening that makes SignaturesComplete inductive.
\* The history has no gap.
NoGap == \A s \in reached : Predecessors(s) \subseteq reached

\* A row is never in a sign-off state the filing has not been in.
RowsReached == \A i \in DOMAIN batch : batch[i].status \in SignedOff => batch[i].status \in reached

\* A handler past its gate read the state its UPDATE builds on: the state may have
\* changed since, but the filing has been in it.
PastGate(h) ==
    pc[h] \in {"submission", "receipt", "write"} =>
      /\ op[h] \in ChainOps
      /\ Predecessors(Target(op[h])) \subseteq reached

\* _ensure_filing_batch is called before the gate and before the log, never after
\* the gate has been passed.
ContBeforeGate(h) == cont[h] \in {"idle", "gate", "matches", "log"}

SignoffInv ==
    /\ NoGap
    /\ RowsReached
    /\ \A h \in Handlers : PastGate(h) /\ ContBeforeGate(h)

\* A step of h leaves what the other handlers hold alone.
Elsewhere(h) == \A g \in Handlers \ {h} : pc'[g] = pc[g] /\ op'[g] = op[g] /\ cont'[g] = cont[g]

-----------------------------------------------------------------------------
(* The state a chain operation asks for is the one before the state it     *)
(* writes, so a gate that opens has seen the predecessor.                  *)

LEMMA GateMatchesChain ==
    \A o \in ChainOps :
      /\ Target(o) \in SignedOff
      /\ Predecessors(Target(o)) \subseteq {Required(o)} \intersect SignedOff
<1>1. ASSUME NEW s, NEW r, r \in Predecessors(s)
      PROVE  \/ s = "actuary_approved" /\ r = "analyst_signed"
             \/ s = "officer_approved" /\ r = "actuary_approved"
             \/ s = "submitted" /\ r = "officer_approved"
             \/ s = "acked" /\ r = "submitted"
  BY <1>1 DEF Predecessors, Before
<1>2. \A o \in Roles : /\ Target(o) = APPROVAL_CHAIN[o].next
                       /\ Required(o) = APPROVAL_CHAIN[o].required
  BY DEF Target, Required
<1>3. /\ Target("seal") = "submitted" /\ Required("seal") = "officer_approved"
      /\ Target("ack") = "acked" /\ Required("ack") = "submitted"
  BY DEF Target, Required, Roles
<1>4. ASSUME NEW o \in Roles
      PROVE  /\ Target(o) \in SignedOff
             /\ \A r \in Predecessors(Target(o)) : r = Required(o) /\ r \in SignedOff
  BY <1>1, <1>2 DEF Roles, APPROVAL_CHAIN, SignedOff
<1>5. ASSUME NEW o \in {"seal", "ack"}
      PROVE  /\ Target(o) \in SignedOff
             /\ \A r \in Predecessors(Target(o)) : r = Required(o) /\ r \in SignedOff
  BY <1>1, <1>3 DEF SignedOff
<1> QED
  BY <1>4, <1>5 DEF ChainOps

\* A step of one handler that keeps the tables' part keeps all of SignoffInv when
\* the handler itself is where it may be.
LEMMA HandlerStep ==
    ASSUME SignoffInv, NEW h \in Handlers, Elsewhere(h),
           reached \subseteq reached', NoGap', RowsReached',
           PastGate(h)', ContBeforeGate(h)'
    PROVE  SignoffInv'
<1>1. ASSUME NEW g \in Handlers \ {h}
      PROVE  PastGate(g)' /\ ContBeforeGate(g)'
  BY <1>1 DEF SignoffInv, PastGate, ContBeforeGate, Elsewhere
<1> QED
  BY <1>1 DEF SignoffInv

\* The same for a step that leaves FILING_BATCH alone.
LEMMA LocalStep ==
    ASSUME SignoffInv, NEW h \in Handlers, Elsewhere(h), UNCHANGED <<batch, reached>>,
           PastGate(h)', ContBeforeGate(h)'
    PROVE  SignoffInv'
BY HandlerStep DEF SignoffInv, NoGap, RowsReached

\* Where a handler is after each control operator.
LEMMA ReturnLocal ==
    ASSUME LocalsType, NEW h \in Handlers, Return(h)
    PROVE  Elsewhere(h) /\ PastGate(h)' /\ ContBeforeGate(h)'
BY DEF LocalsType, Return, Goto, Elsewhere, PastGate, ContBeforeGate

LEMMA GotoLocal ==
    ASSUME LocalsType, SignoffInv, NEW h \in Handlers,
           NEW p \in PC \ {"submission", "receipt", "write"}, Goto(h, p), UNCHANGED <<op, cont>>
    PROVE  Elsewhere(h) /\ PastGate(h)' /\ ContBeforeGate(h)'
BY DEF SignoffInv, LocalsType, Goto, Elsewhere, PastGate, ContBeforeGate

LEMMA EnsureLocal ==
    ASSUME LocalsType, NEW h \in Handlers, NEW p \in {"idle", "gate", "matches", "log"},
           CallEnsure(h, p), UNCHANGED op
    PROVE  Elsewhere(h) /\ PastGate(h)' /\ ContBeforeGate(h)'
BY DEF LocalsType, CallEnsure, Goto, Elsewhere, PastGate, ContBeforeGate

LEMMA AfterEnsureLocal ==
    ASSUME LocalsType, SignoffInv, NEW h \in Handlers, AfterEnsure(h)
    PROVE  Elsewhere(h) /\ PastGate(h)' /\ ContBeforeGate(h)'
<1>1. cont[h] \in {"idle", "gate", "matches", "log"}
  BY DEF SignoffInv, ContBeforeGate
<1>2. CASE cont[h] = "idle"
  BY <1>2, ReturnLocal DEF AfterEnsure
<1>3. CASE cont[h] # "idle"
  BY <1>1, <1>3, GotoLocal DEF AfterEnsure, locals, PC
<1> QED
  BY <1>2, <1>3

\* Opening a gate: some row held the required state, so the filing has been in it.
LEMMA GateLocal ==
    ASSUME LocalsType, SignoffInv, NEW h \in Handlers, op[h] \in ChainOps,
           NEW open, NEW p \in PC, Gate(h, open, p),
           \A i \in DOMAIN batch : open[i] => batch[i].status = Required(op[h]),
           UNCHANGED <<batch, reached>>
    PROVE  Elsewhere(h) /\ PastGate(h)' /\ ContBeforeGate(h)'
<1>1. CASE Return(h)
  BY <1>1, ReturnLocal
<1>2. CASE (\E i \in DOMAIN batch : open[i]) /\ Goto(h, p) /\ UNCHANGED locals
  <2>1. PICK i \in DOMAIN batch : batch[i].status = Required(op[h])
    BY <1>2
  <2>2. Predecessors(Target(op[h])) \subseteq {batch[i].status} \intersect SignedOff
    BY <2>1, GateMatchesChain
  <2>3. Predecessors(Target(op[h])) \subseteq reached
    BY <2>2 DEF SignoffInv, RowsReached
  <2> QED
    BY <1>2, <2>3
       DEF locals, LocalsType, Goto, Elsewhere, PastGate, ContBeforeGate, SignoffInv
<1> QED
  BY <1>1, <1>2 DEF Gate

-----------------------------------------------------------------------------
(* Preservation, one lemma per group of actions.                           *)

LEMMA StartKeeps ==
    ASSUME TypeOK, SignoffInv, NEW h \in Handlers, Start(h)
    PROVE  SignoffInv'
<1>1. /\ Elsewhere(h) /\ UNCHANGED <<batch, reached>>
      /\ pc'[h] \in {"scope", "ensure", "gate", "fix"}
      /\ cont'[h] \in {cont[h], "gate"}
  BY DEF Start, StartValidate, StartApprove, StartSeal, StartAck, StartView, StartFix,
         Accept, Goto, tables, TypeOK, LocalsType, Elsewhere
<1> QED
  BY <1>1, LocalStep DEF PastGate, ContBeforeGate, SignoffInv

LEMMA EnsureKeeps ==
    ASSUME TypeOK, SignoffInv, NEW h \in Handlers,
           \/ EnsureSelect(h) \/ EnsureInsert(h) \/ RecordAction(h)
           \/ EnsureRaises(h) \/ StatementRaises(h)
    PROVE  SignoffInv'
<1> USE DEF TypeOK
<1>1. CASE EnsureSelect(h)
  <2>1. CASE AfterEnsure(h)
    BY <1>1, <2>1, AfterEnsureLocal, LocalStep DEF EnsureSelect, tables
  <2>2. CASE Goto(h, "create") /\ UNCHANGED locals
    BY <1>1, <2>2, GotoLocal, LocalStep DEF EnsureSelect, tables, locals, PC
  <2> QED
    BY <1>1, <2>1, <2>2 DEF EnsureSelect
<1>2. CASE EnsureInsert(h)
  <2>1. PICK s \in {"validating", "draft"} : batch' = Append(batch, [status |-> s, blockers |-> 0])
    BY <1>2 DEF EnsureInsert
  <2>2. RowsReached'
    <3> SUFFICES ASSUME NEW i \in DOMAIN batch', batch'[i].status \in SignedOff
                 PROVE  batch'[i].status \in reached'
      BY DEF RowsReached
    <3>1. i \in DOMAIN batch /\ batch'[i] = batch[i]
      BY <2>1 DEF TablesType, SignedOff
    <3> QED
      BY <1>2, <3>1 DEF EnsureInsert, SignoffInv, RowsReached
  <2>3. NoGap' /\ reached \subseteq reached'
    BY <1>2 DEF EnsureInsert, SignoffInv, NoGap
  <2> QED
    BY <1>2, <2>2, <2>3, AfterEnsureLocal, HandlerStep DEF EnsureInsert
<1>3. CASE RecordAction(h)
  BY <1>3, ReturnLocal, LocalStep DEF RecordAction
<1>4. CASE EnsureRaises(h)
  BY <1>4, AfterEnsureLocal, LocalStep DEF EnsureRaises, tables
<1>5. CASE StatementRaises(h)
  BY <1>5, ReturnLocal, LocalStep DEF StatementRaises, tables
<1> QED
  BY <1>1, <1>2, <1>3, <1>4, <1>5

LEMMA ValidationKeeps ==
    ASSUME TypeOK, SignoffInv, NEW h \in Handlers,
           \/ ReadScope(h) \/ ScopeRaises(h) \/ EvaluateRule(h) \/ RuleRaises(h)
           \/ InsertMatches(h) \/ MergeException(h)
           \/ SelectOpen(h) \/ CloseException(h) \/ UpdateSummary(h) \/ FixBronze(h)
    PROVE  SignoffInv'
<1> USE DEF TypeOK
<1>1. CASE EvaluateRule(h) \/ RuleRaises(h)
  <2>1. NextRule(h) /\ UNCHANGED <<batch, reached, op>> /\ pc[h] = "rules"
    BY <1>1 DEF EvaluateRule, RuleRaises, tables
  <2>2. Elsewhere(h) /\ PastGate(h)' /\ ContBeforeGate(h)'
    <3>1. CASE CallEnsure(h, "matches")
      BY <2>1, <3>1, EnsureLocal
    <3>2. CASE UNCHANGED <<pc, cont>>
      BY <2>1, <3>2 DEF Elsewhere, PastGate, ContBeforeGate, SignoffInv
    <3> QED
      BY <2>1, <3>1, <3>2 DEF NextRule
  <2> QED
    BY <2>1, <2>2, LocalStep
<1>2. CASE InsertMatches(h) \/ MergeException(h) \/ SelectOpen(h) \/ CloseException(h)
  <2>1. \E p \in {"select_open", "merge", "summary", "close"} : Goto(h, p)
    BY <1>2 DEF InsertMatches, MergeException, SelectOpen, CloseException
  <2>2. UNCHANGED <<batch, reached, op, cont>>
    BY <1>2 DEF InsertMatches, MergeException, SelectOpen, CloseException, tables
  <2> QED
    BY <2>1, <2>2, GotoLocal, LocalStep DEF PC
<1>3. CASE UpdateSummary(h)
  <2>1. RowsReached'
    <3> SUFFICES ASSUME NEW i \in DOMAIN batch', batch'[i].status \in SignedOff
                 PROVE  batch'[i].status \in reached'
      BY DEF RowsReached
    <3>1. i \in DOMAIN batch /\ batch'[i] = Summarised(batch[i], ErrorBlockers(h))
      BY <1>3 DEF UpdateSummary
    <3>2. batch[i].status \in SignedOff /\ batch'[i].status = batch[i].status
      BY <3>1 DEF Summarised, SignedOff
    <3> QED
      BY <1>3, <3>1, <3>2 DEF UpdateSummary, SignoffInv, RowsReached
  <2>2. NoGap' /\ reached \subseteq reached'
    BY <1>3 DEF UpdateSummary, SignoffInv, NoGap
  <2> QED
    BY <1>3, <2>1, <2>2, EnsureLocal, HandlerStep DEF UpdateSummary, CallRecordAction
<1>4. CASE FixBronze(h)
  BY <1>4, EnsureLocal, LocalStep DEF FixBronze, CallRecordAction
<1>5. CASE ReadScope(h)
  BY <1>5, GotoLocal, LocalStep DEF ReadScope, tables, locals, PC
<1>6. CASE ScopeRaises(h)
  BY <1>6, EnsureLocal, LocalStep DEF ScopeRaises, tables
<1> QED
  BY <1>1, <1>2, <1>3, <1>4, <1>5, <1>6

LEMMA GateKeeps ==
    ASSUME TypeOK, SignoffInv, NEW h \in Handlers,
           ApproveGate(h) \/ SealGate(h) \/ AckGate(h)
    PROVE  SignoffInv'
<1> USE DEF TypeOK
<1>1. op[h] \in ChainOps /\ UNCHANGED <<batch, reached>>
  BY DEF ApproveGate, SealGate, AckGate, ChainOps, tables
<1>2. CASE ApproveGate(h)
  <2> DEFINE open == [i \in DOMAIN batch |-> /\ batch[i].status = Required(op[h])
                                          /\ batch[i].blockers = 0]
  <2>1. Gate(h, open, "write")
    BY <1>2 DEF ApproveGate
  <2>2. \A i \in DOMAIN batch : open[i] => batch[i].status = Required(op[h])
    BY <2>1
  <2> HIDE DEF open
  <2> QED
    BY <1>1, <2>1, <2>2, GateLocal, LocalStep DEF PC
<1>3. CASE SealGate(h)
  <2> DEFINE open == [i \in DOMAIN batch |-> /\ batch[i].status = Required("seal")
                                          /\ batch[i].blockers = 0]
  <2>1. Gate(h, open, "submission") /\ op[h] = "seal"
    BY <1>3 DEF SealGate
  <2>2. \A i \in DOMAIN batch : open[i] => batch[i].status = Required(op[h])
    BY <2>1
  <2> HIDE DEF open
  <2> QED
    BY <1>1, <2>1, <2>2, GateLocal, LocalStep DEF PC
<1>4. CASE AckGate(h)
  <2> DEFINE open == [i \in DOMAIN batch |-> batch[i].status = Required("ack")]
  <2>1. Gate(h, open, "receipt") /\ op[h] = "ack"
    BY <1>4 DEF AckGate
  <2>2. \A i \in DOMAIN batch : open[i] => batch[i].status = Required(op[h])
    BY <2>1
  <2> HIDE DEF open
  <2> QED
    BY <1>1, <2>1, <2>2, GateLocal, LocalStep DEF PC
<1> QED
  BY <1>2, <1>3, <1>4

\* Writing the target of a handler past its gate closes no gap and opens none.
LEMMA WriteKeepsTables ==
    ASSUME TypeOK, SignoffInv, NEW h \in Handlers, pc[h] = "write", WriteStatus(Target(op[h]))
    PROVE  NoGap' /\ RowsReached' /\ reached \subseteq reached'
<1>1. Predecessors(Target(op[h])) \subseteq reached
  BY DEF SignoffInv, PastGate
<1>2. NoGap'
  BY <1>1 DEF WriteStatus, NoGap, SignoffInv
<1>3. RowsReached'
  <2> SUFFICES ASSUME NEW i \in DOMAIN batch'
               PROVE  batch'[i].status \in reached'
    BY DEF RowsReached
  <2>1. i \in DOMAIN batch /\ batch # <<>>
    BY DEF WriteStatus
  <2>2. batch[i] \in Row
    BY <2>1, LenProperties, ElementOfSeq DEF TypeOK, TablesType
  <2>3. batch'[i].status = Target(op[h])
    BY <2>1, <2>2 DEF WriteStatus, Row
  <2> QED
    BY <2>1, <2>3 DEF WriteStatus
<1> QED
  BY <1>2, <1>3 DEF WriteStatus

LEMMA WriteKeeps ==
    ASSUME TypeOK, SignoffInv, NEW h \in Handlers,
           ApproveWrite(h) \/ SealWrite(h) \/ AckWrite(h)
    PROVE  SignoffInv'
<1>1. pc[h] = "write" /\ WriteStatus(Target(op[h]))
  BY DEF ApproveWrite, SealWrite, AckWrite, Target, Roles
<1>2. CallEnsure(h, "log") /\ UNCHANGED op
  BY DEF ApproveWrite, SealWrite, AckWrite, CallRecordAction
<1> QED
  BY <1>1, <1>2, WriteKeepsTables, EnsureLocal, HandlerStep DEF TypeOK

\* The submission is written between the gate and the status: h stays past its gate.
LEMMA SubmissionKeeps ==
    ASSUME TypeOK, SignoffInv, NEW h \in Handlers,
           SealSubmission(h) \/ AckReceipt(h) \/ SealStatementRaises(h)
    PROVE  SignoffInv'
<1>1. UNCHANGED <<batch, reached>>
  BY DEF SealSubmission, AckReceipt, SealStatementRaises, tables
<1>2. CASE pc[h] \in {"submission", "receipt"} /\ Goto(h, "write") /\ UNCHANGED locals
  <2>1. Elsewhere(h) /\ ContBeforeGate(h)'
    BY <1>2 DEF TypeOK, LocalsType, Goto, locals, Elsewhere, ContBeforeGate, SignoffInv
  <2>2. PastGate(h)'
    BY <1>1, <1>2 DEF Goto, locals, PastGate, SignoffInv
  <2> QED
    BY <1>1, <2>1, <2>2, LocalStep
<1>3. CASE CallRecordAction(h) /\ UNCHANGED op
  BY <1>1, <1>3, EnsureLocal, LocalStep DEF CallRecordAction, TypeOK
<1> QED
  BY <1>2, <1>3 DEF SealSubmission, AckReceipt, SealStatementRaises

LEMMA RestartKeeps ==
    ASSUME SignoffInv, Restart \/ ReloadBronze \/ UNCHANGED vars
    PROVE  SignoffInv'
<1>1. UNCHANGED <<batch, reached>>
  BY DEF Restart, ReloadBronze, vars, tables
<1>2. \A h \in Handlers : PastGate(h)' /\ ContBeforeGate(h)'
  <2>1. CASE Restart
    BY <2>1 DEF Restart, PastGate, ContBeforeGate
  <2>2. CASE ReloadBronze \/ UNCHANGED vars
    BY <2>2 DEF ReloadBronze, vars, locals, PastGate, ContBeforeGate, SignoffInv
  <2> QED
    BY <2>1, <2>2
<1> QED
  BY <1>1, <1>2 DEF SignoffInv, NoGap, RowsReached

-----------------------------------------------------------------------------
LEMMA SignoffInductive ==
    /\ Init => SignoffInv
    /\ TypeOK /\ SignoffInv /\ [Next]_vars => SignoffInv'
<1>1. Init => SignoffInv
  <2> SUFFICES ASSUME Init PROVE SignoffInv
    OBVIOUS
  <2>1. RowsReached
    BY DEF Init, RowsReached, SignedOff
  <2>2. NoGap
    BY DEF Init, NoGap
  <2> QED
    BY <2>1, <2>2 DEF Init, SignoffInv, PastGate, ContBeforeGate
<1>2. ASSUME TypeOK, SignoffInv, [Next]_vars
      PROVE  SignoffInv'
  <2>1. ASSUME NEW h \in Handlers, Step(h)
        PROVE  SignoffInv'
    BY <1>2, <2>1, EnsureKeeps, ValidationKeeps, GateKeeps, WriteKeeps, SubmissionKeeps
       DEF Step
  <2>2. ASSUME NEW h \in Handlers, Fault(h)
        PROVE  SignoffInv'
    BY <1>2, <2>2, EnsureKeeps, ValidationKeeps, SubmissionKeeps DEF Fault
  <2> QED
    BY <1>2, <2>1, <2>2, StartKeeps, RestartKeeps DEF Next
<1> QED
  BY <1>1, <1>2

\* However requests interleave, fail or are cut off by a restart, no row of the
\* filing is in a sign-off state unless every signature before it was given.
THEOREM SignaturesAreComplete == Spec => []SignaturesComplete
<1>1. SignoffInv => SignaturesComplete
  <2> SUFFICES ASSUME SignoffInv, NEW i \in DOMAIN batch, batch[i].status \in SignedOff
               PROVE  /\ "analyst_signed" \in reached
                      /\ batch[i].status # "analyst_signed" => "actuary_approved" \in reached
                      /\ batch[i].status \in {"officer_approved", "submitted", "acked"} =>
                            "officer_approved" \in reached
                      /\ batch[i].status = "acked" => "submitted" \in reached
    BY DEF SignaturesComplete, SignedOff
  <2>1. batch[i].status \in reached
    BY DEF SignoffInv, RowsReached
  <2>2. /\ "actuary_approved" \in reached => "analyst_signed" \in reached
        /\ "officer_approved" \in reached => "actuary_approved" \in reached
        /\ "submitted" \in reached => "officer_approved" \in reached
        /\ "acked" \in reached => "submitted" \in reached
    BY DEF SignoffInv, NoGap, Predecessors, Before, SignedOff
  <2> QED
    BY <2>1, <2>2 DEF SignedOff
<1> QED
  BY <1>1, TypeCorrect, SignoffInductive, PTL DEF Spec

-----------------------------------------------------------------------------
(* The three ways a step changes FILING_BATCH: the ensure inserts a row, a *)
(* validation run writes its summary, a chain operation writes its status. *)

Inserted == \E s \in {"validating", "draft"} : batch' = Append(batch, [status |-> s, blockers |-> 0])
Summary == \E n \in Nat : batch' = [i \in DOMAIN batch |-> Summarised(batch[i], n)]
Written == \E h \in Handlers : /\ pc[h] = "write" /\ op[h] \in ChainOps
                               /\ WriteStatus(Target(op[h]))

LEMMA BatchSteps ==
    ASSUME TypeOK, [Next]_vars
    PROVE  \/ UNCHANGED reached /\ (batch' = batch \/ Inserted \/ Summary)
           \/ Written
<1>1. ASSUME NEW h \in Handlers, Start(h)
      PROVE  UNCHANGED <<batch, reached>>
  BY <1>1 DEF Start, StartValidate, StartApprove, StartSeal, StartAck, StartView, StartFix,
              Accept, tables
<1>2. ASSUME NEW h \in Handlers, Fault(h)
      PROVE  UNCHANGED <<batch, reached>>
  BY <1>2 DEF Fault, ScopeRaises, RuleRaises, EnsureRaises, StatementRaises, SealStatementRaises, tables
<1>3. ASSUME Restart \/ ReloadBronze \/ UNCHANGED vars
      PROVE  UNCHANGED <<batch, reached>>
  BY <1>3 DEF Restart, ReloadBronze, vars, tables
<1>4. ASSUME NEW h \in Handlers, Step(h)
      PROVE  \/ UNCHANGED reached /\ (batch' = batch \/ Inserted \/ Summary)
             \/ Written
  <2>1. CASE EnsureInsert(h)
    BY <2>1 DEF EnsureInsert, Inserted
  <2>2. CASE UpdateSummary(h)
    BY <2>2, BlockersNat DEF UpdateSummary, Summary
  <2>3. CASE ApproveWrite(h) \/ SealWrite(h) \/ AckWrite(h)
    BY <2>3 DEF ApproveWrite, SealWrite, AckWrite, Target, Roles, ChainOps, Written
  <2>4. CASE \/ ReadScope(h) \/ EnsureSelect(h) \/ RecordAction(h) \/ EvaluateRule(h) \/ InsertMatches(h)
             \/ MergeException(h) \/ SelectOpen(h) \/ CloseException(h)
    BY <2>4 DEF ReadScope, EnsureSelect, RecordAction, EvaluateRule, InsertMatches, MergeException,
                SelectOpen, CloseException, tables
  <2>5. CASE \/ ApproveGate(h) \/ SealGate(h) \/ SealSubmission(h) \/ AckGate(h)
             \/ AckReceipt(h) \/ FixBronze(h)
    BY <2>5 DEF ApproveGate, SealGate, SealSubmission, AckGate, AckReceipt, FixBronze, tables
  <2> QED
    BY <1>4, <2>1, <2>2, <2>3, <2>4, <2>5 DEF Step
<1> QED
  BY <1>1, <1>2, <1>3, <1>4 DEF Next

\* No statement of any request takes a signature back, failures included.
THEOREM SignaturesStay == Spec => NeverUnsigned
<1>1. TypeOK /\ [Next]_vars =>
        [\A i \in DOMAIN batch :
           batch[i].status \in SignedOff => batch'[i].status \in SignedOff]_batch
  <2> SUFFICES ASSUME TypeOK, [Next]_vars, batch' # batch,
                      NEW i \in DOMAIN batch, batch[i].status \in SignedOff
               PROVE  batch'[i].status \in SignedOff
    OBVIOUS
  <2>1. CASE Inserted
    BY <2>1 DEF Inserted, TypeOK, TablesType
  <2>2. CASE Summary
    BY <2>2 DEF Summary, Summarised
  <2>3. CASE Written
    <3>1. PICK h \in Handlers : op[h] \in ChainOps /\ WriteStatus(Target(op[h]))
      BY <2>3 DEF Written
    <3>2. batch[i] \in Row
      BY LenProperties, ElementOfSeq DEF TypeOK, TablesType
    <3>3. batch'[i].status = Target(op[h])
      BY <3>1, <3>2 DEF WriteStatus, Row
    <3> QED
      BY <3>1, <3>3, GateMatchesChain
  <2> QED
    BY <2>1, <2>2, <2>3, BatchSteps
<1> QED
  BY <1>1, TypeCorrect, PTL DEF Spec, NeverUnsigned

\* 'validated' never stands beside open blockers, nor 'resolving' without any.
THEOREM StatusAgrees == Spec => []StatusMatchesBlockers
<1>1. Init => StatusMatchesBlockers
  BY DEF Init, StatusMatchesBlockers
<1>2. TypeOK /\ StatusMatchesBlockers /\ [Next]_vars => StatusMatchesBlockers'
  <2> SUFFICES ASSUME TypeOK, StatusMatchesBlockers, [Next]_vars, NEW i \in DOMAIN batch'
               PROVE  /\ batch'[i].status = "validated" => batch'[i].blockers = 0
                      /\ batch'[i].status = "resolving" => batch'[i].blockers > 0
    BY DEF StatusMatchesBlockers
  <2>1. CASE batch' = batch
    BY <2>1 DEF StatusMatchesBlockers
  <2>2. CASE Inserted
    BY <2>2 DEF Inserted, TypeOK, TablesType, StatusMatchesBlockers
  <2>3. CASE Summary
    BY <2>3 DEF Summary, Summarised, SignedOff
  <2>4. CASE Written
    <3>1. PICK h \in Handlers : op[h] \in ChainOps /\ WriteStatus(Target(op[h]))
      BY <2>4 DEF Written
    <3>2. i \in DOMAIN batch /\ batch[i] \in Row
      BY <3>1, LenProperties, ElementOfSeq DEF TypeOK, TablesType, WriteStatus
    <3>3. batch'[i].status = Target(op[h])
      BY <3>1, <3>2 DEF WriteStatus, Row
    <3> QED
      BY <3>1, <3>3, GateMatchesChain DEF SignedOff
  <2> QED
    BY <2>1, <2>2, <2>3, <2>4, BatchSteps
<1> QED
  BY <1>1, <1>2, TypeCorrect, PTL DEF Spec
-----------------------------------------------------------------------------
(* What the chain leaves on record: the submissions of sealed filings and  *)
(* the USER_ACTION row of each transition, as long as no statement fails.  *)

Acked == \E j \in DOMAIN submissions : submissions[j] = "acked"

RowsOnRecord ==
    \A i \in DOMAIN batch :
      /\ batch[i].status \in {"submitted", "acked"} => submissions # <<>>
      /\ batch[i].status = "acked" => Acked

\* The submission is written before the status, so it is there when h comes to that.
SubmissionAhead(h) ==
    /\ pc[h] = "submission" => op[h] = "seal"
    /\ pc[h] = "receipt" => op[h] = "ack" /\ submissions # <<>>
    /\ pc[h] = "write" /\ op[h] = "seal" => submissions # <<>>
    /\ pc[h] = "write" /\ op[h] = "ack" => Acked

\* h is on its way to the USER_ACTION row of operation o.
Logging(h, o) ==
    /\ op[h] = o
    /\ pc[h] = "log" \/ (pc[h] \in {"ensure", "create"} /\ cont[h] = "log")

\* The row of a state the filing has been in is there, or some handler is about to write it.
LogOwed == \A o \in ChainOps : Target(o) \in reached => o \in log \/ \E h \in Handlers : Logging(h, o)

RecordInv ==
    faults = 0 => RowsOnRecord /\ LogOwed /\ \A h \in Handlers : SubmissionAhead(h)

\* Neither submissions nor rows of USER_ACTION go away.
Grows ==
    /\ submissions # <<>> => submissions' # <<>>
    /\ Acked => Acked'
    /\ log \subseteq log'

\* A step of h keeps RecordInv when it keeps the tables' part and when h itself does
\* not forget a row it owes.
LEMMA RecordStep ==
    ASSUME RecordInv, faults = 0, NEW h \in Handlers, Elsewhere(h), Grows, UNCHANGED reached,
           RowsOnRecord', SubmissionAhead(h)',
           \A o \in ChainOps : Logging(h, o) => Logging(h, o)' \/ o \in log'
    PROVE  RecordInv'
<1>1. ASSUME NEW g \in Handlers \ {h}
      PROVE  SubmissionAhead(g)' /\ \A o \in ChainOps : Logging(g, o) => Logging(g, o)'
  BY <1>1 DEF RecordInv, SubmissionAhead, Logging, Elsewhere, Grows
<1>2. LogOwed'
  <2> SUFFICES ASSUME NEW o \in ChainOps, Target(o) \in reached
               PROVE  o \in log' \/ \E g \in Handlers : Logging(g, o)'
    BY DEF LogOwed
  <2>1. CASE o \in log
    BY <2>1 DEF Grows
  <2>2. ASSUME NEW g \in Handlers, Logging(g, o)
        PROVE  o \in log' \/ \E f \in Handlers : Logging(f, o)'
    BY <1>1, <2>2
  <2> QED
    BY <2>1, <2>2 DEF RecordInv, LogOwed
<1> QED
  BY <1>1, <1>2 DEF RecordInv

\* The same for a step that changes none of these tables and owes no row.
LEMMA LocalRecordStep ==
    ASSUME RecordInv, faults = 0, NEW h \in Handlers, Elsewhere(h),
           UNCHANGED <<batch, reached, submissions, log>>, SubmissionAhead(h)',
           pc[h] \notin {"log", "ensure", "create"}
    PROVE  RecordInv'
<1>1. RowsOnRecord' /\ Grows
  BY DEF RecordInv, RowsOnRecord, Acked, Grows
<1>2. \A o \in ChainOps : ~Logging(h, o)
  BY DEF Logging
<1> QED
  BY <1>1, <1>2, RecordStep

\* Where the control operators leave a handler.
LEMMA MovesOn ==
    ASSUME LocalsType, NEW h \in Handlers, NEW p \in PC, Goto(h, p), UNCHANGED <<op, cont>>
    PROVE  Elsewhere(h) /\ pc'[h] = p
BY DEF LocalsType, Goto, Elsewhere

LEMMA CallsEnsure ==
    ASSUME LocalsType, NEW h \in Handlers, NEW p \in PC, CallEnsure(h, p), UNCHANGED op
    PROVE  Elsewhere(h) /\ pc'[h] = "ensure" /\ cont'[h] = p
BY DEF LocalsType, CallEnsure, Goto, Elsewhere

LEMMA Returns ==
    ASSUME LocalsType, NEW h \in Handlers, Return(h)
    PROVE  Elsewhere(h) /\ pc'[h] = "idle"
BY DEF LocalsType, Return, Goto, Elsewhere

\* After _ensure_filing_batch a handler that came for the log is at the log.
LEMMA EnsureReturnsToLog ==
    ASSUME LocalsType, SignoffInv, NEW h \in Handlers, AfterEnsure(h), pc[h] \in {"ensure", "create"}
    PROVE  /\ Elsewhere(h) /\ SubmissionAhead(h)'
           /\ \A o \in ChainOps : Logging(h, o) => Logging(h, o)'
<1>1. cont[h] \in {"idle", "gate", "matches", "log"}
  BY DEF SignoffInv, ContBeforeGate
<1>2. CASE cont[h] = "idle"
  BY <1>2, Returns DEF AfterEnsure, SubmissionAhead, Logging
<1>3. CASE cont[h] # "idle"
  <2>1. Goto(h, cont[h]) /\ UNCHANGED locals
    BY <1>3 DEF AfterEnsure
  <2>2. Elsewhere(h) /\ pc'[h] = cont[h] /\ op' = op
    BY <1>1, <2>1, MovesOn DEF PC, locals
  <2> QED
    BY <1>1, <2>2 DEF SubmissionAhead, Logging
<1> QED
  BY <1>2, <1>3

LEMMA StartRecord ==
    ASSUME TypeOK, RecordInv, faults = 0, NEW h \in Handlers, Start(h)
    PROVE  RecordInv'
<1>1. /\ Elsewhere(h) /\ UNCHANGED <<batch, reached, submissions, log>>
      /\ pc[h] = "idle"
      /\ pc'[h] \in {"scope", "ensure", "gate", "fix"}
  BY DEF Start, StartValidate, StartApprove, StartSeal, StartAck, StartView, StartFix,
         Accept, Goto, tables, TypeOK, LocalsType, Elsewhere
<1> QED
  BY <1>1, LocalRecordStep DEF SubmissionAhead

LEMMA EnsureRecord ==
    ASSUME TypeOK, SignoffInv, RecordInv, faults = 0, NEW h \in Handlers,
           EnsureSelect(h) \/ EnsureInsert(h) \/ RecordAction(h)
    PROVE  RecordInv'
<1> USE DEF TypeOK
<1>1. CASE EnsureSelect(h)
  <2>1. UNCHANGED tables /\ pc[h] = "ensure"
    BY <1>1 DEF EnsureSelect
  <2>2. RowsOnRecord' /\ Grows
    BY <2>1 DEF tables, RecordInv, RowsOnRecord, Acked, Grows
  <2>3. CASE AfterEnsure(h)
    BY <2>1, <2>2, <2>3, EnsureReturnsToLog, RecordStep DEF tables
  <2>4. CASE Goto(h, "create") /\ UNCHANGED locals
    <3>1. Elsewhere(h) /\ pc'[h] = "create" /\ UNCHANGED <<op, cont>>
      BY <2>4, MovesOn DEF locals, PC
    <3>2. SubmissionAhead(h)' /\ \A o \in ChainOps : Logging(h, o) => Logging(h, o)'
      BY <2>1, <3>1 DEF SubmissionAhead, Logging
    <3> QED
      BY <2>1, <2>2, <3>1, <3>2, RecordStep DEF tables
  <2> QED
    BY <1>1, <2>3, <2>4 DEF EnsureSelect
<1>2. CASE EnsureInsert(h)
  <2>1. PICK s \in {"validating", "draft"} : batch' = Append(batch, [status |-> s, blockers |-> 0])
    BY <1>2 DEF EnsureInsert
  <2>2. UNCHANGED <<reached, submissions, log>> /\ AfterEnsure(h) /\ pc[h] = "create"
    BY <1>2 DEF EnsureInsert
  <2>3. RowsOnRecord'
    <3> SUFFICES ASSUME NEW i \in DOMAIN batch', batch'[i].status \in {"submitted", "acked"}
                 PROVE  i \in DOMAIN batch /\ batch'[i] = batch[i]
      BY <2>2 DEF RecordInv, RowsOnRecord, Acked
    <3> QED
      BY <2>1 DEF TablesType
  <2>4. Grows
    BY <2>2 DEF Grows, Acked
  <2> QED
    BY <2>2, <2>3, <2>4, EnsureReturnsToLog, RecordStep
<1>3. CASE RecordAction(h)
  <2>1. /\ Elsewhere(h) /\ pc'[h] = "idle" /\ UNCHANGED <<batch, reached, submissions>>
        /\ log' = log \union {op[h]}
    BY <1>3, Returns DEF RecordAction
  <2>2. SubmissionAhead(h)' /\ \A o \in ChainOps : Logging(h, o) => o \in log'
    BY <2>1 DEF SubmissionAhead, Logging
  <2>3. RowsOnRecord' /\ Grows
    BY <2>1 DEF RecordInv, RowsOnRecord, Acked, Grows
  <2> QED
    BY <2>1, <2>2, <2>3, RecordStep
<1> QED
  BY <1>1, <1>2, <1>3

LEMMA ValidationRecord ==
    ASSUME TypeOK, RecordInv, faults = 0, NEW h \in Handlers,
           \/ ReadScope(h) \/ EvaluateRule(h) \/ InsertMatches(h) \/ MergeException(h)
           \/ SelectOpen(h) \/ CloseException(h) \/ UpdateSummary(h) \/ FixBronze(h)
    PROVE  RecordInv'
<1> USE DEF TypeOK
<1>1. CASE UpdateSummary(h)
  <2>1. /\ Elsewhere(h) /\ pc'[h] = "ensure" /\ pc[h] = "summary"
        /\ UNCHANGED <<reached, submissions, log>>
    BY <1>1, CallsEnsure DEF UpdateSummary, CallRecordAction, PC
  <2>2. RowsOnRecord'
    <3> SUFFICES ASSUME NEW i \in DOMAIN batch', batch'[i].status \in {"submitted", "acked"}
                 PROVE  i \in DOMAIN batch /\ batch'[i].status = batch[i].status
      BY <2>1 DEF RecordInv, RowsOnRecord, Acked
    <3> QED
      BY <1>1 DEF UpdateSummary, Summarised
  <2>3. Grows /\ SubmissionAhead(h)' /\ \A o \in ChainOps : ~Logging(h, o)
    BY <2>1 DEF Grows, Acked, SubmissionAhead, Logging
  <2> QED
    BY <2>1, <2>2, <2>3, RecordStep
<1>2. CASE EvaluateRule(h)
  <2>1. NextRule(h) /\ UNCHANGED <<batch, reached, submissions, log, op>> /\ pc[h] = "rules"
    BY <1>2 DEF EvaluateRule, tables
  <2>2. Elsewhere(h) /\ pc'[h] \in {"rules", "ensure"}
    BY <2>1, CallsEnsure DEF NextRule, PC, Elsewhere
  <2> QED
    BY <2>1, <2>2, LocalRecordStep DEF SubmissionAhead
<1>3. CASE InsertMatches(h) \/ MergeException(h) \/ SelectOpen(h) \/ CloseException(h) \/ ReadScope(h)
  <2>1. \E p \in {"select_open", "merge", "summary", "close", "rules"} : Goto(h, p)
    BY <1>3 DEF InsertMatches, MergeException, SelectOpen, CloseException, ReadScope
  <2>2. UNCHANGED <<batch, reached, submissions, log, op, cont>>
    BY <1>3 DEF InsertMatches, MergeException, SelectOpen, CloseException, ReadScope, tables, locals
  <2>3. pc[h] \in {"matches", "merge", "select_open", "close", "scope"}
    BY <1>3 DEF InsertMatches, MergeException, SelectOpen, CloseException, ReadScope
  <2>4. Elsewhere(h) /\ pc'[h] \in {"select_open", "merge", "summary", "close", "rules"}
    BY <2>1, <2>2, MovesOn DEF PC
  <2> QED
    BY <2>2, <2>3, <2>4, LocalRecordStep DEF SubmissionAhead
<1>4. CASE FixBronze(h)
  <2>1. /\ Elsewhere(h) /\ pc'[h] = "ensure" /\ pc[h] = "fix"
        /\ UNCHANGED <<batch, reached, submissions, log>>
    BY <1>4, CallsEnsure DEF FixBronze, CallRecordAction, PC
  <2> QED
    BY <2>1, LocalRecordStep DEF SubmissionAhead
<1> QED
  BY <1>1, <1>2, <1>3, <1>4

LEMMA GateRecord ==
    ASSUME TypeOK, RecordInv, faults = 0, NEW h \in Handlers,
           ApproveGate(h) \/ SealGate(h) \/ AckGate(h)
    PROVE  RecordInv'
<1> USE DEF TypeOK
<1>1. UNCHANGED <<batch, reached, submissions, log>> /\ pc[h] = "gate"
  BY DEF ApproveGate, SealGate, AckGate, tables
<1>2. Elsewhere(h) /\ SubmissionAhead(h)'
  <2>1. CASE Return(h)
    BY <2>1, Returns DEF SubmissionAhead
  <2>2. CASE ApproveGate(h) /\ ~Return(h)
    <3>1. Goto(h, "write") /\ UNCHANGED locals /\ op[h] \in Roles
      BY <2>2 DEF ApproveGate, Gate
    <3> QED
      BY <3>1, MovesOn DEF PC, locals, Roles, SubmissionAhead
  <2>3. CASE SealGate(h) /\ ~Return(h)
    <3>1. Goto(h, "submission") /\ UNCHANGED locals /\ op[h] = "seal"
      BY <2>3 DEF SealGate, Gate
    <3> QED
      BY <3>1, MovesOn DEF PC, locals, SubmissionAhead
  <2>4. CASE AckGate(h) /\ ~Return(h)
    <3>1. /\ Goto(h, "receipt") /\ UNCHANGED locals /\ op[h] = "ack"
          /\ \E i \in DOMAIN batch : batch[i].status = Required("ack")
      BY <2>4 DEF AckGate, Gate
    <3>2. submissions # <<>>
      BY <3>1 DEF RecordInv, RowsOnRecord, Required, Roles
    <3> QED
      BY <1>1, <3>1, <3>2, MovesOn DEF PC, locals, SubmissionAhead
  <2> QED
    BY <2>1, <2>2, <2>3, <2>4
<1> QED
  BY <1>1, <1>2, LocalRecordStep

\* No two operations of the chain write the same state.
LEMMA TargetsDiffer == \A o, q \in ChainOps : Target(o) = Target(q) => o = q
<1>1. /\ Target("analyst") = "analyst_signed" /\ Target("actuary") = "actuary_approved"
      /\ Target("officer") = "officer_approved"
      /\ Target("seal") = "submitted" /\ Target("ack") = "acked"
  BY DEF Target, Roles, APPROVAL_CHAIN
<1> QED
  BY <1>1 DEF ChainOps, Roles

\* The status is written with its submission on record; the row of USER_ACTION comes next.
LEMMA WriteRecord ==
    ASSUME TypeOK, RecordInv, faults = 0, NEW h \in Handlers,
           ApproveWrite(h) \/ SealWrite(h) \/ AckWrite(h)
    PROVE  RecordInv'
<1> USE DEF TypeOK
<1>1. /\ pc[h] = "write" /\ op[h] \in ChainOps
      /\ WriteStatus(Target(op[h])) /\ UNCHANGED <<submissions, log, op>>
      /\ CallEnsure(h, "log")
  BY DEF ApproveWrite, SealWrite, AckWrite, CallRecordAction, Target, Roles, ChainOps
<1>2. Elsewhere(h) /\ pc'[h] = "ensure" /\ cont'[h] = "log"
  BY <1>1, CallsEnsure DEF PC
<1>3. \A g \in Handlers : SubmissionAhead(g)'
  BY <1>1, <1>2 DEF RecordInv, SubmissionAhead, Elsewhere, Acked
<1>4. RowsOnRecord'
  <2>1. Target(op[h]) = "submitted" => submissions # <<>>
    BY <1>1, TargetsDiffer DEF RecordInv, SubmissionAhead, Target, Roles, ChainOps
  <2>2. Target(op[h]) = "acked" => Acked
    BY <1>1, TargetsDiffer DEF RecordInv, SubmissionAhead, Target, Roles, ChainOps
  <2>3. Acked => submissions # <<>>
    BY DEF Acked
  <2>4. \A i \in DOMAIN batch' : batch'[i].status = Target(op[h])
    <3> TAKE i \in DOMAIN batch'
    <3>1. i \in DOMAIN batch /\ batch[i] \in Row
      BY <1>1, LenProperties, ElementOfSeq DEF TablesType, WriteStatus
    <3> QED
      BY <1>1, <3>1 DEF WriteStatus, Row
  <2> QED
    BY <1>1, <2>1, <2>2, <2>3, <2>4 DEF RowsOnRecord, Acked
<1>5. LogOwed'
  <2> SUFFICES ASSUME NEW o \in ChainOps, Target(o) \in reached'
               PROVE  o \in log \/ \E g \in Handlers : Logging(g, o)'
    BY <1>1 DEF LogOwed
  <2>1. CASE o = op[h]
    BY <1>1, <1>2, <2>1 DEF Logging
  <2>2. CASE o # op[h]
    <3>1. Target(o) \in reached
      BY <1>1, <2>2, TargetsDiffer DEF WriteStatus
    <3>2. ~Logging(h, o) /\ \A g \in Handlers \ {h} : Logging(g, o) => Logging(g, o)'
      BY <1>1, <1>2 DEF Logging, Elsewhere
    <3> QED
      BY <3>1, <3>2 DEF RecordInv, LogOwed
  <2> QED
    BY <2>1, <2>2
<1> QED
  BY <1>3, <1>4, <1>5 DEF RecordInv

\* Sealing appends a submission, the acknowledgment marks the latest one.
LEMMA SubmissionRecord ==
    ASSUME TypeOK, RecordInv, faults = 0, NEW h \in Handlers, SealSubmission(h) \/ AckReceipt(h)
    PROVE  RecordInv'
<1> USE DEF TypeOK
<1>1. /\ UNCHANGED <<batch, reached, log, op, cont>> /\ Goto(h, "write")
      /\ pc[h] \in {"submission", "receipt"}
  BY DEF SealSubmission, AckReceipt, locals
<1>2. Elsewhere(h) /\ pc'[h] = "write" /\ op'[h] = op[h]
  BY <1>1, MovesOn DEF PC
<1>3. Len(submissions) \in Nat /\ DOMAIN submissions = 1..Len(submissions)
  BY LenProperties DEF TablesType
<1>4. CASE SealSubmission(h)
  <2>1. submissions' = Append(submissions, "sealed") /\ op[h] = "seal"
    BY <1>4 DEF SealSubmission, RecordInv, SubmissionAhead
  <2>2. submissions' # <<>> /\ (Acked => Acked')
    <3>1. /\ Len(submissions') = Len(submissions) + 1
          /\ \A j \in DOMAIN submissions : j \in DOMAIN submissions' /\ submissions'[j] = submissions[j]
      BY <2>1 DEF TablesType
    <3> QED
      BY <1>3, <3>1 DEF Acked
  <2> QED
    BY <1>1, <1>2, <2>1, <2>2, RecordStep
       DEF Grows, RecordInv, RowsOnRecord, SubmissionAhead, Logging
<1>5. CASE AckReceipt(h)
  <2>1. /\ op[h] = "ack" /\ submissions # <<>>
        /\ submissions' = [i \in DOMAIN submissions |->
                             IF i = Len(submissions) THEN "acked" ELSE submissions[i]]
    BY <1>5 DEF AckReceipt, RecordInv, SubmissionAhead
  <2>2. Len(submissions) \in DOMAIN submissions
    BY <1>3, <2>1, EmptySeq DEF TablesType
  <2>3. Acked' /\ submissions' # <<>>
    BY <2>1, <2>2 DEF Acked
  <2> QED
    BY <1>1, <1>2, <2>1, <2>3, RecordStep
       DEF Grows, RecordInv, RowsOnRecord, SubmissionAhead, Logging
<1> QED
  BY <1>4, <1>5

LEMMA RecordInductive ==
    /\ Init => RecordInv
    /\ TypeOK /\ SignoffInv /\ RecordInv /\ [Next]_vars => RecordInv'
<1>1. Init => RecordInv
  <2> SUFFICES ASSUME Init PROVE RowsOnRecord /\ LogOwed /\ \A h \in Handlers : SubmissionAhead(h)
    BY DEF RecordInv
  <2> QED
    BY DEF Init, RowsOnRecord, LogOwed, SubmissionAhead
<1>2. ASSUME TypeOK, SignoffInv, RecordInv, [Next]_vars
      PROVE  RecordInv'
  <2>1. ASSUME Restart \/ \E h \in Handlers : Fault(h)
        PROVE  RecordInv'
    <3>1. Fails
      BY <2>1 DEF Restart, Fault, ScopeRaises, RuleRaises, EnsureRaises, StatementRaises,
                  SealStatementRaises
    <3>2. faults' # 0
      BY <1>2, <3>1, LifecycleAssumption DEF Fails, TypeOK
    <3> QED
      BY <3>2 DEF RecordInv
  <2>2. ASSUME UNCHANGED faults, NEW h \in Handlers, Start(h) \/ Step(h)
        PROVE  RecordInv'
    <3>1. CASE faults = 0
      BY <1>2, <2>2, <3>1, StartRecord, EnsureRecord, ValidationRecord, GateRecord, WriteRecord,
         SubmissionRecord DEF Step
    <3> QED
      BY <2>2, <3>1 DEF RecordInv
  <2>3. CASE UNCHANGED vars \/ (ReloadBronze /\ UNCHANGED faults)
    BY <1>2, <2>3 DEF vars, ReloadBronze, locals, RecordInv, RowsOnRecord, Acked, LogOwed, Logging,
                      SubmissionAhead
  <2> QED
    BY <1>2, <2>1, <2>2, <2>3 DEF Next
<1> QED
  BY <1>1, <1>2

\* As long as no statement fails, a 'submitted' filing has a submission and an
\* 'acked' one an acknowledged submission, however the requests interleave.
THEOREM CustodyKept == Spec => []CustodyOnRecord
<1>1. RecordInv => CustodyOnRecord
  BY DEF RecordInv, RowsOnRecord, Acked, CustodyOnRecord
<1> QED
  BY <1>1, TypeCorrect, SignoffInductive, RecordInductive, PTL DEF Spec

\* As long as no statement fails, every sign-off state the filing has been in has
\* its USER_ACTION row once no request is in flight.
THEOREM TransitionsAreLogged == Spec => []TransitionsLogged
<1>1. RecordInv => TransitionsLogged
  BY DEF RecordInv, LogOwed, Logging, TransitionsLogged, Quiet
<1> QED
  BY <1>1, TypeCorrect, SignoffInductive, RecordInductive, PTL DEF Spec

-----------------------------------------------------------------------------
(* What a validation that records alone and to its end leaves behind,      *)
(* whatever the other threads do and whatever has failed before.           *)

\* No validated row while a blocking exception is open.
ValidatedIsClear ==
    (\E i \in DOMAIN batch : batch[i].status = "validated") => \A k \in Blocking : exc[k] # "open"

\* The open exceptions h still has to close, then those of its own run only.
OpenOnesKnown(h) ==
    /\ pc[h] = "close" => {k \in Keys : exc[k] = "open"} \subseteq found[h] \union todo[h]
    /\ pc[h] = "summary" => {k \in Keys : exc[k] = "open"} \subseteq found[h]

ClearInv ==
    ~blurred => /\ \A g, h \in Handlers : Records(g) /\ Records(h) => g = h
                /\ ValidatedIsClear \/ \E h \in Handlers : Records(h)
                /\ \A h \in Handlers : OpenOnesKnown(h)

\* A statement outside a run's recording changes no exception and validates no row.
LEMMA OutsideRecording ==
    ASSUME TypeOK, SignoffInv, NEW h \in Handlers, Start(h) \/ Step(h), pc[h] \notin Recording
    PROVE  /\ pc'[h] \notin {"close", "summary"} /\ UNCHANGED exc
           /\ \A i \in DOMAIN batch' :
                batch'[i].status = "validated" => i \in DOMAIN batch /\ batch[i].status = "validated"
<1> USE DEF TypeOK
<1>1. CASE Start(h)
  <2>1. UNCHANGED <<batch, exc>> /\ pc'[h] \in {"scope", "ensure", "gate", "fix"}
    BY <1>1 DEF Start, StartValidate, StartApprove, StartSeal, StartAck, StartView, StartFix,
           Accept, Goto, tables, LocalsType
  <2> QED
    BY <2>1
<1>2. ASSUME AfterEnsure(h)
      PROVE  pc'[h] \in {"idle", "gate", "matches", "log"}
  BY <1>2 DEF AfterEnsure, Return, Goto, LocalsType, SignoffInv, ContBeforeGate
<1>3. CASE EnsureSelect(h)
  <2>1. UNCHANGED <<batch, exc>> /\ pc'[h] \in {"idle", "gate", "matches", "log", "create"}
    BY <1>2, <1>3 DEF EnsureSelect, tables, Goto, LocalsType
  <2> QED
    BY <2>1
<1>4. CASE EnsureInsert(h)
  <2>1. PICK s \in {"validating", "draft"} : batch' = Append(batch, [status |-> s, blockers |-> 0])
    BY <1>4 DEF EnsureInsert
  <2>2. ASSUME NEW i \in DOMAIN batch', batch'[i].status = "validated"
        PROVE  i \in DOMAIN batch /\ batch[i].status = "validated"
    BY <2>1, <2>2 DEF TablesType
  <2> QED
    BY <1>2, <1>4, <2>2 DEF EnsureInsert
<1>5. CASE \/ RecordAction(h) \/ ReadScope(h) \/ EvaluateRule(h) \/ InsertMatches(h) \/ FixBronze(h)
           \/ ApproveGate(h) \/ SealGate(h) \/ SealSubmission(h) \/ AckGate(h) \/ AckReceipt(h)
  <2>1. UNCHANGED <<batch, exc>>
    BY <1>5 DEF RecordAction, ReadScope, EvaluateRule, InsertMatches, FixBronze, ApproveGate, SealGate,
           SealSubmission, AckGate, AckReceipt, tables
  <2>2. CASE RecordAction(h) \/ ReadScope(h) \/ EvaluateRule(h) \/ InsertMatches(h) \/ FixBronze(h)
    BY <2>1, <2>2 DEF RecordAction, ReadScope, EvaluateRule, InsertMatches, FixBronze, NextRule,
           CallRecordAction, CallEnsure, Return, Goto, LocalsType
  <2>3. CASE ApproveGate(h) \/ SealGate(h) \/ SealSubmission(h) \/ AckGate(h) \/ AckReceipt(h)
    BY <2>1, <2>3 DEF ApproveGate, SealGate, SealSubmission, AckGate, AckReceipt, Gate, Return, Goto, LocalsType
  <2> QED
    BY <1>5, <2>1, <2>2, <2>3
<1>6. CASE ApproveWrite(h) \/ SealWrite(h) \/ AckWrite(h)
  <2>1. /\ op[h] \in ChainOps /\ WriteStatus(Target(op[h])) /\ UNCHANGED exc /\ CallEnsure(h, "log")
    BY <1>6 DEF ApproveWrite, SealWrite, AckWrite, CallRecordAction, Target, Roles, ChainOps
  <2>2. ASSUME NEW i \in DOMAIN batch' PROVE batch'[i].status \in SignedOff
    <3>1. i \in DOMAIN batch /\ batch[i] \in Row
      BY <2>1, LenProperties, ElementOfSeq DEF TablesType, WriteStatus
    <3> QED
      BY <2>1, <3>1, TargetSignedOff DEF WriteStatus, Row
  <2> QED
    BY <2>1, <2>2 DEF CallEnsure, Goto, LocalsType, SignedOff
<1>7. ~(MergeException(h) \/ SelectOpen(h) \/ CloseException(h) \/ UpdateSummary(h))
  BY DEF MergeException, SelectOpen, CloseException, UpdateSummary, Recording
<1> QED
  BY <1>1, <1>3, <1>4, <1>5, <1>6, <1>7 DEF Step

\* Between MERGE and summary the run closes every open exception it did not find.
LEMMA WhileRecording ==
    ASSUME TypeOK, NEW h \in Handlers, OpenOnesKnown(h), Step(h), pc[h] \in Recording
    PROVE  /\ OpenOnesKnown(h)'
           /\ ValidatedIsClear' \/ pc'[h] \in Recording
<1> USE DEF TypeOK
<1>1. CASE MergeException(h)
  <2>1. pc'[h] \in {"merge", "select_open"}
    BY <1>1 DEF MergeException, Goto, LocalsType
  <2> QED
    BY <2>1 DEF OpenOnesKnown, Recording
<1>2. CASE SelectOpen(h)
  <2> DEFINE stale == {k \in Keys : exc[k] = "open"} \ found[h]
  <2>1. /\ pc'[h] = IF stale = {} THEN "summary" ELSE "close"
        /\ todo'[h] = stale /\ UNCHANGED <<exc, found>>
    BY <1>2 DEF SelectOpen, Goto, LocalsType, tables
  <2> QED
    BY <2>1 DEF OpenOnesKnown, Recording
<1>3. CASE CloseException(h)
  <2>1. PICK k \in todo[h] :
          /\ exc' = [exc EXCEPT ![k] = "fixed"]
          /\ todo' = [todo EXCEPT ![h] = @ \ {k}]
          /\ Goto(h, IF todo[h] = {k} THEN "summary" ELSE "close")
    BY <1>3 DEF CloseException
  <2>2. /\ pc'[h] = IF todo[h] = {k} THEN "summary" ELSE "close"
        /\ todo'[h] = todo[h] \ {k} /\ UNCHANGED found /\ k \in Keys
    BY <1>3, <2>1 DEF CloseException, Goto, LocalsType
  <2>3. {j \in Keys : exc'[j] = "open"} \subseteq {j \in Keys : exc[j] = "open"} \ {k}
    BY <2>1, <2>2 DEF TablesType
  <2>4. {j \in Keys : exc[j] = "open"} \subseteq found[h] \union todo[h]
    BY <1>3 DEF CloseException, OpenOnesKnown
  <2> QED
    BY <2>2, <2>3, <2>4 DEF OpenOnesKnown, Recording
<1>4. CASE UpdateSummary(h)
  <2>1. /\ pc'[h] = "ensure" /\ UNCHANGED exc
        /\ batch' = [i \in DOMAIN batch |-> Summarised(batch[i], ErrorBlockers(h))]
        /\ pc[h] = "summary"
    BY <1>4 DEF UpdateSummary, CallRecordAction, CallEnsure, Goto, LocalsType
  <2>2. ASSUME NEW i \in DOMAIN batch', batch'[i].status = "validated"
        PROVE  \A k \in Blocking : exc[k] # "open"
    <3>1. ErrorBlockers(h) = 0
      BY <2>1, <2>2, BlockersNat DEF Summarised, SignedOff
    <3>2. IsFiniteSet(found[h] \intersect Blocking)
      BY FS_Subset, LifecycleAssumption DEF LocalsType
    <3>3. found[h] \intersect Blocking = {}
      BY <3>1, <3>2, FS_EmptySet DEF ErrorBlockers
    <3> QED
      BY <2>1, <3>3, LifecycleAssumption DEF OpenOnesKnown
  <2> QED
    BY <2>1, <2>2 DEF OpenOnesKnown, ValidatedIsClear
<1> QED
  BY <1>1, <1>2, <1>3, <1>4
     DEF Step, Recording, EnsureSelect, EnsureInsert, RecordAction, ReadScope, EvaluateRule, InsertMatches,
         ApproveGate, ApproveWrite, SealGate, SealSubmission, SealWrite, AckGate, AckReceipt, AckWrite,
         FixBronze

\* A failed statement of a run that records ends it; one of another request, or of a run
\* that has not begun to record, changes nothing the summary is about.
LEMMA FaultOutside ==
    ASSUME TypeOK, SignoffInv, NEW h \in Handlers, Fault(h)
    PROVE  /\ UNCHANGED <<batch, exc>>
           /\ \A g \in Handlers \ {h} : pc'[g] = pc[g] /\ found'[g] = found[g] /\ todo'[g] = todo[g]
           /\ pc'[h] \notin Recording
           /\ Records(h) => pc'[h] = "idle"
<1> USE DEF TypeOK
<1>1. CASE ScopeRaises(h) \/ RuleRaises(h)
  BY <1>1 DEF ScopeRaises, RuleRaises, NextRule, CallEnsure, Goto, tables, LocalsType, Recording, Records
<1>2. CASE EnsureRaises(h)
  BY <1>2 DEF EnsureRaises, AfterEnsure, Return, Goto, tables, locals, LocalsType, Recording, Records,
              SignoffInv, ContBeforeGate
<1>3. CASE StatementRaises(h)
  BY <1>3 DEF StatementRaises, Return, Goto, tables, LocalsType, Recording
<1>4. CASE SealStatementRaises(h)
  BY <1>4 DEF SealStatementRaises, CallRecordAction, CallEnsure, Goto, tables, locals, LocalsType,
              Recording, Records
<1> QED
  BY <1>1, <1>2, <1>3, <1>4 DEF Fault

\* A step of one request leaves what the others have read alone.
LEMMA OthersRead ==
    ASSUME TypeOK, NEW h \in Handlers, Start(h) \/ Step(h)
    PROVE  \A g \in Handlers \ {h} : pc'[g] = pc[g] /\ found'[g] = found[g] /\ todo'[g] = todo[g]
<1> USE DEF TypeOK
<1>1. CASE Start(h)
  BY <1>1 DEF Start, StartValidate, StartApprove, StartSeal, StartAck, StartView, StartFix, Accept, Goto, LocalsType
<1>2. CASE EnsureSelect(h) \/ EnsureInsert(h) \/ RecordAction(h)
  BY <1>2 DEF EnsureSelect, EnsureInsert, RecordAction, AfterEnsure, Return, Goto, locals, LocalsType
<1>3. CASE \/ ReadScope(h) \/ EvaluateRule(h) \/ InsertMatches(h) \/ MergeException(h)
           \/ SelectOpen(h) \/ CloseException(h) \/ UpdateSummary(h)
  BY <1>3 DEF ReadScope, EvaluateRule, InsertMatches, MergeException, SelectOpen, CloseException,
              UpdateSummary, NextRule, CallRecordAction, CallEnsure, Goto, locals, LocalsType
<1>4. CASE ApproveGate(h) \/ SealGate(h) \/ SealSubmission(h) \/ AckGate(h) \/ AckReceipt(h)
  BY <1>4 DEF ApproveGate, SealGate, SealSubmission, AckGate, AckReceipt, Gate, Return, Goto, locals, LocalsType
<1>5. CASE ApproveWrite(h) \/ SealWrite(h) \/ AckWrite(h) \/ FixBronze(h)
  BY <1>5 DEF ApproveWrite, SealWrite, AckWrite, FixBronze, CallRecordAction, CallEnsure, Goto, LocalsType
<1> QED
  BY <1>1, <1>2, <1>3, <1>4, <1>5 DEF Step

LEMMA ClearInductive ==
    /\ Init => ClearInv
    /\ TypeOK /\ SignoffInv /\ ClearInv /\ [Next]_vars => ClearInv'
<1>1. Init => ClearInv
  BY DEF Init, ClearInv, ValidatedIsClear, OpenOnesKnown, Records, Recording
<1>2. ASSUME TypeOK, SignoffInv, ClearInv, Next, ~Blurs
      PROVE  ClearInv'
  <2>0. /\ ~ \E g, h \in Handlers : g # h /\ Records(g) /\ Records(h)'
        /\ ~ \E h \in Handlers : Records(h) /\ pc'[h] = "idle"
        /\ ~blurred \/ ((\A h \in Handlers : ~Records(h)) /\ \E h \in Handlers : Records(h)')
    BY <1>2 DEF Blurs
  <2>1. CASE Restart
    <3>1. /\ UNCHANGED <<batch, exc>> /\ \A h \in Handlers : pc'[h] = "idle"
      BY <2>1 DEF Restart, tables
    <3>2. \A h \in Handlers : ~Records(h) /\ ~Records(h)'
      BY <2>0, <3>1 DEF Records, Recording
    <3> QED
      BY <1>2, <2>0, <3>1, <3>2 DEF ClearInv, ValidatedIsClear, OpenOnesKnown
  <2>2. ASSUME NEW h \in Handlers, Fault(h)
        PROVE  ClearInv'
    <3>1. /\ UNCHANGED <<batch, exc>>
          /\ \A g \in Handlers \ {h} : pc'[g] = pc[g] /\ found'[g] = found[g] /\ todo'[g] = todo[g]
          /\ ~Records(h) /\ ~Records(h)'
      BY <1>2, <2>0, <2>2, FaultOutside DEF Records
    <3>2. ~blurred
      BY <2>0, <3>1 DEF Records
    <3> QED
      BY <1>2, <3>1, <3>2 DEF ClearInv, ValidatedIsClear, OpenOnesKnown, Records, Recording
  <2>3. ASSUME NEW h \in Handlers, Start(h) \/ Step(h), Records(h)
        PROVE  ClearInv'
    <3>1. ~blurred /\ OpenOnesKnown(h) /\ \A g \in Handlers \ {h} : ~Records(g)
      BY <1>2, <2>0, <2>3 DEF ClearInv
    <3>2. \A g \in Handlers \ {h} : pc'[g] = pc[g]
      BY <1>2, <2>3, OthersRead
    <3>3. Step(h)
      BY <2>3 DEF Records, Recording, Start, StartValidate, StartApprove, StartSeal, StartAck,
                  StartView, StartFix, Accept
    <3>4. OpenOnesKnown(h)' /\ (ValidatedIsClear' \/ pc'[h] \in Recording)
      BY <1>2, <2>3, <3>1, <3>3, WhileRecording DEF Records
    <3> QED
      BY <3>1, <3>2, <3>4 DEF ClearInv, OpenOnesKnown, Records, Recording
  <2>4. ASSUME NEW h \in Handlers, Start(h) \/ Step(h), ~Records(h)
        PROVE  ClearInv'
    <3>1. /\ pc'[h] \notin {"close", "summary"} /\ UNCHANGED exc
          /\ \A i \in DOMAIN batch' :
               batch'[i].status = "validated" => i \in DOMAIN batch /\ batch[i].status = "validated"
      BY <1>2, <2>4, OutsideRecording DEF Records
    <3>2. \A g \in Handlers \ {h} : pc'[g] = pc[g] /\ found'[g] = found[g] /\ todo'[g] = todo[g]
      BY <1>2, <2>4, OthersRead
    <3>3. CASE Records(h)'
      <4>1. \A g \in Handlers \ {h} : ~Records(g) /\ ~Records(g)'
        BY <2>0, <3>2, <3>3 DEF Records
      <4> QED
        BY <3>1, <3>3, <4>1 DEF ClearInv, OpenOnesKnown, Records, Recording
    <3>4. CASE ~Records(h)'
      <4>1. ~blurred
        BY <2>0, <2>4, <3>2, <3>4 DEF Records
      <4>2. \A g \in Handlers : Records(g)' <=> Records(g)
        BY <2>4, <3>2, <3>4 DEF Records
      <4>3. ValidatedIsClear => ValidatedIsClear'
        BY <3>1 DEF ValidatedIsClear
      <4>4. \A g \in Handlers : OpenOnesKnown(g)'
        BY <1>2, <3>1, <3>2, <4>1 DEF ClearInv, OpenOnesKnown
      <4> QED
        BY <1>2, <4>1, <4>2, <4>3, <4>4 DEF ClearInv
    <3> QED
      BY <3>3, <3>4
  <2>5. CASE ReloadBronze
    <3>1. UNCHANGED <<batch, exc, pc, found, todo>>
      BY <2>5 DEF ReloadBronze, locals
    <3>2. ~blurred
      BY <2>0, <3>1 DEF Records
    <3> QED
      BY <1>2, <3>1, <3>2 DEF ClearInv, ValidatedIsClear, OpenOnesKnown, Records
  <2> QED
    BY <1>2, <2>1, <2>2, <2>3, <2>4, <2>5 DEF Next
<1>3. Next /\ Blurs => ClearInv'
  BY DEF Next, ClearInv
<1>4. ClearInv /\ UNCHANGED vars => ClearInv'
  BY DEF vars, ClearInv, ValidatedIsClear, OpenOnesKnown, Records
<1> QED
  BY <1>1, <1>2, <1>3, <1>4

\* However requests interleave and fail, a 'validated' filing at rest has no open exception
\* of severity ERROR, unless the last validation overlapped with another or was broken off.
THEOREM ValidatedHasNoBlocker == Spec => []ValidatedHasNoOpenBlocker
<1>1. ClearInv => ValidatedHasNoOpenBlocker
  BY DEF ClearInv, ValidatedIsClear, ValidatedHasNoOpenBlocker, Quiet, Records, Recording
<1> QED
  BY <1>1, TypeCorrect, SignoffInductive, ClearInductive, PTL DEF Spec

-----------------------------------------------------------------------------
(* One request at a time follows the documented state machine.             *)

OneThread == \A g, h \in Handlers : g = h

\* What the handler knew when its gate opened is still so when it writes.
GateHolds(h) ==
    pc[h] \in {"submission", "receipt", "write"} =>
      /\ batch # <<>>
      /\ batch[1].status = Required(op[h])
      /\ op[h] # "ack" => batch[1].blockers = 0

\* The filing has one row at most: nobody inserts between SELECT and INSERT.
OneRowInv ==
    /\ Len(batch) \in {0, 1}
    /\ \A h \in Handlers : (pc[h] = "create" => batch = <<>>) /\ GateHolds(h)

\* A step to a statement before the gate, or after the write, asks for nothing.
LEMMA ElsewhereInHandler ==
    ASSUME OneThread, OneRowInv, NEW h \in Handlers, UNCHANGED batch,
           pc'[h] \notin {"create", "submission", "receipt", "write"}
    PROVE  OneRowInv'
BY DEF OneThread, OneRowInv, GateHolds

LEMMA AfterEnsurePc ==
    ASSUME TypeOK, SignoffInv, NEW h \in Handlers, AfterEnsure(h)
    PROVE  pc'[h] \in {"idle", "gate", "matches", "log"}
BY DEF TypeOK, AfterEnsure, Return, Goto, LocalsType, SignoffInv, ContBeforeGate

\* Steps that leave FILING_BATCH alone.
LEMMA KeepsOneRow ==
    ASSUME OneThread, TypeOK, SignoffInv, OneRowInv, NEW h \in Handlers,
           Start(h) \/ Step(h) \/ Fault(h), UNCHANGED batch
    PROVE  OneRowInv'
<1> USE DEF TypeOK
<1>1. CASE Start(h)
  <2>1. pc'[h] \in {"scope", "ensure", "gate", "fix"}
    BY <1>1 DEF Start, StartValidate, StartApprove, StartSeal, StartAck, StartView, StartFix,
           Accept, Goto, LocalsType
  <2> QED
    BY <2>1, ElsewhereInHandler
<1>2. CASE EnsureSelect(h)
  <2>1. CASE AfterEnsure(h)
    BY <2>1, AfterEnsurePc, ElsewhereInHandler
  <2>2. CASE batch = <<>> /\ Goto(h, "create")
    BY <2>2 DEF Goto, LocalsType, OneThread, OneRowInv, GateHolds
  <2> QED
    BY <1>2, <2>1, <2>2 DEF EnsureSelect
<1>3. CASE EnsureInsert(h) \/ EnsureRaises(h)
  BY <1>3, AfterEnsurePc, ElsewhereInHandler DEF EnsureInsert, EnsureRaises
<1>4. CASE \/ RecordAction(h) \/ ReadScope(h) \/ InsertMatches(h) \/ MergeException(h) \/ SelectOpen(h)
           \/ CloseException(h) \/ UpdateSummary(h) \/ FixBronze(h) \/ StatementRaises(h) \/ ScopeRaises(h)
  <2>1. \/ Return(h) \/ CallEnsure(h, "log") \/ CallEnsure(h, "matches")
        \/ \E p \in {"rules", "select_open", "merge", "summary", "close"} : Goto(h, p)
    BY <1>4 DEF RecordAction, ReadScope, InsertMatches, MergeException, SelectOpen, CloseException, UpdateSummary,
           FixBronze, StatementRaises, ScopeRaises, CallRecordAction
  <2>2. pc'[h] \in {"idle", "ensure", "rules", "select_open", "merge", "summary", "close"}
    BY <2>1 DEF Return, CallEnsure, Goto, LocalsType
  <2> QED
    BY <2>2, ElsewhereInHandler
<1>5. CASE EvaluateRule(h) \/ RuleRaises(h)
  <2>1. pc'[h] \in {"rules", "ensure"}
    BY <1>5 DEF EvaluateRule, RuleRaises, NextRule, CallEnsure, Goto, LocalsType
  <2> QED
    BY <2>1, ElsewhereInHandler
<1>6. CASE ApproveGate(h) \/ SealGate(h) \/ AckGate(h)
  <2>1. CASE Return(h)
    <3>1. pc'[h] = "idle"
      BY <2>1 DEF Return, Goto, LocalsType
    <3> QED
      BY <3>1, ElsewhereInHandler
  <2>2. CASE ~Return(h)
    <3>1. \A i \in DOMAIN batch : i = 1 /\ batch # <<>>
      BY LenProperties DEF OneRowInv, TablesType
    <3>2. /\ batch # <<>> /\ batch[1].status = Required(op[h])
          /\ op[h] # "ack" => batch[1].blockers = 0
          /\ UNCHANGED op
          /\ Goto(h, "write") \/ Goto(h, "submission") \/ Goto(h, "receipt")
      BY <1>6, <2>2, <3>1 DEF ApproveGate, SealGate, AckGate, Gate, locals, Roles
    <3>3. pc'[h] # "create"
      BY <3>2 DEF Goto, LocalsType
    <3> QED
      BY <3>2, <3>3 DEF OneThread, OneRowInv, GateHolds
  <2> QED
    BY <2>1, <2>2
<1>7. CASE SealSubmission(h) \/ AckReceipt(h)
  <2>1. pc[h] \in {"submission", "receipt"} /\ pc'[h] = "write" /\ UNCHANGED op
    BY <1>7 DEF SealSubmission, AckReceipt, Goto, locals, LocalsType
  <2> QED
    BY <2>1 DEF OneThread, OneRowInv, GateHolds
<1>8. CASE SealStatementRaises(h)
  <2>1. \/ pc[h] = "submission" /\ pc'[h] = "write" /\ UNCHANGED op
        \/ pc'[h] = "ensure"
    BY <1>8 DEF SealStatementRaises, CallRecordAction, CallEnsure, Goto, locals, LocalsType
  <2> QED
    BY <2>1 DEF OneThread, OneRowInv, GateHolds
<1>9. CASE ApproveWrite(h) \/ SealWrite(h) \/ AckWrite(h)
  <2>1. pc'[h] = "ensure"
    BY <1>9 DEF ApproveWrite, SealWrite, AckWrite, CallRecordAction, CallEnsure, Goto, LocalsType
  <2> QED
    BY <2>1, ElsewhereInHandler
<1> QED
  BY <1>1, <1>2, <1>3, <1>4, <1>5, <1>6, <1>7, <1>8, <1>9 DEF Step, Fault

\* A chain operation takes the filing along one edge of the machine.
LEMMA WriteIsMachineStep ==
    ASSUME TypeOK, SignoffInv, OneRowInv, NEW h \in Handlers, pc[h] = "write",
           WriteStatus(Target(op[h]))
    PROVE  Machine!Next /\ Len(batch') = Len(batch)
<1>1. /\ batch # <<>> /\ batch[1].status = Required(op[h])
      /\ op[h] # "ack" => batch[1].blockers = 0
      /\ op[h] \in ChainOps
  BY DEF OneRowInv, GateHolds, SignoffInv, PastGate
<1>2. DOMAIN batch = 1..1 /\ Len(batch) = 1 /\ batch[1] \in Row
  BY <1>1, LenProperties, EmptySeq, ElementOfSeq DEF OneRowInv, TypeOK, TablesType
<1>3. batch' = [i \in 1..1 |-> [batch[i] EXCEPT !.status = Target(op[h])]]
  BY <1>2 DEF WriteStatus
<1>4. Len(batch') = 1 /\ batch' # <<>>
  BY <1>3
<1>5. batch'[1].status = Target(op[h]) /\ batch'[1].blockers = batch[1].blockers
  BY <1>2, <1>3 DEF Row
<1>6. \/ op[h] = "analyst" /\ Required(op[h]) = "validated" /\ Target(op[h]) = "analyst_signed"
      \/ op[h] = "actuary" /\ Required(op[h]) = "analyst_signed" /\ Target(op[h]) = "actuary_approved"
      \/ op[h] = "officer" /\ Required(op[h]) = "actuary_approved" /\ Target(op[h]) = "officer_approved"
      \/ op[h] = "seal" /\ Required(op[h]) = "officer_approved" /\ Target(op[h]) = "submitted"
      \/ op[h] = "ack" /\ Required(op[h]) = "submitted" /\ Target(op[h]) = "acked"
  BY <1>1 DEF ChainOps, Roles, Required, Target, APPROVAL_CHAIN
<1>7. Machine!Next
  BY <1>1, <1>4, <1>5, <1>6 DEF Machine!Next, Machine!Sign, Machine!Acknowledge
<1> QED
  BY <1>2, <1>4, <1>7

\* Every change of FILING_BATCH is a step of the machine.
LEMMA BatchFollowsMachine ==
    ASSUME OneThread, TypeOK, SignoffInv, OneRowInv, NEW h \in Handlers, Step(h), batch' # batch
    PROVE  OneRowInv' /\ Machine!Next
<1> USE DEF TypeOK
<1>1. CASE EnsureInsert(h)
  <2>1. PICK s \in {"validating", "draft"} : batch' = Append(batch, [status |-> s, blockers |-> 0])
    BY <1>1 DEF EnsureInsert
  <2>2. batch = <<>>
    BY <1>1 DEF EnsureInsert, OneRowInv
  <2>3. batch' = <<[status |-> s, blockers |-> 0]>>
    BY <2>1, <2>2
  <2>4. Len(batch') = 1 /\ batch'[1].status = s /\ batch'[1].blockers = 0 /\ batch' # <<>>
    BY <2>3
  <2>5. Machine!Next
    BY <2>2, <2>4 DEF Machine!Next, Machine!Create
  <2>6. pc'[h] \in {"idle", "gate", "matches", "log"}
    BY <1>1, AfterEnsurePc DEF EnsureInsert
  <2> QED
    BY <2>4, <2>5, <2>6 DEF OneThread, OneRowInv, GateHolds
<1>2. CASE UpdateSummary(h)
  <2>1. /\ batch' = [i \in DOMAIN batch |-> Summarised(batch[i], ErrorBlockers(h))]
        /\ pc'[h] = "ensure"
    BY <1>2 DEF UpdateSummary, CallRecordAction, CallEnsure, Goto, LocalsType
  <2>2. batch # <<>>
    <3> SUFFICES ASSUME batch = <<>> PROVE batch' = batch
      OBVIOUS
    <3> QED
      BY <2>1
  <2>3. DOMAIN batch = 1..1 /\ Len(batch) = 1 /\ batch[1] \in Row
    BY <2>2, LenProperties, EmptySeq, ElementOfSeq DEF OneRowInv, TablesType
  <2>4. batch' = [i \in 1..1 |-> Summarised(batch[i], ErrorBlockers(h))]
    BY <2>1, <2>3
  <2>5. Len(batch') = 1 /\ batch' # <<>> /\ batch'[1] = Summarised(batch[1], ErrorBlockers(h))
    BY <2>4
  <2>6. /\ ErrorBlockers(h) \in Nat /\ batch'[1].blockers = ErrorBlockers(h)
        /\ batch'[1].status = CASE batch[1].status \in SignedOff -> batch[1].status
                                [] batch[1].status \notin SignedOff /\ ErrorBlockers(h) > 0 -> "resolving"
                                [] batch[1].status \notin SignedOff /\ ErrorBlockers(h) = 0 -> "validated"
    BY <2>5, BlockersNat DEF Summarised
  <2>7. /\ batch[1].status # "none"
        /\ batch[1].status \in Machine!Unsigned <=> batch[1].status \notin SignedOff
    BY <2>3 DEF Row, Status, SignedOff, Machine!Unsigned
  <2>8. Machine!Validate
    BY <2>2, <2>5, <2>6, <2>7 DEF Machine!Validate
  <2> QED
    BY <2>1, <2>5, <2>8 DEF OneThread, OneRowInv, GateHolds, Machine!Next
<1>3. CASE ApproveWrite(h) \/ SealWrite(h) \/ AckWrite(h)
  <2>1. pc[h] = "write" /\ WriteStatus(Target(op[h])) /\ pc'[h] = "ensure"
    BY <1>3 DEF ApproveWrite, SealWrite, AckWrite, CallRecordAction, CallEnsure, Goto, LocalsType, Target, Roles
  <2> QED
    BY <2>1, WriteIsMachineStep DEF OneThread, OneRowInv, GateHolds
<1>4. CASE \/ EnsureSelect(h) \/ RecordAction(h) \/ ReadScope(h) \/ EvaluateRule(h) \/ InsertMatches(h)
           \/ MergeException(h) \/ SelectOpen(h) \/ CloseException(h)
  BY <1>4 DEF EnsureSelect, RecordAction, ReadScope, EvaluateRule, InsertMatches, MergeException,
              SelectOpen, CloseException, tables
<1>5. CASE \/ ApproveGate(h) \/ SealGate(h) \/ SealSubmission(h) \/ AckGate(h)
           \/ AckReceipt(h) \/ FixBronze(h)
  BY <1>5 DEF ApproveGate, SealGate, SealSubmission, AckGate, AckReceipt, FixBronze, tables
<1> QED
  BY <1>1, <1>2, <1>3, <1>4, <1>5 DEF Step

LEMMA OneRowInductive ==
    ASSUME OneThread
    PROVE  /\ Init => OneRowInv /\ Machine!Init
           /\ TypeOK /\ SignoffInv /\ OneRowInv /\ [Next]_vars =>
                OneRowInv' /\ (batch' = batch \/ Machine!Next)
<1>1. ASSUME Init PROVE OneRowInv /\ Machine!Init
  <2>1. batch = <<>> \/ batch = <<[status |-> "draft", blockers |-> 0]>>
    BY <1>1 DEF Init
  <2>2. Len(batch) \in {0, 1} /\ Machine!Init
    BY <2>1 DEF Machine!Init
  <2> QED
    BY <1>1, <2>2 DEF Init, OneRowInv, GateHolds
<1>2. ASSUME TypeOK, SignoffInv, OneRowInv, [Next]_vars
      PROVE  OneRowInv' /\ (batch' = batch \/ Machine!Next)
  <2>1. ASSUME NEW h \in Handlers, Start(h) \/ Fault(h)
        PROVE  UNCHANGED batch
    <3>1. CASE Start(h)
      BY <3>1 DEF Start, StartValidate, StartApprove, StartSeal, StartAck, StartView, StartFix,
                  Accept, tables
    <3>2. CASE Fault(h)
      BY <3>2 DEF Fault, ScopeRaises, RuleRaises, EnsureRaises, StatementRaises, SealStatementRaises, tables
    <3> QED
      BY <2>1, <3>1, <3>2
  <2>2. ASSUME NEW h \in Handlers, Start(h) \/ Step(h) \/ Fault(h)
        PROVE  OneRowInv' /\ (batch' = batch \/ Machine!Next)
    BY <1>2, <2>1, <2>2, KeepsOneRow, BatchFollowsMachine
  <2>3. CASE Restart
    BY <1>2, <2>3 DEF Restart, tables, OneRowInv, GateHolds
  <2>4. CASE ReloadBronze \/ UNCHANGED vars
    BY <1>2, <2>4 DEF ReloadBronze, vars, locals, OneRowInv, GateHolds
  <2> QED
    BY <1>2, <2>2, <2>3, <2>4 DEF Next
<1> QED
  BY <1>1, <1>2

\* With one request at a time the filing follows the documented state machine, also
\* when statements fail or the process restarts: nobody signs or seals with open blockers.
THEOREM OneThreadImplementsMachine ==
    ASSUME OneThread
    PROVE  Spec => ImplementsMachine
<1>1. TypeOK /\ SignoffInv /\ OneRowInv /\ [Next]_vars =>
        [Machine!Next]_<<IF batch = <<>> THEN "none" ELSE batch[1].status,
                         IF batch = <<>> THEN 0 ELSE batch[1].blockers>>
  <2> SUFFICES ASSUME TypeOK, SignoffInv, OneRowInv, [Next]_vars
               PROVE  batch' = batch \/ Machine!Next
    OBVIOUS
  <2> QED
    BY OneRowInductive
<1> QED
  BY <1>1, TypeCorrect, SignoffInductive, OneRowInductive, PTL DEF Spec, ImplementsMachine, Machine!Spec

\* With one request at a time nothing but an officer-approved filing without open
\* blockers is ever marked submitted: what the gate of filing_file is for.
THEOREM OneThreadSealsClear ==
    ASSUME OneThread
    PROVE  Spec => SealedOnlyWhenClear
<1>1. TypeOK /\ OneRowInv =>
        [\A h \in Handlers : SealWrite(h) => \A i \in DOMAIN batch : batch[i].blockers = 0]_vars
  <2> SUFFICES ASSUME TypeOK, OneRowInv, NEW h \in Handlers, SealWrite(h), NEW i \in DOMAIN batch
               PROVE  batch[i].blockers = 0
    OBVIOUS
  <2>1. pc[h] = "write" /\ op[h] = "seal"
    BY DEF SealWrite
  <2>2. i = 1
    BY LenProperties DEF OneRowInv, TypeOK, TablesType
  <2> QED
    BY <2>1, <2>2 DEF OneRowInv, GateHolds, Required, Roles
<1> QED
  BY <1>1, TypeCorrect, SignoffInductive, OneRowInductive, PTL DEF Spec, SealedOnlyWhenClear
============================================================================
