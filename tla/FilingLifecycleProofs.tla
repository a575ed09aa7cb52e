----------------------- MODULE FilingLifecycleProofs -----------------------
(***************************************************************************)
(* Theorems about FilingLifecycle, for every set of request threads, every *)
(* finite set of violations and rules, and any number of failures.         *)
(***************************************************************************)
EXTENDS FilingLifecycle, FiniteSetTheorems, SequenceTheorems, TLAPS

\* A function over the domain of a sequence is a sequence of the same length.
LEMMA MapIsSeq ==
    ASSUME NEW S, NEW T, NEW s \in Seq(S), NEW f \in [DOMAIN s -> T]
    PROVE  f \in Seq(T) /\ Len(f) = Len(s) /\ DOMAIN f = DOMAIN s
<1>1. Len(s) \in Nat /\ DOMAIN s = 1..Len(s)
  BY LenProperties
<1>2. f \in [1..Len(s) -> T]
  BY <1>1
<1> QED
  BY <1>1, <1>2

\* The number of blockers is a natural number.
LEMMA BlockersNat ==
    ASSUME TypeOK, NEW h \in Handlers
    PROVE  ErrorBlockers(h) \in Nat
<1>1. IsFiniteSet(found[h] \intersect Blocking)
  BY FS_Subset, LifecycleAssumption DEF TypeOK, LocalsType
<1> QED
  BY <1>1, FS_CardinalityType DEF ErrorBlockers

\* Rewriting the status, or the summary, of every row keeps the table typed.
LEMMA RowsTyped ==
    ASSUME batch \in Seq(Row)
    PROVE  /\ \A s \in Status : [i \in DOMAIN batch |-> [batch[i] EXCEPT !.status = s]] \in Seq(Row)
           /\ \A n \in Nat : [i \in DOMAIN batch |-> Summarised(batch[i], n)] \in Seq(Row)
<1>1. \A i \in DOMAIN batch : batch[i] \in Row
  BY LenProperties, ElementOfSeq
<1>2. ASSUME NEW s \in Status
      PROVE  [i \in DOMAIN batch |-> [batch[i] EXCEPT !.status = s]] \in [DOMAIN batch -> Row]
  BY <1>1 DEF Row
<1>3. ASSUME NEW n \in Nat
      PROVE  [i \in DOMAIN batch |-> Summarised(batch[i], n)] \in [DOMAIN batch -> Row]
  BY <1>1 DEF Row, Summarised, Status, SignedOff
<1> QED
  BY <1>2, <1>3, MapIsSeq

\* What the control operators do to a handler's locals.
LEMMA ReturnTyped ==
    ASSUME LocalsType, NEW h \in Handlers, Return(h)
    PROVE  LocalsType'
BY LifecycleAssumption DEF LocalsType, Return, Goto, PC, Ops, Rules

LEMMA GotoTyped ==
    ASSUME LocalsType, NEW h \in Handlers, NEW p \in PC, Goto(h, p), UNCHANGED locals
    PROVE  LocalsType'
BY DEF LocalsType, Goto, locals

LEMMA AfterEnsureTyped ==
    ASSUME LocalsType, NEW h \in Handlers, AfterEnsure(h)
    PROVE  LocalsType'
<1>1. cont[h] \in PC
  BY DEF LocalsType
<1> QED
  BY <1>1, ReturnTyped, GotoTyped DEF AfterEnsure

LEMMA RecordCallTyped ==
    ASSUME LocalsType, NEW h \in Handlers, CallRecordAction(h),
           UNCHANGED <<op, rule, found, todo>>
    PROVE  LocalsType'
BY DEF LocalsType, CallRecordAction, CallEnsure, Goto, PC

-----------------------------------------------------------------------------
(* Typing, one lemma per group of actions.                                 *)

LEMMA StartTyped ==
    ASSUME TypeOK, NEW h \in Handlers, Start(h), UNCHANGED faults, blurred' \in BOOLEAN
    PROVE  TypeOK'
<1> USE DEF TypeOK
<1>1. ASSUME NEW o \in Ops, NEW p \in PC, Accept(h, o, p)
      PROVE  TablesType' /\ pc' \in [Handlers -> PC] /\ op' \in [Handlers -> Ops]
  BY <1>1 DEF Accept, Goto, TablesType, LocalsType, tables
<1>2. CASE StartValidate(h)
  BY <1>1, <1>2 DEF StartValidate, LocalsType, PC, Ops
<1>3. CASE StartApprove(h)
  BY <1>1, <1>3 DEF StartApprove, LocalsType, PC, Ops, ChainOps, Roles
<1>4. CASE StartSeal(h)
  BY <1>1, <1>4 DEF StartSeal, LocalsType, PC, Ops, ChainOps
<1>5. CASE StartAck(h)
  BY <1>1, <1>5 DEF StartAck, LocalsType, PC, Ops, ChainOps
<1>6. CASE StartView(h)
  BY <1>1, <1>6 DEF StartView, LocalsType, PC, Ops
<1>7. CASE StartFix(h)
  BY <1>1, <1>7 DEF StartFix, LocalsType, PC, Ops
<1> QED
  BY <1>2, <1>3, <1>4, <1>5, <1>6, <1>7 DEF Start

LEMMA EnsureTyped ==
    ASSUME TypeOK, NEW h \in Handlers, UNCHANGED faults, blurred' \in BOOLEAN,
           EnsureSelect(h) \/ EnsureInsert(h) \/ RecordAction(h)
    PROVE  TypeOK'
<1> USE DEF TypeOK
<1>1. CASE EnsureSelect(h)
  <2>1. LocalsType'
    <3>1. CASE batch # <<>>
      BY <1>1, <3>1, AfterEnsureTyped DEF EnsureSelect
    <3>2. CASE batch = <<>>
      BY <1>1, <3>2, GotoTyped DEF EnsureSelect, PC
    <3> QED
      BY <3>1, <3>2
  <2> QED
    BY <1>1, <2>1 DEF EnsureSelect, TablesType, tables
<1>2. CASE EnsureInsert(h)
  <2>1. LocalsType'
    BY <1>2, AfterEnsureTyped DEF EnsureInsert
  <2>2. batch' \in Seq(Row)
    BY <1>2 DEF EnsureInsert, TablesType, Row, Status
  <2> QED
    BY <1>2, <2>1, <2>2 DEF EnsureInsert, TablesType
<1>3. CASE RecordAction(h)
  <2>1. LocalsType'
    BY <1>3, ReturnTyped DEF RecordAction
  <2>2. log' \in SUBSET Ops
    BY <1>3 DEF RecordAction, TablesType, LocalsType
  <2> QED
    BY <1>3, <2>1, <2>2 DEF RecordAction, TablesType
<1> QED
  BY <1>1, <1>2, <1>3

LEMMA ValidationTyped ==
    ASSUME TypeOK, NEW h \in Handlers, UNCHANGED faults, blurred' \in BOOLEAN,
           \/ ReadScope(h) \/ EvaluateRule(h) \/ InsertMatches(h) \/ MergeException(h)
           \/ SelectOpen(h) \/ CloseException(h) \/ UpdateSummary(h)
    PROVE  TypeOK'
<1> USE DEF TypeOK
<1>0. ASSUME NextRule(h)
      PROVE  /\ pc' \in [Handlers -> PC] /\ cont' \in [Handlers -> PC]
             /\ rule' \in [Handlers -> Rules]
  BY <1>0, LifecycleAssumption
     DEF NextRule, CallEnsure, Goto, LocalsType, PC, Rules
<1>7. CASE ReadScope(h)
  BY <1>7, GotoTyped DEF ReadScope, TablesType, tables, PC
<1>1. CASE EvaluateRule(h)
  <2>1. found' \in [Handlers -> SUBSET Keys]
    BY <1>1 DEF EvaluateRule, TablesType, LocalsType
  <2> QED
    BY <1>0, <1>1, <2>1 DEF EvaluateRule, TablesType, LocalsType, tables
<1>2. CASE InsertMatches(h)
  <2>1. match' \in [Rules -> {"none", "pass", "fail"}]
    BY <1>2 DEF InsertMatches
  <2> QED
    BY <1>2, <2>1 DEF InsertMatches, TablesType, LocalsType, Goto, PC
<1>3. CASE MergeException(h)
  <2>1. PICK k \in todo[h] :
          /\ exc' = [exc EXCEPT ![k] = IF @ = "none" THEN "open" ELSE @]
          /\ todo' = [todo EXCEPT ![h] = @ \ {k}]
          /\ Goto(h, IF todo[h] = {k} THEN "select_open" ELSE "merge")
    BY <1>3 DEF MergeException
  <2>2. TablesType'
    BY <1>3, <2>1 DEF MergeException, TablesType, LocalsType
  <2>3. LocalsType'
    BY <1>3, <2>1 DEF MergeException, LocalsType, Goto, PC
  <2> QED
    BY <1>3, <2>2, <2>3
<1>4. CASE SelectOpen(h)
  BY <1>4 DEF SelectOpen, TablesType, LocalsType, Goto, PC, tables
<1>5. CASE CloseException(h)
  <2>1. PICK k \in todo[h] :
          /\ exc' = [exc EXCEPT ![k] = "fixed"]
          /\ todo' = [todo EXCEPT ![h] = @ \ {k}]
          /\ Goto(h, IF todo[h] = {k} THEN "summary" ELSE "close")
    BY <1>5 DEF CloseException
  <2>2. TablesType'
    BY <1>5, <2>1 DEF CloseException, TablesType, LocalsType
  <2>3. LocalsType'
    BY <1>5, <2>1 DEF CloseException, LocalsType, Goto, PC
  <2> QED
    BY <2>2, <2>3
<1>6. CASE UpdateSummary(h)
  <2>1. batch' \in Seq(Row)
    BY <1>6, BlockersNat, RowsTyped DEF UpdateSummary, TablesType
  <2>2. LocalsType'
    BY <1>6, RecordCallTyped DEF UpdateSummary
  <2> QED
    BY <1>6, <2>1, <2>2 DEF UpdateSummary, TablesType
<1> QED
  BY <1>1, <1>2, <1>3, <1>4, <1>5, <1>6, <1>7

\* The chain operations write a status of the chain.
LEMMA TargetSignedOff == \A o \in ChainOps : Target(o) \in SignedOff
BY DEF ChainOps, Target, SignedOff, Roles, APPROVAL_CHAIN

LEMMA WriteStatusTyped ==
    ASSUME TablesType, NEW s \in SignedOff, WriteStatus(s)
    PROVE  batch' \in Seq(Row) /\ reached' \in SUBSET SignedOff
BY RowsTyped DEF TablesType, WriteStatus, Status

LEMMA GateTyped ==
    ASSUME LocalsType, NEW h \in Handlers, NEW open, NEW p \in PC, Gate(h, open, p)
    PROVE  LocalsType'
BY ReturnTyped, GotoTyped DEF Gate

LEMMA ChainTyped ==
    ASSUME TypeOK, NEW h \in Handlers, UNCHANGED faults, blurred' \in BOOLEAN,
           \/ ApproveGate(h) \/ ApproveWrite(h)
           \/ SealGate(h) \/ SealSubmission(h) \/ SealWrite(h)
           \/ AckGate(h) \/ AckReceipt(h) \/ AckWrite(h)
    PROVE  TypeOK'
<1> USE DEF TypeOK
<1>1. CASE ApproveGate(h)
  BY <1>1, GateTyped DEF ApproveGate, TablesType, tables, PC
<1>2. CASE ApproveWrite(h)
  <2>1. Target(op[h]) \in SignedOff
    BY <1>2, TargetSignedOff DEF ApproveWrite, ChainOps
  <2> QED
    BY <1>2, <2>1, WriteStatusTyped, RecordCallTyped DEF ApproveWrite, TablesType
<1>3. CASE SealGate(h)
  BY <1>3, GateTyped DEF SealGate, TablesType, tables, PC
<1>4. CASE SealSubmission(h)
  BY <1>4, GotoTyped DEF SealSubmission, TablesType, PC
<1>5. CASE SealWrite(h)
  BY <1>5, WriteStatusTyped, RecordCallTyped DEF SealWrite, TablesType, SignedOff
<1>6. CASE AckGate(h)
  BY <1>6, GateTyped DEF AckGate, TablesType, tables, PC
<1>7. CASE AckReceipt(h)
  <2>1. submissions' \in [DOMAIN submissions -> {"sealed", "acked"}]
    BY <1>7, LenProperties DEF AckReceipt, TablesType
  <2>2. submissions' \in Seq({"sealed", "acked"})
    BY <2>1, MapIsSeq DEF TablesType
  <2> QED
    BY <1>7, <2>2, GotoTyped DEF AckReceipt, TablesType, PC
<1>8. CASE AckWrite(h)
  BY <1>8, WriteStatusTyped, RecordCallTyped DEF AckWrite, TablesType, SignedOff
<1> QED
  BY <1>1, <1>2, <1>3, <1>4, <1>5, <1>6, <1>7, <1>8

LEMMA BronzeTyped ==
    ASSUME TypeOK, UNCHANGED faults, blurred' \in BOOLEAN,
           ReloadBronze \/ \E h \in Handlers : FixBronze(h)
    PROVE  TypeOK'
<1> USE DEF TypeOK
<1>1. CASE ReloadBronze
  BY <1>1 DEF ReloadBronze, TablesType, LocalsType, locals
<1>2. ASSUME NEW h \in Handlers, FixBronze(h)
      PROVE  TypeOK'
  <2>1. bronze' \in SUBSET Keys
    BY <1>2 DEF FixBronze, TablesType, LocalsType
  <2>2. LocalsType'
    BY <1>2 DEF FixBronze, CallRecordAction, CallEnsure, Goto, LocalsType, PC
  <2> QED
    BY <1>2, <2>1, <2>2 DEF FixBronze, TablesType
<1> QED
  BY <1>1, <1>2

LEMMA FaultTyped ==
    ASSUME TypeOK, blurred' \in BOOLEAN, Restart \/ \E h \in Handlers : Fault(h)
    PROVE  TypeOK'
<1> USE DEF TypeOK
<1>0. ASSUME Fails PROVE faults' \in 0..MaxFaults
  BY <1>0, LifecycleAssumption DEF Fails
<1>1. CASE Restart
  BY <1>0, <1>1, LifecycleAssumption
     DEF Restart, TablesType, LocalsType, tables, PC, Ops, Rules
<1>2. ASSUME NEW h \in Handlers, RuleRaises(h)
      PROVE  TypeOK'
  <2>1. /\ pc' \in [Handlers -> PC] /\ cont' \in [Handlers -> PC]
        /\ rule' \in [Handlers -> Rules]
    BY <1>2, LifecycleAssumption
       DEF RuleRaises, NextRule, CallEnsure, Goto, LocalsType, PC, Rules
  <2> QED
    BY <1>0, <1>2, <2>1 DEF RuleRaises, TablesType, LocalsType, tables
<1>3. ASSUME NEW h \in Handlers, EnsureRaises(h)
      PROVE  TypeOK'
  BY <1>0, <1>3, AfterEnsureTyped DEF EnsureRaises, TablesType, tables
<1>4. ASSUME NEW h \in Handlers, StatementRaises(h)
      PROVE  TypeOK'
  BY <1>0, <1>4, ReturnTyped DEF StatementRaises, TablesType, tables
<1>5. ASSUME NEW h \in Handlers, SealStatementRaises(h)
      PROVE  TypeOK'
  BY <1>0, <1>5, GotoTyped, RecordCallTyped
     DEF SealStatementRaises, TablesType, tables, PC
<1>6. ASSUME NEW h \in Handlers, ScopeRaises(h)
      PROVE  TypeOK'
  BY <1>0, <1>6, RecordCallTyped
     DEF ScopeRaises, CallEnsure, Goto, TablesType, LocalsType, tables, PC
<1> QED
  BY <1>1, <1>2, <1>3, <1>4, <1>5, <1>6 DEF Fault

\* Every behaviour is well typed: FILING_BATCH holds rows with a known status
\* and a natural number of blockers, and every request is at a known statement.
THEOREM TypeCorrect == Spec => []TypeOK
<1>1. Init => TypeOK
  <2> SUFFICES ASSUME Init PROVE TypeOK
    OBVIOUS
  <2>1. batch \in Seq(Row)
    <3>1. <<>> \in Seq(Row)
      OBVIOUS
    <3>2. [status |-> "draft", blockers |-> 0] \in Row
      BY DEF Row, Status
    <3>3. <<[status |-> "draft", blockers |-> 0]>> \in Seq(Row)
      BY <3>2
    <3> QED
      BY <3>1, <3>3 DEF Init
  <2>2. TablesType
    BY <2>1 DEF Init, TablesType
  <2>3. LocalsType
    BY LifecycleAssumption DEF Init, LocalsType, PC, Ops, Rules
  <2>4. blurred \in BOOLEAN
    BY DEF Init
  <2> QED
    BY <2>2, <2>3, <2>4, LifecycleAssumption DEF TypeOK, Init
<1>2. TypeOK /\ [Next]_vars => TypeOK'
  <2> SUFFICES ASSUME TypeOK, [Next]_vars PROVE TypeOK'
    OBVIOUS
  <2>1. CASE UNCHANGED vars
    BY <2>1 DEF vars, TypeOK, TablesType, LocalsType
  <2>0. Next => blurred' \in BOOLEAN
    BY DEF Next, Blurs
  <2>2. CASE Next /\ (Restart \/ \E h \in Handlers : Fault(h))
    BY <2>0, <2>2, FaultTyped
  <2>3. CASE Next /\ ReloadBronze /\ UNCHANGED faults
    BY <2>0, <2>3, BronzeTyped
  <2>4. ASSUME Next, NEW h \in Handlers, Start(h) \/ Step(h), UNCHANGED faults
        PROVE  TypeOK'
    BY <2>0, <2>4, StartTyped, EnsureTyped, ValidationTyped, ChainTyped, BronzeTyped DEF Step
  <2> QED
    BY <2>1, <2>2, <2>3, <2>4 DEF Next
<1> QED
  BY <1>1, <1>2, PTL DEF Spec
============================================================================
