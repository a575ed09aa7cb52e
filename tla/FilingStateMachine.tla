------------------------ MODULE FilingStateMachine ------------------------
(***************************************************************************)
(* The "strict state machine" of docs/poc-decisions.md:602 for one filing: *)
(* the status moves one transition at a time, and nobody signs or seals a  *)
(* filing that has open ERROR-severity blockers.                           *)
(***************************************************************************)
EXTENDS Naturals

VARIABLES status,     \* FILING_BATCH.status, "none" before the row exists
          blockers    \* FILING_BATCH.open_blockers

Unsigned == {"none", "draft", "validating", "resolving", "validated"}

Init == status \in {"none", "draft"} /\ blockers = 0

Create ==
    /\ status = "none"
    /\ status' \in {"draft", "validating"}
    /\ blockers' = 0

\* a validation run sets the blockers, and the status until the first signature
Validate ==
    /\ status # "none"
    /\ blockers' \in Nat
    /\ status' = CASE status \notin Unsigned -> status
                   [] status \in Unsigned /\ blockers' > 0 -> "resolving"
                   [] status \in Unsigned /\ blockers' = 0 -> "validated"

Sign(from, to) ==
    /\ status = from /\ blockers = 0
    /\ status' = to
    /\ UNCHANGED blockers

Acknowledge ==
    /\ status = "submitted"
    /\ status' = "acked"
    /\ UNCHANGED blockers

Next ==
    \/ Create
    \/ Validate
    \/ Sign("validated", "analyst_signed")
    \/ Sign("analyst_signed", "actuary_approved")
    \/ Sign("actuary_approved", "officer_approved")
    \/ Sign("officer_approved", "submitted")
    \/ Acknowledge

Spec == Init /\ [][Next]_<<status, blockers>>
============================================================================
