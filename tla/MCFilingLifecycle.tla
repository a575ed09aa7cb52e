------------------------- MODULE MCFilingLifecycle -------------------------
(* Small instances of FilingLifecycle for TLC. *)
EXTENDS FilingLifecycle, TLC

CONSTANTS h1, h2,    \* request threads
          e1, w1     \* violations: e1 of an ERROR rule, w1 of a WARNING rule

OneHandler == {h1}
TwoHandlers == {h1, h2}

OneError == {e1}
ErrorAndWarning == {e1, w1}

\* two rules: e1 belongs to the first, w1 to the second
RulesOf(S) == [k \in S |-> IF k = e1 THEN 1 ELSE 2]
RuleOfOneError == RulesOf(OneError)
RuleOfErrorAndWarning == RulesOf(ErrorAndWarning)

HandlerSymmetry == Permutations(Handlers)
============================================================================
