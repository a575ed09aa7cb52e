----------------------------- MODULE MCPipeline -----------------------------
(* A small instance of Pipeline for TLC. *)
EXTENDS Pipeline, TLC

CONSTANTS r1, r2,        \* runs
          p1, p2,        \* policies
          c1, c2,        \* claims
          n1, n2, n3,    \* notices
          march, april

TwoRuns == {r1, r2}
TwoPolicies == {p1, p2}
TwoClaims == {c1, c2}
ThreeNotices == {n1, n2, n3}
TwoMonths == {march, april}

PolicyOfRows == [x \in {c1, n1, n2} |-> p1] @@ [x \in {c2, n3} |-> p2]

\* n1 and n2 agree in all columns, n3 in none
CombinationOfNotices == [n \in ThreeNotices |-> IF n = n3 THEN 2 ELSE 1]

RunSymmetry == Permutations(Runs)
=============================================================================
