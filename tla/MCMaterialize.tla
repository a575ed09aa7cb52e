----------------------------- MODULE MCMaterialize -----------------------------
(* Small instances of Materialize for TLC. *)
EXTENDS Materialize, TLC

CONSTANTS r1, r2,                       \* request threads
          plan_doc, memo_doc,           \* RegulationDocuments
          rule,                         \* a Rule
          code_list, code_value,        \* a CodeList and a CodeValue
          override,                     \* a BulletinOverride
          layout                        \* a RecordLayout

TwoRuns == {r1, r2}
AllKeys == {plan_doc, memo_doc, rule, code_list, code_value, override, layout}
AllDocuments == {plan_doc, memo_doc}
AllExempt == {plan_doc, memo_doc, layout}
Layouts == {layout}
Names == {"section", "bulletin", "wire"}
Owned == {"wire"}

Doc(k, h, own) == [key |-> k, hash |-> h, hashed |-> own, ref |-> 0, valid |-> TRUE]
Of(k, d) == [key |-> k, hash |-> "none", hashed |-> FALSE, ref |-> d, valid |-> TRUE]
Plain(k) == Of(k, 0)

\* A section: a code value before its list, which was seeded, its document, and a rule
\* that belongs to no proposal.  A bulletin: an override before its document, the section's
\* under another name; what it overrides, the list (made again and overridden again after
\* it was superseded); the override once more.  A document only the parser may take a
\* layout from.
Proposals == [e \in Names |->
    IF e = "section" THEN
        <<Of(code_value, 2), Plain(code_list), Doc(plan_doc, "h1", TRUE), Of(rule, 9)>>
    ELSE IF e = "bulletin" THEN
        <<Of(override, 2), Doc(memo_doc, "h1", TRUE), Plain(code_list), Of(override, 2)>>
    ELSE <<Doc(plan_doc, "h1", TRUE), Plain(layout)>>]

Rel(t, s, d) == [type |-> t, src |-> s, dst |-> d]
Relationships == [e \in Names |->
    IF e = "bulletin" THEN <<Rel("OVERRIDES", 1, 3)>>
    ELSE <<>>]
Citations == [e \in Names |-> IF e = "bulletin" THEN <<1>> ELSE <<>>]

Seed(k, h) == [id |-> <<"seed", k>>, key |-> k, hash |-> h, ref |-> <<>>, live |-> TRUE,
               by |-> "seed"]
SeededNodes == {Seed(code_list, "none")}

RunSymmetry == Permutations(Runs)
===============================================================================
