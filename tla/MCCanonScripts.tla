--------------------------- MODULE MCCanonScripts ---------------------------
(* A small instance of CanonScripts for TLC: one node of every kind there is. *)
EXTENDS CanonScripts

CONSTANTS
    premium, phantom, citizens,             \* layouts: canonical, phantom, Florida's
    zip, stray, loose, flood,               \* fields: of each layout, and of none
    cause, reasons, perils, used,           \* lists: with values, empty, Florida's, of a field
    hail, orphan,                           \* values: of cause, of no list
    a34, a22, fhcf, valid, lost, premiums,  \* rules
    bulletin, dwelling,                     \* others
    plan, general, layout, statute,         \* documents
    r1, r2                                  \* runs

TwoRuns == {r1, r2}
AllLayouts == {premium, phantom, citizens}
AllFields == {zip, stray, loose, flood}
AllLists == {cause, reasons, perils, used}
AllValues == {hail, orphan}
AllRules == {a34, a22, fhcf, valid, lost}
AllOthers == {bulletin, dwelling}

SeededNodes == {premium, cause, reasons, hail, a34, bulletin, dwelling}
SeededLinks == {<<cause, hail>>, <<bulletin, a34>>}

AllDocs == {plan, general, layout, statute}

\* dwelling is seeded and also proposed by the Florida statute, perils by it and by plan
NodesOf == general :> {a22, loose, orphan}
           @@ plan :> {phantom, stray, used, perils}
           @@ layout :> {premium, zip}
           @@ statute :> {citizens, flood, perils, fhcf, dwelling}
LinksOf == general :> {}
           @@ plan :> {<<phantom, stray>>, <<stray, used>>}
           @@ layout :> {<<zip, premium>>}
           @@ statute :> {<<flood, citizens>>, <<flood, perils>>}
CitesOf == general :> {a22} @@ plan :> {phantom} @@ layout :> {premium, zip}
           @@ statute :> {citizens}

ReplayOrder == <<general, plan, statute>>
ParseOrder == <<layout>>

RunSymmetry == Permutations(Runs)
=============================================================================
