------------------------- MODULE CanonScriptsProofs -------------------------
(***************************************************************************)
(* Theorems about CanonScripts: for every canon, every set of runs and     *)
(* jobs, every interleaving of their statements and every number of        *)
(* mishaps.                                                                *)
(*                                                                         *)
(* The first half is about steps of the system.  CanonInv types the state, *)
(* ties what a run has noted to the script it executes, and says of every  *)
(* node that it may only be in two jurisdictions, or be a national rule or *)
(* list outside Texas, if it was taken from another run (Good).            *)
(*                                                                         *)
(* The second half is about scripts on their own, After in CanonScripts.   *)
(* What a fold over statements gives is read off one statement at a time   *)
(* (SendMore); each script then has three lemmas: what it makes of a graph *)
(* (...After), what holds of the result (...Does), and that where this     *)
(* holds the script changes nothing (...Again).                            *)
(***************************************************************************)
EXTENDS CanonScripts, FiniteSetTheorems, SequenceTheorems, WellFoundedInduction, TLAPS

-----------------------------------------------------------------------------
(* The statements of each script.                                          *)

\* the reading, replacing and filling of a table from the file f
Loading(f) == [op : {"read", "replace", "insert"}, arg : {f}]

\* every other statement, by what it is about
Graphic ==
    UNION {[op : {"wipe"}, arg : {"seed", "rebuild"}],
           [op : {"seed", "federal", "attach_florida"}, arg : SUBSET Nodes],
           [op : {"retag"}, arg : {Florida}],
           [op : {"nodes", "links", "before", "after"}, arg : Docs],
           [op : {"merge_tx", "merge_fl", "obligation"}, arg : Infrastructure],
           [op : {"jurisdictions"}, arg : SUBSET Jurisdictions],
           [op : {"connect"}, arg : Links],
           [op : {"delete"}, arg : {"layouts", "fields", "lists", "values"}],
           [op : {"attach", "create_rule"}, arg : Rules],
           [op : {"apply", "backfill", "scope_rest", "rewire", "types", "citations", "list"},
            arg : {"all", "null", "US-TX", "US", "codelist", "unwanted"}],
           [op : {"build"}, arg : States],
           [op : {"build_codes"}, arg : {"codes"}],
           [op : {"insert_missing"}, arg : {Curated}]}

\* statements of the intake
Intaking == Graphic \union [op : {"code_new", "scope_new"}, arg : Docs]

LEMMA DoType == \A S, o, a : [op |-> o, arg |-> a] \in S => Do(o, a) \in Seq(S)
BY DEF Do

LEMMA CatType == \A S : \A p, q \in Seq(S) : p \o q \in Seq(S)
  OBVIOUS

LEMMA LeastOf ==
    ASSUME NEW S, S \subseteq Nat, S # {}
    PROVE  \E i \in S : \A j \in S : i <= j
<1>1. PICK i \in S : \A j \in S : <<j, i>> \notin OpToRel(<, Nat)
  BY NatLessThanWellFounded, WFMin
<1>2. \A j \in S : ~(j < i)
  BY <1>1 DEF OpToRel
<1> QED
  BY <1>2

\* FlattenSeq joins one sequence after the other.
Flat(g, q, n) == g = [i \in 1..n |-> IF i = 1 THEN q[i] ELSE g[i - 1] \o q[i]]
FlatTable(q, n) == CHOOSE g : Flat(g, q, n)

LEMMA FlattenIs == \A q : Len(q) # 0 => FlattenSeq(q) = FlatTable(q, Len(q))[Len(q)]
BY DEF FlattenSeq, FlatTable, Flat

LEMMA FlatExists ==
    ASSUME NEW q, NEW n \in Nat
    PROVE  Flat(FlatTable(q, n), q, n)
<1> DEFINE T == {m \in Nat : ~\E g : Flat(g, q, m)}
<1>1. CASE T = {}
  <2>1. \E g : Flat(g, q, n)
    BY <1>1
  <2> QED
    BY <2>1 DEF FlatTable
<1>2. CASE T # {}
  <2>1. PICK m \in T : \A j \in T : m <= j
    <3> HIDE DEF T
    <3>1. T \subseteq Nat
      BY DEF T
    <3> QED
      BY <1>2, <3>1, LeastOf
  <2>2. CASE m = 0
    <3>1. Flat([i \in 1..0 |-> 0], q, 0)
      BY DEF Flat
    <3> QED
      BY <2>2, <3>1
  <2>3. CASE m # 0
    <3>1. m - 1 \in Nat /\ m - 1 \notin T
      BY <2>1, <2>3
    <3>2. PICK g : Flat(g, q, m - 1)
      BY <3>1
    <3> DEFINE h == [i \in 1..m |-> IF i = m THEN (IF m = 1 THEN q[1] ELSE g[m - 1] \o q[m])
                                    ELSE g[i]]
    <3>3. \A i \in 1..m : h[i] = IF i = 1 THEN q[i] ELSE h[i - 1] \o q[i]
      <4> SUFFICES ASSUME NEW i \in 1..m
                   PROVE  h[i] = IF i = 1 THEN q[i] ELSE h[i - 1] \o q[i]
        OBVIOUS
      <4>1. CASE i = m
        <5>1. m # 1 => h[m - 1] = g[m - 1]
          BY <3>1
        <5> QED
          BY <4>1, <5>1
      <4>2. CASE i # m
        <5>1. i \in 1..(m - 1)
          BY <4>2, <3>1
        <5>2. g[i] = IF i = 1 THEN q[i] ELSE g[i - 1] \o q[i]
          BY <3>2, <5>1 DEF Flat
        <5>3. h[i] = g[i] /\ (i # 1 => h[i - 1] = g[i - 1])
          BY <4>2, <5>1, <3>1
        <5> QED
          BY <5>2, <5>3
      <4> QED
        BY <4>1, <4>2
    <3>4. h = [i \in 1..m |-> h[i]]
      OBVIOUS
    <3> HIDE DEF h
    <3>5. Flat(h, q, m)
      BY <3>3, <3>4 DEF Flat
    <3> QED
      BY <3>5
  <2> QED
    BY <2>2, <2>3
<1> QED
  BY <1>1, <1>2

LEMMA FlattenSteps ==
    ASSUME NEW q, NEW n \in Nat \ {0}, Len(q) = n
    PROVE  /\ FlattenSeq(q) = FlatTable(q, n)[n]
           /\ FlatTable(q, n)[1] = q[1]
           /\ \A i \in 2..n : FlatTable(q, n)[i] = FlatTable(q, n)[i - 1] \o q[i]
<1>1. FlattenSeq(q) = FlatTable(q, n)[n]
  BY FlattenIs
<1> DEFINE g == FlatTable(q, n)
<1>2. Flat(g, q, n)
  BY FlatExists
<1> HIDE DEF g
<1>3. \A i \in 1..n : g[i] = IF i = 1 THEN q[i] ELSE g[i - 1] \o q[i]
  BY <1>2 DEF Flat
<1>4. 1 \in 1..n /\ \A i \in 2..n : i \in 1..n /\ i # 1
  OBVIOUS
<1>5. g[1] = q[1] /\ \A i \in 2..n : g[i] = g[i - 1] \o q[i]
  BY <1>3, <1>4
<1> QED
  BY <1>1, <1>5 DEF g

LEMMA FlattenType ==
    ASSUME NEW S, NEW q, Len(q) \in Nat, \A i \in 1..Len(q) : q[i] \in Seq(S),
           Len(q) = 0 => q \in Seq(S)
    PROVE  FlattenSeq(q) \in Seq(S)
<1>1. CASE Len(q) = 0
  BY <1>1 DEF FlattenSeq
<1>2. CASE Len(q) # 0
  <2> DEFINE n == Len(q)
             g == FlatTable(q, n)
             T == {i \in 1..n : g[i] \notin Seq(S)}
  <2>1. /\ FlattenSeq(q) = g[n] /\ g[1] = q[1]
        /\ \A i \in 2..n : g[i] = g[i - 1] \o q[i]
    <3>1. n \in Nat \ {0}
      BY <1>2
    <3> QED
      BY <3>1, FlattenSteps
  <2>2. T = {}
    <3> SUFFICES ASSUME T # {} PROVE FALSE
      OBVIOUS
    <3>1. T \subseteq Nat
      OBVIOUS
    <3>2. PICK i \in T : \A j \in T : i <= j
      <4> HIDE DEF T
      <4> QED
        BY <3>1, LeastOf
    <3> HIDE DEF g
    <3>3. CASE i = 1
      BY <2>1, <3>2, <3>3
    <3>4. CASE i # 1
      <4>1. i - 1 \in 1..n /\ i - 1 \notin T
        BY <3>2, <3>4
      <4>2. g[i - 1] \in Seq(S) /\ q[i] \in Seq(S)
        BY <4>1, <3>2
      <4>3. i \in 2..n
        BY <3>2, <3>4
      <4>4. g[i] = g[i - 1] \o q[i]
        BY <2>1, <4>3
      <4> QED
        BY <3>2, <4>2, <4>4, CatType
    <3> QED
      BY <3>3, <3>4
  <2> QED
    BY <1>2, <2>1, <2>2
<1> QED
  BY <1>1, <1>2

LEMMA ReplayType ==
    ASSUME NEW D \in Seq(Docs)
    PROVE  ReplayAll(D) \in Seq([op : {"nodes", "links"}, arg : Docs])
<1> DEFINE S == [op : {"nodes", "links"}, arg : Docs]
           q == [i \in DOMAIN D |-> Do("nodes", D[i]) \o Do("links", D[i])]
<1>1. Len(D) \in Nat /\ DOMAIN D = 1..Len(D) /\ \A i \in 1..Len(D) : D[i] \in Docs
  OBVIOUS
<1>2. \A i \in 1..Len(D) : q[i] \in Seq(S)
  <2> SUFFICES ASSUME NEW i \in 1..Len(D) PROVE q[i] \in Seq(S)
    OBVIOUS
  <2>1. Do("nodes", D[i]) \in Seq(S) /\ Do("links", D[i]) \in Seq(S)
    BY <1>1, DoType
  <2> QED
    BY <1>1, <2>1, CatType
<1>3. q \in Seq(Seq(S)) /\ Len(q) = Len(D)
  <2>1. q \in [1..Len(D) -> Seq(S)]
    BY <1>1, <1>2
  <2> HIDE DEF q, S
  <2> QED
    BY <1>1, <2>1
<1> HIDE DEF q, S
<1>4. Len(q) = 0 => q \in Seq(S)
  BY <1>3
<1>5. FlattenSeq(q) \in Seq(S)
  BY <1>1, <1>2, <1>3, <1>4, FlattenType
<1> QED
  BY <1>5 DEF ReplayAll, q, S

LEMMA ReplaysGraphic == \A D \in Seq(Docs) : ReplayAll(D) \in Seq(Graphic)
<1>1. [op : {"nodes", "links"}, arg : Docs] \subseteq Graphic
  BY DEF Graphic
<1> QED
  BY <1>1, ReplayType, SeqMonotonic

LEMMA SetToSeqType ==
    ASSUME NEW S, IsFiniteSet(S)
    PROVE  /\ Cardinality(S) \in Nat
           /\ SetToSeq(S) \in [1..Cardinality(S) -> S]
           /\ SetToSeq(S) \in Seq(S) /\ Len(SetToSeq(S)) = Cardinality(S)
<1>1. Cardinality(S) \in Nat
  BY FS_CardinalityType
<1>2. \E f \in [1..Cardinality(S) -> S] : IsInjective(f)
  BY FS_CardinalityType DEF ExistsBijection, Bijection, Injection
<1>3. SetToSeq(S) \in [1..Cardinality(S) -> S]
  BY <1>2 DEF SetToSeq
<1> QED
  BY <1>1, <1>3

LEMMA ForEachType ==
    ASSUME NEW S, NEW T, IsFiniteSet(S), NEW o, \A x \in S : Do(o, x) \in Seq(T)
    PROVE  ForEach(o, SetToSeq(S)) \in Seq(T)
<1> DEFINE s == SetToSeq(S)
           q == [i \in DOMAIN s |-> Do(o, s[i])]
<1>1. Len(s) \in Nat /\ DOMAIN s = 1..Len(s) /\ \A i \in 1..Len(s) : s[i] \in S
  BY SetToSeqType
<1> HIDE DEF s
<1>2. \A i \in 1..Len(s) : q[i] \in Seq(T)
  BY <1>1
<1>3. q \in Seq(Seq(T)) /\ Len(q) = Len(s)
  <2>1. q \in [1..Len(s) -> Seq(T)]
    BY <1>1, <1>2
  <2> HIDE DEF q
  <2> QED
    BY <1>1, <2>1
<1> HIDE DEF q
<1>4. Len(q) = 0 => q \in Seq(T)
  BY <1>3
<1>5. FlattenSeq(q) \in Seq(T)
  BY <1>1, <1>2, <1>3, <1>4, FlattenType
<1> QED
  BY <1>5 DEF ForEach, q, s

LEMMA NodesKinds ==
    /\ Rules \subseteq Nodes /\ Layouts \subseteq Nodes /\ Lists \union Values \subseteq Nodes
    /\ Others \subseteq Nodes /\ Lists \subseteq Nodes /\ Florida \subseteq Nodes
    /\ Infrastructure \subseteq Nodes /\ FlRules \subseteq Nodes
<1>1. Florida \subseteq Nodes
  BY CanonAssumption DEF Florida
<1> QED
  BY <1>1, CanonAssumption DEF Nodes

LEMMA DosType ==
    \A O, A, S : [op : O, arg : A] \subseteq S => \A o \in O : \A a \in A : Do(o, a) \in Seq(S)
<1> SUFFICES ASSUME NEW O, NEW A, NEW S, [op : O, arg : A] \subseteq S,
                    NEW o \in O, NEW a \in A
             PROVE  Do(o, a) \in Seq(S)
  OBVIOUS
<1>1. [op |-> o, arg |-> a] \in S
  OBVIOUS
<1> QED
  BY <1>1, DoType

\* the members of a kind of statement are in Seq(Graphic)
AllGraphic(O, A) == \A o \in O : \A a \in A : Do(o, a) \in Seq(Graphic)

LEMMA KindGraphic == \A O, A : [op : O, arg : A] \subseteq Graphic => AllGraphic(O, A)
  BY DosType DEF AllGraphic

LEMMA DoGraphic ==
    /\ AllGraphic({"wipe"}, {"seed", "rebuild"})
    /\ AllGraphic({"seed", "federal", "attach_florida"}, SUBSET Nodes)
    /\ AllGraphic({"retag"}, {Florida})
    /\ AllGraphic({"nodes", "links", "before", "after"}, Docs)
    /\ AllGraphic({"merge_tx", "merge_fl", "obligation"}, Infrastructure)
    /\ AllGraphic({"jurisdictions"}, SUBSET Jurisdictions)
    /\ AllGraphic({"connect"}, Links)
    /\ AllGraphic({"delete"}, {"layouts", "fields", "lists", "values"})
    /\ AllGraphic({"attach", "create_rule"}, Rules)
    /\ AllGraphic({"apply", "backfill", "scope_rest", "rewire", "types", "citations", "list"},
                  {"all", "null", "US-TX", "US", "codelist", "unwanted"})
    /\ AllGraphic({"build"}, States)
    /\ AllGraphic({"build_codes"}, {"codes"})
    /\ AllGraphic({"insert_missing"}, {Curated})
<1>1. [op : {"wipe"}, arg : {"seed", "rebuild"}] \subseteq Graphic
  BY DEF Graphic
<1>2. /\ [op : {"seed", "federal", "attach_florida"}, arg : SUBSET Nodes] \subseteq Graphic
      /\ [op : {"retag"}, arg : {Florida}] \subseteq Graphic
  BY DEF Graphic
<1>3. [op : {"nodes", "links", "before", "after"}, arg : Docs] \subseteq Graphic
  BY DEF Graphic
<1>4. [op : {"merge_tx", "merge_fl", "obligation"}, arg : Infrastructure] \subseteq Graphic
  BY DEF Graphic
<1>5. [op : {"jurisdictions"}, arg : SUBSET Jurisdictions] \subseteq Graphic
  BY DEF Graphic
<1>6. [op : {"connect"}, arg : Links] \subseteq Graphic
  BY DEF Graphic
<1>7. [op : {"delete"}, arg : {"layouts", "fields", "lists", "values"}] \subseteq Graphic
  BY DEF Graphic
<1>8. [op : {"attach", "create_rule"}, arg : Rules] \subseteq Graphic
  BY DEF Graphic
<1>9. [op : {"apply", "backfill", "scope_rest", "rewire", "types", "citations", "list"},
       arg : {"all", "null", "US-TX", "US", "codelist", "unwanted"}] \subseteq Graphic
  BY DEF Graphic
<1>10. [op : {"build"}, arg : States] \subseteq Graphic
  BY DEF Graphic
<1>11. [op : {"build_codes"}, arg : {"codes"}] \subseteq Graphic
  BY DEF Graphic
<1>12. [op : {"insert_missing"}, arg : {Curated}] \subseteq Graphic
  BY DEF Graphic
<1> HIDE DEF Graphic
<1> QED
  BY <1>1, <1>2, <1>3, <1>4, <1>5, <1>6, <1>7, <1>8, <1>9, <1>10, <1>11, <1>12, KindGraphic

\* the scripts that load a table
Loads == {"load", "load_fl", "load_codes"}

FileOf == [load |-> "US-TX", load_fl |-> "US-FL", load_codes |-> "codes"]

LEMMA SeedGraphic == Seed \in Seq(Graphic)
<1>1. /\ Do("wipe", "seed") \in Seq(Graphic) /\ Do("seed", SeedRules) \in Seq(Graphic)
      /\ Do("seed", SeedLayouts) \in Seq(Graphic) /\ Do("seed", SeedCodes) \in Seq(Graphic)
      /\ Do("seed", SeedOthers) \in Seq(Graphic)
  BY DoGraphic, NodesKinds DEF AllGraphic, SeedRules, SeedLayouts, SeedCodes, SeedOthers
<1> QED
  BY <1>1, CatType DEF Seed

LEMMA CleanupGraphic == CleanupKg \in Seq(Graphic)
<1>1. /\ Do("list", "unwanted") \in Seq(Graphic) /\ Do("delete", "layouts") \in Seq(Graphic)
      /\ Do("delete", "fields") \in Seq(Graphic) /\ Do("delete", "lists") \in Seq(Graphic)
      /\ Do("delete", "values") \in Seq(Graphic)
  BY DoGraphic DEF AllGraphic
<1> QED
  BY <1>1, CatType DEF CleanupKg

LEMMA FloridaGraphic == SeedFlorida \in Seq(Graphic)
<1>1. /\ Do("jurisdictions", {"US-FL"}) \in Seq(Graphic)
      /\ Do("merge_fl", "FL-OIR") \in Seq(Graphic)
      /\ Do("retag", Florida) \in Seq(Graphic)
  BY DoGraphic, NodesKinds DEF AllGraphic, Jurisdictions, States, Infrastructure
<1> QED
  BY <1>1, CatType DEF SeedFlorida, Scaffolding

LEMMA RebuildGraphic == RebuildKg \in Seq(Graphic)
<1>1. Do("wipe", "rebuild") \in Seq(Graphic) /\ Do("apply", "all") \in Seq(Graphic)
  BY DoGraphic DEF AllGraphic
<1>2. ReplayAll(Replayed) \in Seq(Graphic) /\ ReplayAll(Parsed) \in Seq(Graphic)
  BY ReplaysGraphic, CanonAssumption
<1> QED
  BY <1>1, <1>2, SeedGraphic, CleanupGraphic, FloridaGraphic, CatType DEF RebuildKg

LEMMA RulesGraphic == MigrateValidationRules \in Seq(Graphic)
<1>1. IsFiniteSet(KgRules)
  BY CanonAssumption, NodesKinds, FS_Subset
<1>2. ForEach("attach", SetToSeq(KgRules)) \in Seq(Graphic)
  BY <1>1, DoGraphic, CanonAssumption, ForEachType DEF AllGraphic
<1>3. Do("create_rule", Created) \in Seq(Graphic)
  BY DoGraphic, CanonAssumption DEF AllGraphic
<1> QED
  BY <1>2, <1>3, CatType DEF MigrateValidationRules

LEMMA JurisdictionsGraphic == SeedJurisdictions \in Seq(Graphic)
<1>1. /\ Do("jurisdictions", {"US", "US-TX"}) \in Seq(Graphic)
      /\ Do("merge_tx", "TDI") \in Seq(Graphic) /\ Do("merge_tx", "TICO") \in Seq(Graphic)
      /\ Do("backfill", "null") \in Seq(Graphic) /\ Do("scope_rest", "US-TX") \in Seq(Graphic)
  BY DoGraphic DEF AllGraphic, Jurisdictions, States, Infrastructure
<1> QED
  BY <1>1, CatType DEF SeedJurisdictions

LEMMA FederalGraphic == TagFederalDefaults \in Seq(Graphic)
<1>1. /\ Do("federal", Rules) \in Seq(Graphic) /\ Do("federal", Lists) \in Seq(Graphic)
      /\ Do("rewire", "US") \in Seq(Graphic)
  BY DoGraphic, NodesKinds DEF AllGraphic
<1> QED
  BY <1>1, CatType DEF TagFederalDefaults

LEMMA ObligationsGraphic == SeedFilingObligations \in Seq(Graphic)
<1>1. /\ Do("merge_tx", "Lone Star Mutual") \in Seq(Graphic)
      /\ Do("obligation", "obligation") \in Seq(Graphic)
      /\ Do("merge_tx", "obligation") \in Seq(Graphic)
  BY DoGraphic DEF AllGraphic, Infrastructure
<1>2. /\ Do("connect", <<"obligation", "Lone Star Mutual">>) \in Seq(Graphic)
      /\ Do("connect", <<"obligation", "TICO">>) \in Seq(Graphic)
  BY DoGraphic, NodesKinds DEF AllGraphic, Infrastructure, Links
<1> QED
  BY <1>1, <1>2, CatType DEF SeedFilingObligations

\* p has n statements, of kind S
Sized(p, n, S) == p \in Seq(S) /\ Len(p) = n

LEMMA DoSized == \A o, a, S : Do(o, a) \in Seq(S) => Sized(Do(o, a), 1, S)
  BY DEF Do, Sized

LEMMA CatSized ==
    ASSUME NEW S, NEW m \in Nat, NEW n \in Nat, NEW p, NEW q, Sized(p, m, S), Sized(q, n, S)
    PROVE  Sized(p \o q, m + n, S)
  BY DEF Sized

\* p, one statement longer, is q
Longer(p, q, n, o) == q[n + 1].op = o /\ \A i \in 1..n : q[i] = p[i]

LEMMA SnocIs ==
    ASSUME NEW S, NEW n \in Nat, NEW p, NEW o, NEW a, Sized(p, n, S), Do(o, a) \in Seq(S)
    PROVE  Sized(p \o Do(o, a), n + 1, S) /\ Longer(p, p \o Do(o, a), n, o)
<1>1. Sized(p \o Do(o, a), n + 1, S)
  BY DoSized, CatSized
<1>2. Longer(p, p \o Do(o, a), n, o)
  BY DEF Do, Sized, Longer
<1> QED
  BY <1>1, <1>2

\* The statements of the intake: the last two tag what it has noted.
LEMMA IntakeIs ==
    /\ MaterializeFlorida \in Seq(Intaking) /\ Len(MaterializeFlorida) = 8
    /\ MaterializeFlorida[7].op = "code_new" /\ MaterializeFlorida[8].op = "scope_new"
    /\ \A i \in 1..6 : MaterializeFlorida[i] \in Graphic
<1> DEFINE p2 == IntakeScaffolding
           p3 == p2 \o Do("before", Intake)
           p4 == p3 \o Do("nodes", Intake)
           p5 == p4 \o Do("links", Intake)
           p6 == p5 \o Do("after", Intake)
           p7 == p6 \o Do("code_new", Intake)
           p8 == p7 \o Do("scope_new", Intake)
<1>1. Sized(p2, 2, Graphic)
  <2>1. /\ Do("jurisdictions", {"US-FL"}) \in Seq(Graphic)
        /\ Do("merge_fl", "FL-OIR") \in Seq(Graphic)
    BY DoGraphic DEF AllGraphic, Jurisdictions, States, Infrastructure
  <2>2. /\ Sized(Do("jurisdictions", {"US-FL"}), 1, Graphic)
        /\ Sized(Do("merge_fl", "FL-OIR"), 1, Graphic)
    BY <2>1, DoSized
  <2>3. Sized(Do("jurisdictions", {"US-FL"}) \o Do("merge_fl", "FL-OIR"), 1 + 1, Graphic)
    BY <2>2, CatSized
  <2> QED
    BY <2>3 DEF IntakeScaffolding
<1> HIDE DEF p2
<1>2. /\ Do("before", Intake) \in Seq(Graphic) /\ Do("nodes", Intake) \in Seq(Graphic)
      /\ Do("links", Intake) \in Seq(Graphic) /\ Do("after", Intake) \in Seq(Graphic)
  BY DoGraphic, CanonAssumption DEF AllGraphic
<1>3. Sized(p3, 2 + 1, Graphic)
  BY <1>1, <1>2, SnocIs
<1> HIDE DEF p3
<1>4. Sized(p4, 3 + 1, Graphic)
  BY <1>2, <1>3, SnocIs
<1> HIDE DEF p4
<1>5. Sized(p5, 4 + 1, Graphic)
  BY <1>2, <1>4, SnocIs
<1> HIDE DEF p5
<1>6. Sized(p6, 5 + 1, Graphic)
  BY <1>2, <1>5, SnocIs
<1> HIDE DEF p6
<1>7. Sized(p6, 6, Intaking)
  <2>1. Graphic \subseteq Intaking
    BY DEF Intaking
  <2>2. p6 \in Seq(Graphic) /\ Len(p6) = 6
    BY <1>6 DEF Sized
  <2>3. Seq(Graphic) \subseteq Seq(Intaking)
    BY <2>1, SeqMonotonic
  <2>4. p6 \in Seq(Intaking)
    BY <2>2, <2>3
  <2> QED
    BY <2>2, <2>4 DEF Sized
<1>8. Do("code_new", Intake) \in Seq(Intaking) /\ Do("scope_new", Intake) \in Seq(Intaking)
  BY DoType, CanonAssumption DEF Intaking
<1>9. Sized(p7, 6 + 1, Intaking) /\ Longer(p6, p7, 6, "code_new")
  BY <1>7, <1>8, SnocIs
<1> HIDE DEF p7
<1>10. Sized(p8, 7 + 1, Intaking) /\ Longer(p7, p8, 7, "scope_new")
  BY <1>8, <1>9, SnocIs
<1>11. MaterializeFlorida = p8
  BY DEF MaterializeFlorida, p2, p3, p4, p5, p6, p7
<1> HIDE DEF p8
<1>12. p8[7].op = "code_new" /\ p8[8].op = "scope_new"
  BY <1>9, <1>10 DEF Longer
<1>13. \A i \in 1..6 : p8[i] = p6[i] /\ p6[i] \in Graphic
  <2>1. \A i \in 1..6 : p6[i] \in Graphic
    <3>1. p6 \in Seq(Graphic) /\ Len(p6) = 6
      BY <1>6 DEF Sized
    <3> QED
      BY <3>1, ElementOfSeq
  <2>2. \A i \in 1..6 : p7[i] = p6[i]
    BY <1>9 DEF Longer
  <2>3. \A i \in 1..7 : p8[i] = p7[i]
    BY <1>10 DEF Longer
  <2>4. \A i \in 1..6 : i \in 1..7
    OBVIOUS
  <2> QED
    BY <2>1, <2>2, <2>3, <2>4
<1>14. p8 \in Seq(Intaking) /\ Len(p8) = 8
  BY <1>10 DEF Sized
<1> QED
  BY <1>11, <1>12, <1>13, <1>14

\* what the statements of script x are
Kind(x) == IF x \in Loads THEN Loading(FileOf[x]) ELSE IF x = "intake" THEN Intaking ELSE Graphic

LEMMA ScriptTypes ==
    \A x \in DOMAIN Statements : Statements[x] \in Seq(Kind(x))
<1>1. KgHygiene \in Seq(Graphic)
  <2>1. Do("types", "null") \in Seq(Graphic) /\ Do("citations", "codelist") \in Seq(Graphic)
    BY DoGraphic DEF AllGraphic
  <2> QED
    BY <2>1, CatType DEF KgHygiene
<1>2. /\ MigrateFlRules \in Seq(Graphic) /\ Do("build", "US-TX") \in Seq(Graphic)
      /\ Do("build", "US-FL") \in Seq(Graphic) /\ Do("build_codes", "codes") \in Seq(Graphic)
      /\ Do("insert_missing", Curated) \in Seq(Graphic)
  BY DoGraphic, NodesKinds DEF AllGraphic, MigrateFlRules, States
<1>3. ASSUME NEW f
      PROVE  Do("read", f) \o Do("replace", f) \o Do("insert", f) \in Seq(Loading(f))
  <2>1. /\ Do("read", f) \in Seq(Loading(f)) /\ Do("replace", f) \in Seq(Loading(f))
        /\ Do("insert", f) \in Seq(Loading(f))
    BY DoType DEF Loading
  <2> QED
    BY <2>1, CatType
<1>4. /\ LoadRules("US-TX") \in Seq(Loading("US-TX"))
      /\ LoadRules("US-FL") \in Seq(Loading("US-FL"))
      /\ LoadCodes \in Seq(Loading("codes"))
  BY <1>3 DEF LoadRules, LoadCodes
<1>5. MaterializeFlorida \in Seq(Intaking)
  BY IntakeIs
<1> QED
  BY <1>1, <1>2, <1>4, <1>5, SeedGraphic, CleanupGraphic, FloridaGraphic, RebuildGraphic,
     RulesGraphic, JurisdictionsGraphic, FederalGraphic, ObligationsGraphic, SMTT(30)
     DEF Statements, Loads, FileOf, Kind

-----------------------------------------------------------------------------
(* Types: what the statements do to the graph.                             *)

GraphType(g) ==
    /\ g = [node |-> g.node, links |-> g.links, jurisdictions |-> g.jurisdictions]
    /\ Present(g) \subseteq Nodes
    /\ g.node \in [Present(g) -> Properties]
    /\ g.links \subseteq Present(g) \X Present(g)
    /\ g.jurisdictions \subseteq Jurisdictions

LEMMA EmptyType == GraphType(Empty)
  BY DEF GraphType, Empty, Present

LEMMA FreshType ==
    /\ Fresh \in Properties
    /\ \A b \in BOOLEAN : [Fresh EXCEPT !.cites = b] \in Properties
    /\ \A j \in Jurisdictions : [Fresh EXCEPT !.code = j] \in Properties
    /\ [Fresh EXCEPT !.code = "null", !.type = FALSE] \in Properties
    /\ Legacy \in Properties
  BY DEF Fresh, Properties, Jurisdictions, States, Legacy

LEMMA MergeType ==
    ASSUME NEW g, GraphType(g), NEW N \in SUBSET Nodes, NEW f \in [N -> Properties]
    PROVE  /\ GraphType(Merge(g, f))
           /\ Present(Merge(g, f)) = Present(g) \union N
           /\ Merge(g, f).links = g.links /\ Merge(g, f).jurisdictions = g.jurisdictions
           /\ \A n \in Present(g) \union N :
                Merge(g, f).node[n] = IF n \in Present(g) THEN g.node[n] ELSE f[n]
<1> DEFINE h == [n \in Present(g) \union N |-> IF n \in Present(g) THEN g.node[n] ELSE f[n]]
<1>2. h \in [Present(g) \union N -> Properties]
  BY DEF GraphType
<1>3. Merge(g, f) = [node |-> h, links |-> g.links, jurisdictions |-> g.jurisdictions]
  BY DEF Merge, GraphType, Present
<1>4. Present(Merge(g, f)) = Present(g) \union N
  BY <1>3 DEF Present
<1>5. \A n \in Present(g) \union N : Merge(g, f).node[n] = h[n]
  BY <1>3
<1> HIDE DEF h
<1>6. GraphType(Merge(g, f))
  BY <1>2, <1>3, <1>4 DEF GraphType
<1> QED
  BY <1>3, <1>4, <1>5, <1>6 DEF h

LEMMA ConnectType ==
    ASSUME NEW g, GraphType(g), NEW L \in SUBSET Links
    PROVE  /\ GraphType(Connect(g, L)) /\ Connect(g, L).node = g.node
           /\ Connect(g, L).jurisdictions = g.jurisdictions
<1> DEFINE K == {l \in L : l[1] \in Present(g) /\ l[2] \in Present(g)}
<1>0. Connect(g, L) = [g EXCEPT !.links = @ \union K]
  BY DEF Connect
<1>2. K \subseteq Present(g) \X Present(g)
  BY DEF Links
<1> HIDE DEF K
<1>1. Connect(g, L) =
        [node |-> g.node, links |-> g.links \union K, jurisdictions |-> g.jurisdictions]
  BY <1>0 DEF GraphType
<1> QED
  BY <1>1, <1>2 DEF GraphType, Present

\* A change of properties is a new function on the same nodes.
LEMMA NodesType ==
    ASSUME NEW g, GraphType(g), NEW h \in [Present(g) -> Properties]
    PROVE  /\ GraphType([g EXCEPT !.node = h])
           /\ [g EXCEPT !.node = h] =
                [node |-> h, links |-> g.links, jurisdictions |-> g.jurisdictions]
<1>1. [g EXCEPT !.node = h] = [node |-> h, links |-> g.links, jurisdictions |-> g.jurisdictions]
  BY DEF GraphType
<1> QED
  BY <1>1 DEF GraphType, Present

LEMMA JurisdictionsType ==
    ASSUME NEW g, GraphType(g), NEW J \in SUBSET Jurisdictions
    PROVE  /\ GraphType([g EXCEPT !.jurisdictions = @ \union J])
           /\ [g EXCEPT !.jurisdictions = @ \union J].node = g.node
           /\ [g EXCEPT !.jurisdictions = @ \union J].links = g.links
           /\ [g EXCEPT !.jurisdictions = @ \union J].jurisdictions = g.jurisdictions \union J
<1>1. [g EXCEPT !.jurisdictions = @ \union J] =
        [node |-> g.node, links |-> g.links, jurisdictions |-> g.jurisdictions \union J]
  BY DEF GraphType
<1> QED
  BY <1>1 DEF GraphType, Present

LEMMA DeleteType ==
    ASSUME NEW g, GraphType(g), NEW N
    PROVE  /\ GraphType(DetachDelete(g, N))
           /\ Present(DetachDelete(g, N)) = Present(g) \ N
           /\ DetachDelete(g, N).links = {l \in g.links : l[1] \notin N /\ l[2] \notin N}
           /\ DetachDelete(g, N).jurisdictions = g.jurisdictions
           /\ \A n \in Present(g) \ N : DetachDelete(g, N).node[n] = g.node[n]
<1> DEFINE h == [n \in Present(g) \ N |-> g.node[n]]
<1>1. Restrict(g.node, DOMAIN g.node \ N) = h
  BY DEF Restrict, Present
<1> DEFINE K == {l \in g.links : l[1] \notin N /\ l[2] \notin N}
<1>2. DetachDelete(g, N) = [node |-> h, links |-> K, jurisdictions |-> g.jurisdictions]
  <2>1. DetachDelete(g, N) = [g EXCEPT !.node = h, !.links = K]
    BY <1>1 DEF DetachDelete
  <2> HIDE DEF K, h
  <2> QED
    BY <2>1 DEF GraphType
<1>3. h \in [Present(g) \ N -> Properties] /\ DOMAIN h = Present(g) \ N
  BY DEF GraphType
<1>4. K \subseteq (Present(g) \ N) \X (Present(g) \ N)
  BY DEF GraphType
<1>5. \A n \in Present(g) \ N : h[n] = g.node[n]
  OBVIOUS
<1> HIDE DEF h
<1> QED
  BY <1>2, <1>3, <1>4, <1>5 DEF GraphType, Present

-----------------------------------------------------------------------------
(* What the statements that change properties make of each node.           *)

\* k is g but for properties of nodes
Same(g, k) ==
    /\ GraphType(k) /\ Present(k) = Present(g)
    /\ k.links = g.links /\ k.jurisdictions = g.jurisdictions

LEMMA ChangedIs ==
    ASSUME NEW g, GraphType(g), NEW k, NEW h \in [Present(g) -> Properties],
           k = [g EXCEPT !.node = h]
    PROVE  Same(g, k) /\ k.node = h
<1>1. GraphType(k) /\ k = [node |-> h, links |-> g.links, jurisdictions |-> g.jurisdictions]
  BY NodesType
<1> QED
  BY <1>1 DEF Same, Present

\* ApplyBulletins, and below the other statements, node by node.
LEMMA ApplyIs ==
    ASSUME NEW g, GraphType(g)
    PROVE  /\ Same(g, ApplyBulletins(g))
           /\ \A n \in Present(g) : ApplyBulletins(g).node[n] =
                IF n \in Overridden(g) THEN [g.node[n] EXCEPT !.superseded = TRUE]
                ELSE g.node[n]
<1> DEFINE h == [n \in Present(g) |-> IF n \in Overridden(g)
                                     THEN [g.node[n] EXCEPT !.superseded = TRUE]
                                     ELSE g.node[n]]
<1>1. h \in [Present(g) -> Properties]
  BY DEF GraphType, Properties
<1>2. ApplyBulletins(g) = [g EXCEPT !.node = h]
  BY DEF ApplyBulletins, Change, Present
<1> HIDE DEF h
<1>3. Same(g, ApplyBulletins(g)) /\ ApplyBulletins(g).node = h
  BY <1>1, <1>2, ChangedIs
<1> QED
  BY <1>3 DEF h

LEMMA BackfillIs ==
    ASSUME NEW g, GraphType(g)
    PROVE  /\ Same(g, Backfill(g))
           /\ \A n \in Present(g) : Backfill(g).node[n] =
                IF g.node[n].code = "null" THEN [g.node[n] EXCEPT !.code = "US-TX"]
                ELSE g.node[n]
<1> DEFINE h == [n \in Present(g) |-> IF g.node[n].code = "null"
                                     THEN [g.node[n] EXCEPT !.code = "US-TX"]
                                     ELSE g.node[n]]
<1>1. h \in [Present(g) -> Properties]
  BY DEF GraphType, Properties, Jurisdictions, States
<1>2. Backfill(g) = [g EXCEPT !.node = h]
  BY DEF Backfill, Change, Present
<1> HIDE DEF h
<1>3. Same(g, Backfill(g)) /\ Backfill(g).node = h
  BY <1>1, <1>2, ChangedIs
<1> QED
  BY <1>3 DEF h

LEMMA RestIs ==
    ASSUME NEW g, GraphType(g)
    PROVE  /\ Same(g, ScopeRest(g))
           /\ \A n \in Present(g) : ScopeRest(g).node[n] =
                IF g.node[n].scope = {} THEN [g.node[n] EXCEPT !.scope = Known(g, "US-TX")]
                ELSE g.node[n]
<1> DEFINE h == [n \in Present(g) |-> IF g.node[n].scope = {}
                                     THEN [g.node[n] EXCEPT !.scope = Known(g, "US-TX")]
                                     ELSE g.node[n]]
<1>1. h \in [Present(g) -> Properties]
  BY DEF GraphType, Properties, Known, Jurisdictions, States
<1>2. ScopeRest(g) = [g EXCEPT !.node = h]
  BY DEF ScopeRest, Change, Present
<1> HIDE DEF h
<1>3. Same(g, ScopeRest(g)) /\ ScopeRest(g).node = h
  BY <1>1, <1>2, ChangedIs
<1> QED
  BY <1>3 DEF h

Tagged(p) == [p EXCEPT !.federal = TRUE, !.code = "US"]

LEMMA FederalIs ==
    ASSUME NEW g, GraphType(g), NEW N
    PROVE  /\ Same(g, TagFederal(g, N))
           /\ \A n \in Present(g) : TagFederal(g, N).node[n] =
                IF n \in Federal \intersect N THEN Tagged(g.node[n])
                ELSE g.node[n]
<1> DEFINE h == [n \in Present(g) |-> IF n \in Federal \intersect N
                                     THEN Tagged(g.node[n])
                                     ELSE g.node[n]]
<1>1. h \in [Present(g) -> Properties]
  BY ZenonT(60) DEF GraphType, Properties, Tagged, Jurisdictions
<1>2. TagFederal(g, N) = [g EXCEPT !.node = h]
  BY DEF TagFederal, Tagged, Change, Present
<1> HIDE DEF h
<1>3. Same(g, TagFederal(g, N)) /\ TagFederal(g, N).node = h
  BY <1>1, <1>2, ChangedIs
<1> QED
  BY <1>3 DEF h

LEMMA RewireIs ==
    ASSUME NEW g, GraphType(g)
    PROVE  /\ Same(g, Rewire(g))
           /\ \A n \in Present(g) : Rewire(g).node[n] =
                IF /\ g.node[n].federal /\ "US-TX" \in g.node[n].scope
                   /\ "US" \in g.jurisdictions
                THEN [g.node[n] EXCEPT !.scope = Rewired(g, g.node[n])]
                ELSE g.node[n]
<1> DEFINE h == [n \in Present(g) |-> IF /\ g.node[n].federal /\ "US-TX" \in g.node[n].scope
                   /\ "US" \in g.jurisdictions
                                     THEN [g.node[n] EXCEPT !.scope = Rewired(g, g.node[n])]
                                     ELSE g.node[n]]
<1>1. h \in [Present(g) -> Properties]
  BY DEF GraphType, Properties, Rewired, Jurisdictions
<1>2. Rewire(g) = [g EXCEPT !.node = h]
  BY DEF Rewire, Change, Present
<1> HIDE DEF h
<1>3. Same(g, Rewire(g)) /\ Rewire(g).node = h
  BY <1>1, <1>2, ChangedIs
<1> QED
  BY <1>3 DEF h

LEMMA ScopeFloridaIs ==
    ASSUME NEW g, GraphType(g), NEW N
    PROVE  /\ Same(g, ScopeFlorida(g, N))
           /\ \A n \in Present(g) : ScopeFlorida(g, N).node[n] =
                IF n \in N
                THEN [g.node[n] EXCEPT !.scope = (@ \ {"US-TX"}) \union Known(g, "US-FL")]
                ELSE g.node[n]
<1> DEFINE h == [n \in Present(g) |->
                   IF n \in N
                   THEN [g.node[n] EXCEPT !.scope = (@ \ {"US-TX"}) \union Known(g, "US-FL")]
                   ELSE g.node[n]]
<1>1. h \in [Present(g) -> Properties]
  BY DEF GraphType, Properties, Known, Jurisdictions, States
<1>2. ScopeFlorida(g, N) = [g EXCEPT !.node = h]
  BY DEF ScopeFlorida, Change, Present
<1> HIDE DEF h
<1>3. Same(g, ScopeFlorida(g, N)) /\ ScopeFlorida(g, N).node = h
  BY <1>1, <1>2, ChangedIs
<1> QED
  BY <1>3 DEF h

LEMMA CodeFloridaIs ==
    ASSUME NEW g, GraphType(g), NEW N
    PROVE  /\ Same(g, CodeFlorida(g, N))
           /\ \A n \in Present(g) : CodeFlorida(g, N).node[n] =
                IF n \in N THEN [g.node[n] EXCEPT !.code = "US-FL"]
                ELSE g.node[n]
<1> DEFINE h == [n \in Present(g) |-> IF n \in N
                                     THEN [g.node[n] EXCEPT !.code = "US-FL"]
                                     ELSE g.node[n]]
<1>1. h \in [Present(g) -> Properties]
  BY DEF GraphType, Properties, Jurisdictions, States
<1>2. CodeFlorida(g, N) = [g EXCEPT !.node = h]
  BY DEF CodeFlorida, Change, Present
<1> HIDE DEF h
<1>3. Same(g, CodeFlorida(g, N)) /\ CodeFlorida(g, N).node = h
  BY <1>1, <1>2, ChangedIs
<1> QED
  BY <1>3 DEF h

Attached(p) == [p EXCEPT !.sql = TRUE, !.superseded = FALSE]

LEMMA AttachIs ==
    ASSUME NEW g, GraphType(g), NEW N
    PROVE  /\ Same(g, Attach(g, N))
           /\ \A n \in Present(g) : Attach(g, N).node[n] =
                IF n \in N THEN Attached(g.node[n])
                ELSE g.node[n]
<1> DEFINE h == [n \in Present(g) |-> IF n \in N
                                     THEN Attached(g.node[n])
                                     ELSE g.node[n]]
<1>1. h \in [Present(g) -> Properties]
  BY ZenonT(60) DEF GraphType, Properties, Attached
<1>2. Attach(g, N) = [g EXCEPT !.node = h]
  BY DEF Attach, Attached, Change, Present
<1> HIDE DEF h
<1>3. Same(g, Attach(g, N)) /\ Attach(g, N).node = h
  BY <1>1, <1>2, ChangedIs
<1> QED
  BY <1>3 DEF h

LEMMA TypeIs ==
    ASSUME NEW g, GraphType(g)
    PROVE  /\ Same(g, Change(g, Present(g), LAMBDA p : [p EXCEPT !.type = TRUE]))
           /\ \A n \in Present(g) :
                Change(g, Present(g), LAMBDA p : [p EXCEPT !.type = TRUE]).node[n] =
                  [g.node[n] EXCEPT !.type = TRUE]
<1> DEFINE h == [n \in Present(g) |-> [g.node[n] EXCEPT !.type = TRUE]]
<1>1. h \in [Present(g) -> Properties]
  BY DEF GraphType, Properties
<1>2. Change(g, Present(g), LAMBDA p : [p EXCEPT !.type = TRUE]) = [g EXCEPT !.node = h]
  BY DEF Change, Present
<1> HIDE DEF h
<1>3. /\ Same(g, Change(g, Present(g), LAMBDA p : [p EXCEPT !.type = TRUE]))
      /\ Change(g, Present(g), LAMBDA p : [p EXCEPT !.type = TRUE]).node = h
  BY <1>1, <1>2, ChangedIs
<1> QED
  BY <1>3 DEF h

LEMMA CiteIs ==
    ASSUME NEW g, GraphType(g), NEW N
    PROVE  /\ Same(g, Change(g, N, LAMBDA p : [p EXCEPT !.cites = TRUE]))
           /\ \A n \in Present(g) : Change(g, N, LAMBDA p : [p EXCEPT !.cites = TRUE]).node[n] =
                IF n \in N THEN [g.node[n] EXCEPT !.cites = TRUE]
                ELSE g.node[n]
<1> DEFINE h == [n \in Present(g) |-> IF n \in N
                                     THEN [g.node[n] EXCEPT !.cites = TRUE]
                                     ELSE g.node[n]]
<1>1. h \in [Present(g) -> Properties]
  BY ZenonT(60) DEF GraphType, Properties
<1>2. Change(g, N, LAMBDA p : [p EXCEPT !.cites = TRUE]) = [g EXCEPT !.node = h]
  BY DEF Change, Present
<1> HIDE DEF h
<1>3. /\ Same(g, Change(g, N, LAMBDA p : [p EXCEPT !.cites = TRUE]))
      /\ Change(g, N, LAMBDA p : [p EXCEPT !.cites = TRUE]).node = h
  BY <1>1, <1>2, ChangedIs
<1> QED
  BY <1>3 DEF h

LEMMA SqlIs ==
    ASSUME NEW g, GraphType(g), NEW N
    PROVE  /\ Same(g, Change(g, N, LAMBDA p : [p EXCEPT !.sql = TRUE]))
           /\ \A n \in Present(g) : Change(g, N, LAMBDA p : [p EXCEPT !.sql = TRUE]).node[n] =
                IF n \in N THEN [g.node[n] EXCEPT !.sql = TRUE]
                ELSE g.node[n]
<1> DEFINE h == [n \in Present(g) |-> IF n \in N
                                     THEN [g.node[n] EXCEPT !.sql = TRUE]
                                     ELSE g.node[n]]
<1>1. h \in [Present(g) -> Properties]
  BY ZenonT(60) DEF GraphType, Properties
<1>2. Change(g, N, LAMBDA p : [p EXCEPT !.sql = TRUE]) = [g EXCEPT !.node = h]
  BY DEF Change, Present
<1> HIDE DEF h
<1>3. /\ Same(g, Change(g, N, LAMBDA p : [p EXCEPT !.sql = TRUE]))
      /\ Change(g, N, LAMBDA p : [p EXCEPT !.sql = TRUE]).node = h
  BY <1>1, <1>2, ChangedIs
<1> QED
  BY <1>3 DEF h

\* the second half of MergeScoped
WithScope(g, N, j) ==
    Change(g, N, LAMBDA p : [p EXCEPT !.scope = @ \union Known(g, j)])

LEMMA ScopedIs ==
    ASSUME NEW g, GraphType(g), NEW N, NEW j \in Jurisdictions
    PROVE  /\ Same(g, WithScope(g, N, j))
           /\ \A n \in Present(g) : WithScope(g, N, j).node[n] =
                IF n \in N THEN [g.node[n] EXCEPT !.scope = @ \union Known(g, j)]
                ELSE g.node[n]
<1> DEFINE h == [n \in Present(g) |-> IF n \in N
                                     THEN [g.node[n] EXCEPT !.scope = @ \union Known(g, j)]
                                     ELSE g.node[n]]
<1>1. h \in [Present(g) -> Properties]
  BY DEF GraphType, Properties, Known
<1>2. WithScope(g, N, j) = [g EXCEPT !.node = h]
  BY DEF WithScope, Change, Present
<1> HIDE DEF h
<1>3. Same(g, WithScope(g, N, j)) /\ WithScope(g, N, j).node = h
  BY <1>1, <1>2, ChangedIs
<1> QED
  BY <1>3 DEF h

LEMMA CitedType ==
    ASSUME NEW N, NEW C
    PROVE  [n \in N |-> [Fresh EXCEPT !.cites = n \in C]] \in [N -> Properties]
<1>1. ASSUME NEW n \in N
      PROVE  [Fresh EXCEPT !.cites = n \in C] \in Properties
  <2>1. \A b \in BOOLEAN : [Fresh EXCEPT !.cites = b] \in Properties
    BY FreshType
  <2>2. (n \in C) \in BOOLEAN
    OBVIOUS
  <2> QED
    BY <2>1, <2>2, Zenon
<1> QED
  BY <1>1

LEMMA SeedIs ==
    ASSUME NEW g, GraphType(g), NEW N
    PROVE  LET k == SeedNodes(g, N)
               f == [n \in Seeded \intersect N |-> [Fresh EXCEPT !.cites = n \in SeedCites]]
           IN  GraphType(k) /\ k.node = Merge(g, f).node
<1> DEFINE f == [n \in Seeded \intersect N |-> [Fresh EXCEPT !.cites = n \in SeedCites]]
<1>1. f \in [Seeded \intersect N -> Properties]
  BY CitedType
<1>2. Seeded \intersect N \in SUBSET Nodes /\ SeedLinks \in SUBSET Links
  BY CanonAssumption
<1>3. SeedNodes(g, N) = Connect(Merge(g, f), SeedLinks)
  BY DEF SeedNodes
<1> HIDE DEF f
<1>4. GraphType(Merge(g, f))
  BY <1>1, <1>2, MergeType
<1>5. GraphType(SeedNodes(g, N)) /\ SeedNodes(g, N).node = Merge(g, f).node
  BY <1>2, <1>3, <1>4, ConnectType
<1> QED
  BY <1>5 DEF f

\* what an extraction proposes
Proposals(d) == [n \in DocNodes[d] |-> [Fresh EXCEPT !.cites = n \in DocCites[d]]]

LEMMA ProposalsType ==
    ASSUME NEW d \in Docs
    PROVE  DocNodes[d] \in SUBSET Nodes /\ Proposals(d) \in [DocNodes[d] -> Properties]
  BY CitedType, CanonAssumption DEF Proposals

LEMMA ReplayNodesIs ==
    ASSUME NEW g, GraphType(g), NEW d \in Docs
    PROVE  GraphType(Materialize(g, d)) /\ Materialize(g, d) = Merge(g, Proposals(d))
<1>1. Materialize(g, d) = Merge(g, Proposals(d))
  BY DEF Materialize, Proposals
<1> QED
  BY <1>1, ProposalsType, MergeType

LEMMA ReplayLinksIs ==
    ASSUME NEW g, GraphType(g), NEW d \in Docs
    PROVE  LET k == MaterializeLinks(g, d)
           IN  /\ GraphType(k) /\ Present(k) = Present(g)
               /\ \A n \in Present(g) : k.node[n] =
                    IF n \in DocCites[d] THEN [g.node[n] EXCEPT !.cites = TRUE] ELSE g.node[n]
<1> DEFINE c == Connect(g, DocLinks[d])
           k == Change(c, DocCites[d], LAMBDA p : [p EXCEPT !.cites = TRUE])
<1>1. MaterializeLinks(g, d) = k
  BY DEF MaterializeLinks
<1>2. GraphType(c) /\ c.node = g.node
  BY CanonAssumption, ConnectType
<1>3. Present(c) = Present(g)
  BY <1>2 DEF Present
<1> HIDE DEF c
<1>4. Same(c, k) /\ \A n \in Present(c) : k.node[n] =
        IF n \in DocCites[d] THEN [c.node[n] EXCEPT !.cites = TRUE] ELSE c.node[n]
  BY <1>2, CiteIs
<1> HIDE DEF k
<1> QED
  BY <1>1, <1>2, <1>3, <1>4 DEF Same

LEMMA MergeScopedIs ==
    ASSUME NEW g, GraphType(g), NEW n \in Nodes, NEW j \in Jurisdictions
    PROVE  LET k == MergeScoped(g, n, j)
               old == IF n \in Present(g) THEN g.node[n] ELSE [Fresh EXCEPT !.code = j]
           IN  /\ GraphType(k) /\ Present(k) = Present(g) \union {n}
               /\ k.links = g.links /\ k.jurisdictions = g.jurisdictions
               /\ \A m \in Present(g) \ {n} : k.node[m] = g.node[m]
               /\ k.node[n] = [old EXCEPT !.scope = @ \union Known(g, j)]
<1> DEFINE f == [m \in {n} |-> [Fresh EXCEPT !.code = j]]
           c == Merge(g, f)
           k == Change(c, {n}, LAMBDA p : [p EXCEPT !.scope = @ \union Known(g, j)])
<1>1. MergeScoped(g, n, j) = k
  BY DEF MergeScoped
<1>2. f \in [{n} -> Properties] /\ {n} \in SUBSET Nodes /\ f[n] = [Fresh EXCEPT !.code = j]
  BY FreshType
<1> HIDE DEF f
<1>3. /\ GraphType(c) /\ Present(c) = Present(g) \union {n}
      /\ c.links = g.links /\ c.jurisdictions = g.jurisdictions
      /\ \A m \in Present(g) \union {n} : c.node[m] = IF m \in Present(g) THEN g.node[m] ELSE f[m]
  BY <1>2, MergeType
<1> HIDE DEF c
<1>4. Known(g, j) = Known(c, j)
  BY <1>3 DEF Known
<1> DEFINE o == WithScope(c, {n}, j)
<1>p. k = o
  BY <1>4 DEF WithScope, Change
<1> HIDE DEF k
<1>o. Same(c, o) /\ \A m \in Present(c) : o.node[m] =
        IF m \in {n} THEN [c.node[m] EXCEPT !.scope = @ \union Known(c, j)] ELSE c.node[m]
  BY <1>3, ScopedIs
<1> HIDE DEF o
<1>6. Same(c, k) /\ \A m \in Present(c) : k.node[m] =
        IF m \in {n} THEN [c.node[m] EXCEPT !.scope = @ \union Known(c, j)] ELSE c.node[m]
  BY <1>o, <1>p
<1>7. /\ GraphType(k) /\ Present(k) = Present(g) \union {n}
      /\ k.links = g.links /\ k.jurisdictions = g.jurisdictions
      /\ \A m \in Present(g) \ {n} : k.node[m] = g.node[m]
  BY <1>3, <1>6 DEF Same
<1>8. c.node[n] = IF n \in Present(g) THEN g.node[n] ELSE [Fresh EXCEPT !.code = j]
  BY <1>2, <1>3
<1>9. k.node[n] = [c.node[n] EXCEPT !.scope = @ \union Known(g, j)]
  BY <1>3, <1>4, <1>6
<1> QED
  BY <1>1, <1>7, <1>8, <1>9 DEF k

LEMMA CreateRuleIs ==
    ASSUME NEW g, GraphType(g)
    PROVE  LET k == CreateRule(g)
               old == IF Created \in Present(g) THEN g.node[Created]
                      ELSE [Fresh EXCEPT !.code = "null", !.type = FALSE]
           IN  /\ GraphType(k) /\ Present(k) = Present(g) \union {Created}
               /\ \A m \in Present(g) \ {Created} : k.node[m] = g.node[m]
               /\ k.node[Created] = [old EXCEPT !.sql = TRUE]
<1> DEFINE f == [n \in {Created} |-> [Fresh EXCEPT !.code = "null", !.type = FALSE]]
           c == Merge(g, f)
           k == Change(c, {Created}, LAMBDA p : [p EXCEPT !.sql = TRUE])
<1>1. CreateRule(g) = k
  BY DEF CreateRule
<1>2. /\ f \in [{Created} -> Properties] /\ {Created} \in SUBSET Nodes
      /\ f[Created] = [Fresh EXCEPT !.code = "null", !.type = FALSE]
  BY FreshType, NodesKinds, CanonAssumption
<1> HIDE DEF f
<1>3. /\ GraphType(c) /\ Present(c) = Present(g) \union {Created}
      /\ \A m \in Present(g) \union {Created} :
           c.node[m] = IF m \in Present(g) THEN g.node[m] ELSE f[m]
  BY <1>2, MergeType
<1> HIDE DEF c
<1>4. Same(c, k) /\ \A m \in Present(c) : k.node[m] =
        IF m \in {Created} THEN [c.node[m] EXCEPT !.sql = TRUE] ELSE c.node[m]
  BY <1>3, SqlIs
<1> HIDE DEF k
<1>5. /\ GraphType(k) /\ Present(k) = Present(g) \union {Created}
      /\ \A m \in Present(g) \ {Created} : k.node[m] = g.node[m]
  BY <1>3, <1>4 DEF Same
<1>6. /\ c.node[Created] = IF Created \in Present(g) THEN g.node[Created]
                           ELSE [Fresh EXCEPT !.code = "null", !.type = FALSE]
      /\ k.node[Created] = [c.node[Created] EXCEPT !.sql = TRUE]
  BY <1>2, <1>3, <1>4
<1> QED
  BY <1>1, <1>5, <1>6 DEF k

Retagged(g, p) ==
    [p EXCEPT !.code = "US-FL", !.scope = (@ \ {"US-TX"}) \union Known(g, "US-FL")]

LEMMA RetagIs ==
    ASSUME NEW g, GraphType(g), NEW N
    PROVE  LET k == ScopeFlorida(CodeFlorida(g, N), N)
           IN  /\ Same(g, k)
               /\ \A n \in Present(g) : k.node[n] =
                    IF n \in N
                    THEN Retagged(g, g.node[n]) ELSE g.node[n]
<1> DEFINE c == CodeFlorida(g, N)
           k == ScopeFlorida(c, N)
<1>1. Same(g, c) /\ \A n \in Present(g) : c.node[n] =
        IF n \in N THEN [g.node[n] EXCEPT !.code = "US-FL"] ELSE g.node[n]
  BY CodeFloridaIs
<1> HIDE DEF c
<1>2. GraphType(c) /\ Present(c) = Present(g) /\ Known(c, "US-FL") = Known(g, "US-FL")
  BY <1>1 DEF Same, Known
<1>3. Same(c, k) /\ \A n \in Present(c) : k.node[n] =
        IF n \in N THEN [c.node[n] EXCEPT !.scope = (@ \ {"US-TX"}) \union Known(c, "US-FL")]
        ELSE c.node[n]
  BY <1>2, ScopeFloridaIs
<1> HIDE DEF k
<1>4. Same(g, k)
  BY <1>1, <1>3 DEF Same
<1>5. ASSUME NEW n \in Present(g)
      PROVE  k.node[n] = IF n \in N
                         THEN Retagged(g, g.node[n]) ELSE g.node[n]
  <2>1. g.node[n] \in Properties
    BY DEF GraphType
  <2>2. /\ c.node[n] = IF n \in N THEN [g.node[n] EXCEPT !.code = "US-FL"] ELSE g.node[n]
        /\ k.node[n] = IF n \in N
                       THEN [c.node[n] EXCEPT !.scope = (@ \ {"US-TX"}) \union Known(g, "US-FL")]
                       ELSE c.node[n]
    BY <1>1, <1>2, <1>3
  <2> QED
    BY <2>1, <2>2 DEF Properties, Retagged
<1> QED
  BY <1>4, <1>5 DEF c, k

\* what a statement of a script other than a loader may be
LEMMA KindsIs ==
    ASSUME NEW s \in Intaking
    PROVE  \/ s.op \in {"wipe", "seed", "federal", "attach", "create_rule", "apply",
                        "backfill", "scope_rest", "rewire", "types", "citations",
                        "code_new", "scope_new", "attach_florida"}
           \/ s.op \in {"nodes", "links"} /\ s.arg \in Docs
           \/ s.op \in {"merge_tx", "merge_fl", "obligation"} /\ s.arg \in Infrastructure
           \/ s.op = "jurisdictions" /\ s.arg \in SUBSET Jurisdictions
           \/ s.op = "connect" /\ s.arg \in Links
           \/ s.op = "retag" /\ s.arg = Florida
           \/ s.op = "delete"
           \/ s.op \in {"list", "before", "after", "build_codes", "insert_missing"}
           \/ s.op = "build" /\ s.arg \in States
  BY DEF Intaking, Graphic

-----------------------------------------------------------------------------
(* Scopes.                                                                 *)

\* what holds of the properties p of node n, when nodes T have been stolen
Fit(n, p, T) ==
    /\ p.federal => n \in Federal
    /\ n \notin Infrastructure \union T =>
         /\ \A i, j \in p.scope : i = j
         /\ "US" \in p.scope => n \in Federal

Scoped(g, T) == \A n \in Present(g) : Fit(n, g.node[n], T)

Good(g, T) == GraphType(g) /\ Scoped(g, T)

LEMMA FreshFits ==
    ASSUME NEW n, NEW T
    PROVE  /\ Fit(n, Fresh, T)
           /\ \A b : Fit(n, [Fresh EXCEPT !.cites = b], T)
           /\ \A j : Fit(n, [Fresh EXCEPT !.code = j], T)
           /\ Fit(n, [Fresh EXCEPT !.code = "null", !.type = FALSE], T)
           /\ Fit(n, Legacy, T)
  BY DEF Fit, Fresh, Legacy

LEMMA MergeGood ==
    ASSUME NEW T, NEW g, Good(g, T), NEW N \in SUBSET Nodes, NEW f \in [N -> Properties],
           \A n \in N : Fit(n, f[n], T)
    PROVE  Good(Merge(g, f), T)
<1>1. /\ GraphType(Merge(g, f)) /\ Present(Merge(g, f)) = Present(g) \union N
      /\ \A n \in Present(g) \union N :
           Merge(g, f).node[n] = IF n \in Present(g) THEN g.node[n] ELSE f[n]
  BY MergeType DEF Good
<1> QED
  BY <1>1 DEF Good, Scoped

LEMMA ConnectGood ==
    ASSUME NEW T, NEW g, Good(g, T), NEW L \in SUBSET Links
    PROVE  Good(Connect(g, L), T)
<1>1. GraphType(Connect(g, L)) /\ Connect(g, L).node = g.node
  BY ConnectType DEF Good
<1> QED
  BY <1>1 DEF Good, Scoped, Present

LEMMA SeedGood ==
    ASSUME NEW T, NEW g, Good(g, T), NEW N
    PROVE  Good(SeedNodes(g, N), T)
<1> DEFINE f == [n \in Seeded \intersect N |-> [Fresh EXCEPT !.cites = n \in SeedCites]]
<1>1. GraphType(SeedNodes(g, N)) /\ SeedNodes(g, N).node = Merge(g, f).node
  BY SeedIs DEF Good
<1>2. Seeded \intersect N \in SUBSET Nodes /\ f \in [Seeded \intersect N -> Properties]
  BY CitedType, CanonAssumption
<1>3. \A n \in Seeded \intersect N : Fit(n, f[n], T)
  BY FreshFits
<1> HIDE DEF f
<1>4. Good(Merge(g, f), T)
  BY <1>2, <1>3, MergeGood
<1> QED
  BY <1>1, <1>4 DEF Good, Scoped, Present

LEMMA ReplayNodesGood ==
    ASSUME NEW T, NEW g, Good(g, T), NEW d \in Docs
    PROVE  Good(Materialize(g, d), T)
<1>1. DocNodes[d] \in SUBSET Nodes /\ Proposals(d) \in [DocNodes[d] -> Properties]
  BY ProposalsType
<1>2. \A n \in DocNodes[d] : Fit(n, Proposals(d)[n], T)
  BY FreshFits DEF Proposals
<1>3. Good(Merge(g, Proposals(d)), T)
  BY <1>1, <1>2, MergeGood
<1>4. Materialize(g, d) = Merge(g, Proposals(d))
  BY ReplayNodesIs DEF Good
<1> QED
  BY <1>3, <1>4

\* a change of properties that keep scope and federal, or make them fit
LEMMA SameGood ==
    ASSUME NEW T, NEW g, Good(g, T), NEW k, GraphType(k), Present(k) = Present(g),
           \A n \in Present(g) : Fit(n, g.node[n], T) => Fit(n, k.node[n], T)
    PROVE  Good(k, T)
  BY DEF Good, Scoped

\* p and q agree on all that scopes depend on
Alike(p, q) == q.scope = p.scope /\ q.federal = p.federal

LEMMA AlikeGood ==
    ASSUME NEW T, NEW g, Good(g, T), NEW k, GraphType(k), Present(k) = Present(g),
           \A n \in Present(g) : Alike(g.node[n], k.node[n])
    PROVE  Good(k, T)
<1>1. \A n \in Present(g) : Fit(n, g.node[n], T) => Fit(n, k.node[n], T)
  BY DEF Alike, Fit
<1> QED
  BY <1>1, SameGood

LEMMA NodeType == \A g : GraphType(g) => \A n \in Present(g) : g.node[n] \in Properties
  BY DEF GraphType

LEMMA PlainGood ==
    ASSUME NEW T, NEW g, Good(g, T)
    PROVE  /\ \A d \in Docs : Good(MaterializeLinks(g, d), T)
           /\ Good(ApplyBulletins(g), T) /\ Good(Backfill(g), T)
           /\ \A N : Good(CodeFlorida(g, N), T) /\ Good(Attach(g, N), T)
           /\ Good(Change(g, Present(g), LAMBDA p : [p EXCEPT !.type = TRUE]), T)
           /\ \A N : Good(Change(g, N, LAMBDA p : [p EXCEPT !.cites = TRUE]), T)
<1>0. GraphType(g) /\ \A n \in Present(g) : g.node[n] \in Properties
  BY NodeType DEF Good
<1>1. ASSUME NEW d \in Docs
      PROVE  Good(MaterializeLinks(g, d), T)
  <2>1. /\ GraphType(MaterializeLinks(g, d)) /\ Present(MaterializeLinks(g, d)) = Present(g)
        /\ \A n \in Present(g) : MaterializeLinks(g, d).node[n] =
             IF n \in DocCites[d] THEN [g.node[n] EXCEPT !.cites = TRUE] ELSE g.node[n]
    BY <1>0, ReplayLinksIs
  <2>2. \A n \in Present(g) : Alike(g.node[n], MaterializeLinks(g, d).node[n])
    BY <1>0, <2>1 DEF Alike, Properties
  <2> QED
    BY <2>1, <2>2, AlikeGood
<1>2. Good(ApplyBulletins(g), T)
  <2>1. /\ Same(g, ApplyBulletins(g))
        /\ \A n \in Present(g) : ApplyBulletins(g).node[n] =
             IF n \in Overridden(g) THEN [g.node[n] EXCEPT !.superseded = TRUE] ELSE g.node[n]
    BY <1>0, ApplyIs
  <2>2. \A n \in Present(g) : Alike(g.node[n], ApplyBulletins(g).node[n])
    BY <1>0, <2>1 DEF Alike, Properties
  <2> QED
    BY <2>1, <2>2, AlikeGood DEF Same
<1>3. Good(Backfill(g), T)
  <2>1. /\ Same(g, Backfill(g))
        /\ \A n \in Present(g) : Backfill(g).node[n] =
             IF g.node[n].code = "null" THEN [g.node[n] EXCEPT !.code = "US-TX"] ELSE g.node[n]
    BY <1>0, BackfillIs
  <2>2. \A n \in Present(g) : Alike(g.node[n], Backfill(g).node[n])
    BY <1>0, <2>1 DEF Alike, Properties
  <2> QED
    BY <2>1, <2>2, AlikeGood DEF Same
<1>4. ASSUME NEW N
      PROVE  Good(CodeFlorida(g, N), T)
  <2>1. /\ Same(g, CodeFlorida(g, N))
        /\ \A n \in Present(g) : CodeFlorida(g, N).node[n] =
             IF n \in N THEN [g.node[n] EXCEPT !.code = "US-FL"] ELSE g.node[n]
    BY <1>0, CodeFloridaIs
  <2>2. \A n \in Present(g) : Alike(g.node[n], CodeFlorida(g, N).node[n])
    BY <1>0, <2>1 DEF Alike, Properties
  <2> QED
    BY <2>1, <2>2, AlikeGood DEF Same
<1>5. ASSUME NEW N
      PROVE  Good(Attach(g, N), T)
  <2>1. /\ Same(g, Attach(g, N))
        /\ \A n \in Present(g) : Attach(g, N).node[n] =
             IF n \in N THEN Attached(g.node[n]) ELSE g.node[n]
    BY <1>0, AttachIs
  <2>2. \A n \in Present(g) : Alike(g.node[n], Attach(g, N).node[n])
    BY <1>0, <2>1, ZenonT(60) DEF Alike, Properties, Attached
  <2> QED
    BY <2>1, <2>2, AlikeGood DEF Same
<1>6. Good(Change(g, Present(g), LAMBDA p : [p EXCEPT !.type = TRUE]), T)
  <2> DEFINE k == Change(g, Present(g), LAMBDA p : [p EXCEPT !.type = TRUE])
  <2>1. Same(g, k) /\ \A n \in Present(g) : k.node[n] = [g.node[n] EXCEPT !.type = TRUE]
    BY <1>0, TypeIs
  <2> HIDE DEF k
  <2>2. \A n \in Present(g) : Alike(g.node[n], k.node[n])
    BY <1>0, <2>1 DEF Alike, Properties
  <2>3. Good(k, T)
    BY <2>1, <2>2, AlikeGood DEF Same
  <2> QED
    BY <2>3 DEF k
<1>7. ASSUME NEW N
      PROVE  Good(Change(g, N, LAMBDA p : [p EXCEPT !.cites = TRUE]), T)
  <2> DEFINE k == Change(g, N, LAMBDA p : [p EXCEPT !.cites = TRUE])
  <2>1. Same(g, k) /\ \A n \in Present(g) : k.node[n] =
          IF n \in N THEN [g.node[n] EXCEPT !.cites = TRUE] ELSE g.node[n]
    BY <1>0, CiteIs
  <2> HIDE DEF k
  <2>2. \A n \in Present(g) : Alike(g.node[n], k.node[n])
    BY <1>0, <2>1 DEF Alike, Properties
  <2>3. Good(k, T)
    BY <2>1, <2>2, AlikeGood DEF Same
  <2> QED
    BY <2>3 DEF k
<1> QED
  BY <1>1, <1>2, <1>3, <1>4, <1>5, <1>6, <1>7

\* What each statement makes of a good graph is good.
LEMMA RestGood ==
    ASSUME NEW T, NEW g, Good(g, T)
    PROVE  Good(ScopeRest(g), T)
<1>1. /\ GraphType(ScopeRest(g)) /\ Present(ScopeRest(g)) = Present(g)
      /\ \A n \in Present(g) : ScopeRest(g).node[n] =
           IF g.node[n].scope = {} THEN [g.node[n] EXCEPT !.scope = Known(g, "US-TX")]
           ELSE g.node[n]
  BY RestIs DEF Good, Same
<1>2. ASSUME NEW n \in Present(g), Fit(n, g.node[n], T)
      PROVE  Fit(n, ScopeRest(g).node[n], T)
  <2>1. g.node[n] \in Properties
    BY NodeType DEF Good
  <2>2. Known(g, "US-TX") \subseteq {"US-TX"}
    BY DEF Known
  <2> DEFINE p == g.node[n]
             K == Known(g, "US-TX")
             q == [p EXCEPT !.scope = K]
  <2>3. CASE p.scope = {}
    <3>1. q.scope = K /\ q.federal = p.federal
      BY <2>1 DEF Properties
    <3>2. ScopeRest(g).node[n] = q
      BY <1>1, <2>3
    <3> HIDE DEF q, K
    <3>3. Fit(n, q, T)
      BY <1>2, <2>2, <3>1 DEF Fit, K
    <3> QED
      BY <3>2, <3>3
  <2> QED
    BY <1>1, <1>2, <2>3
<1> QED
  BY <1>1, <1>2, SameGood

LEMMA FederalGood ==
    ASSUME NEW T, NEW g, Good(g, T), NEW N
    PROVE  Good(TagFederal(g, N), T)
<1>1. /\ GraphType(TagFederal(g, N)) /\ Present(TagFederal(g, N)) = Present(g)
      /\ \A n \in Present(g) : TagFederal(g, N).node[n] =
           IF n \in Federal \intersect N THEN Tagged(g.node[n]) ELSE g.node[n]
  BY FederalIs DEF Good, Same
<1>2. ASSUME NEW n \in Present(g), Fit(n, g.node[n], T)
      PROVE  Fit(n, TagFederal(g, N).node[n], T)
  <2>1. g.node[n] \in Properties
    BY NodeType DEF Good
  <2> QED
    BY <1>1, <1>2, <2>1 DEF Fit, Properties, Tagged
<1> QED
  BY <1>1, <1>2, SameGood

LEMMA RewireGood ==
    ASSUME NEW T, NEW g, Good(g, T)
    PROVE  Good(Rewire(g), T)
<1>1. /\ GraphType(Rewire(g)) /\ Present(Rewire(g)) = Present(g)
      /\ \A n \in Present(g) : Rewire(g).node[n] =
           IF g.node[n].federal /\ "US-TX" \in g.node[n].scope /\ "US" \in g.jurisdictions
           THEN [g.node[n] EXCEPT !.scope = Rewired(g, g.node[n])]
           ELSE g.node[n]
  BY RewireIs DEF Good, Same
<1>2. ASSUME NEW n \in Present(g), Fit(n, g.node[n], T)
      PROVE  Fit(n, Rewire(g).node[n], T)
  <2>1. g.node[n] \in Properties
    BY NodeType DEF Good
  <2> DEFINE p == g.node[n]
             q == [p EXCEPT !.scope = Rewired(g, p)]
  <2>2. q.scope = (p.scope \ {"US-TX"}) \union {"US"} /\ q.federal = p.federal
    BY <2>1 DEF Properties, Rewired
  <2>3. CASE p.federal /\ "US-TX" \in p.scope /\ "US" \in g.jurisdictions
    <3>1. Rewire(g).node[n] = q
      BY <1>1, <2>3
    <3> HIDE DEF q
    <3>2. Fit(n, q, T)
      BY <1>2, <2>2, <2>3 DEF Fit
    <3> QED
      BY <3>1, <3>2
  <2> QED
    BY <1>1, <1>2, <2>3
<1> QED
  BY <1>1, <1>2, SameGood

\* Who is not stolen and named by a document of Florida is no federal default.
LEMMA FloridaFit ==
    ASSUME NEW T, NEW n, n \in Florida \union T, NEW p \in Properties, Fit(n, p, T), NEW q,
           NEW K, K \subseteq {"US-FL"}, q.scope = (p.scope \ {"US-TX"}) \union K,
           q.federal = p.federal
    PROVE  Fit(n, q, T)
<1>1. n \notin T => n \notin Federal
  BY FederalAssumption
<1>2. n \notin Infrastructure \union T => q.scope \subseteq {"US-FL"}
  <2>1. p.scope \subseteq {"US", "US-TX", "US-FL"}
    BY DEF Properties, Jurisdictions, States
  <2> QED
    BY <1>1, <2>1 DEF Fit
<1> QED
  BY <1>1, <1>2 DEF Fit

LEMMA RetagGood ==
    ASSUME NEW T, NEW g, Good(g, T), NEW N, N \subseteq Florida \union T
    PROVE  /\ Good(ScopeFlorida(CodeFlorida(g, N), N), T)
           /\ Good(ScopeFlorida(g, N), T)
<1>1. ASSUME NEW k, Good(k, T)
      PROVE  Good(ScopeFlorida(k, N), T)
  <2>1. /\ GraphType(ScopeFlorida(k, N)) /\ Present(ScopeFlorida(k, N)) = Present(k)
        /\ \A n \in Present(k) : ScopeFlorida(k, N).node[n] =
             IF n \in N
             THEN [k.node[n] EXCEPT !.scope = (@ \ {"US-TX"}) \union Known(k, "US-FL")]
             ELSE k.node[n]
    BY <1>1, ScopeFloridaIs DEF Good, Same
  <2>2. ASSUME NEW n \in Present(k), Fit(n, k.node[n], T)
        PROVE  Fit(n, ScopeFlorida(k, N).node[n], T)
    <3>1. k.node[n] \in Properties
      BY <1>1, NodeType DEF Good
    <3>2. CASE n \in N
      <4> DEFINE p == k.node[n]
                 q == [p EXCEPT !.scope = (@ \ {"US-TX"}) \union Known(k, "US-FL")]
                 K == Known(k, "US-FL")
      <4>1. K \subseteq {"US-FL"} /\ n \in Florida \union T
        BY <3>2 DEF Known
      <4>2. q.scope = (p.scope \ {"US-TX"}) \union K /\ q.federal = p.federal
        BY <3>1 DEF Properties
      <4>3. ScopeFlorida(k, N).node[n] = q
        BY <2>1, <3>2
      <4> HIDE DEF q, K
      <4>4. Fit(n, q, T)
        BY <2>2, <3>1, <4>1, <4>2, FloridaFit
      <4> QED
        BY <4>3, <4>4
    <3>3. CASE n \notin N
      BY <2>1, <2>2, <3>3
    <3> QED
      BY <3>2, <3>3
  <2> QED
    BY <1>1, <2>1, <2>2, SameGood
<1>2. Good(CodeFlorida(g, N), T)
  BY PlainGood
<1> QED
  BY <1>1, <1>2

LEMMA MergeScopedGood ==
    ASSUME NEW T, NEW g, Good(g, T), NEW n \in Infrastructure, NEW j \in States
    PROVE  Good(MergeScoped(g, n, j), T)
<1> DEFINE k == MergeScoped(g, n, j)
           old == IF n \in Present(g) THEN g.node[n] ELSE [Fresh EXCEPT !.code = j]
<1>1. /\ GraphType(k) /\ Present(k) = Present(g) \union {n}
      /\ \A m \in Present(g) \ {n} : k.node[m] = g.node[m]
      /\ k.node[n] = [old EXCEPT !.scope = @ \union Known(g, j)]
  BY MergeScopedIs, NodesKinds DEF Good, Jurisdictions
<1> HIDE DEF k
<1>2. old \in Properties /\ Fit(n, old, T)
  BY NodeType, FreshType, FreshFits DEF Good, Scoped, Jurisdictions
<1> HIDE DEF old
<1>3. Fit(n, k.node[n], T)
  BY <1>1, <1>2 DEF Fit, Properties
<1>4. \A m \in Present(k) : Fit(m, k.node[m], T)
  BY <1>1, <1>3 DEF Good, Scoped
<1> QED
  BY <1>1, <1>4 DEF Good, Scoped, k

LEMMA CreateRuleGood ==
    ASSUME NEW T, NEW g, Good(g, T)
    PROVE  Good(CreateRule(g), T)
<1> DEFINE k == CreateRule(g)
           old == IF Created \in Present(g) THEN g.node[Created]
                  ELSE [Fresh EXCEPT !.code = "null", !.type = FALSE]
<1>1. /\ GraphType(k) /\ Present(k) = Present(g) \union {Created}
      /\ \A m \in Present(g) \ {Created} : k.node[m] = g.node[m]
      /\ k.node[Created] = [old EXCEPT !.sql = TRUE]
  BY CreateRuleIs DEF Good
<1> HIDE DEF k
<1>2. old \in Properties /\ Fit(Created, old, T)
  BY NodeType, FreshType, FreshFits DEF Good, Scoped
<1> HIDE DEF old
<1>3. Fit(Created, k.node[Created], T)
  BY <1>1, <1>2 DEF Fit, Properties
<1>4. \A m \in Present(k) : Fit(m, k.node[m], T)
  BY <1>1, <1>3 DEF Good, Scoped
<1> QED
  BY <1>1, <1>4 DEF Good, Scoped, k

LEMMA ShapeGood ==
    ASSUME NEW T, NEW g, Good(g, T)
    PROVE  /\ Good(Empty, T)
           /\ \A N : Good(DetachDelete(g, N), T)
           /\ \A J \in SUBSET Jurisdictions : Good([g EXCEPT !.jurisdictions = @ \union J], T)
           /\ \A n \in Infrastructure : Good(Merge(g, [m \in {n} |-> Fresh]), T)
<1>1. Good(Empty, T)
  BY EmptyType DEF Good, Scoped, Present, Empty
<1>2. ASSUME NEW N
      PROVE  Good(DetachDelete(g, N), T)
  <2>1. /\ GraphType(DetachDelete(g, N)) /\ Present(DetachDelete(g, N)) = Present(g) \ N
        /\ \A n \in Present(g) \ N : DetachDelete(g, N).node[n] = g.node[n]
    BY DeleteType DEF Good
  <2> QED
    BY <2>1 DEF Good, Scoped
<1>3. ASSUME NEW J \in SUBSET Jurisdictions
      PROVE  Good([g EXCEPT !.jurisdictions = @ \union J], T)
  <2> DEFINE k == [g EXCEPT !.jurisdictions = @ \union J]
  <2>1. GraphType(k) /\ k.node = g.node
    BY JurisdictionsType DEF Good
  <2> HIDE DEF k
  <2>2. Good(k, T)
    BY <2>1 DEF Good, Scoped, Present
  <2> QED
    BY <2>2 DEF k
<1>4. ASSUME NEW n \in Infrastructure
      PROVE  Good(Merge(g, [m \in {n} |-> Fresh]), T)
  <2> DEFINE f == [m \in {n} |-> Fresh]
  <2>1. {n} \in SUBSET Nodes /\ f \in [{n} -> Properties] /\ \A m \in {n} : Fit(m, f[m], T)
    BY FreshType, FreshFits, NodesKinds
  <2> HIDE DEF f
  <2>2. Good(Merge(g, f), T)
    BY <2>1, MergeGood
  <2> QED
    BY <2>2 DEF f
<1> QED
  BY <1>1, <1>2, <1>3, <1>4

LEMMA OnGraphGood ==
    ASSUME NEW T, NEW g, Good(g, T), NEW s \in Intaking, NEW N,
           s.op = "scope_new" => N \subseteq Florida \union T
    PROVE  Good(OnGraph(s, g, N), T)
<1>1. CASE s.op = "wipe"
  <2>1. OnGraph(s, g, N) = Empty
    BY <1>1 DEF OnGraph
  <2>2. Good(Empty, T)
    BY <1>1, ShapeGood
  <2> QED
    BY <2>1, <2>2
<1>2. CASE s.op = "seed"
  <2>1. OnGraph(s, g, N) = SeedNodes(g, s.arg)
    BY <1>2 DEF OnGraph
  <2>2. Good(SeedNodes(g, s.arg), T)
    BY <1>2, SeedGood
  <2> QED
    BY <2>1, <2>2
<1>3. CASE s.op = "federal"
  <2>1. OnGraph(s, g, N) = TagFederal(g, s.arg)
    BY <1>3 DEF OnGraph
  <2>2. Good(TagFederal(g, s.arg), T)
    BY <1>3, FederalGood
  <2> QED
    BY <2>1, <2>2
<1>4. CASE s.op = "attach"
  <2>1. OnGraph(s, g, N) = Attach(g, {s.arg})
    BY <1>4 DEF OnGraph
  <2>2. Good(Attach(g, {s.arg}), T)
    BY <1>4, PlainGood
  <2> QED
    BY <2>1, <2>2
<1>5. CASE s.op = "create_rule"
  <2>1. OnGraph(s, g, N) = CreateRule(g)
    BY <1>5 DEF OnGraph
  <2>2. Good(CreateRule(g), T)
    BY <1>5, CreateRuleGood
  <2> QED
    BY <2>1, <2>2
<1>6. CASE s.op = "apply"
  <2>1. OnGraph(s, g, N) = ApplyBulletins(g)
    BY <1>6 DEF OnGraph
  <2>2. Good(ApplyBulletins(g), T)
    BY <1>6, PlainGood
  <2> QED
    BY <2>1, <2>2
<1>7. CASE s.op = "backfill"
  <2>1. OnGraph(s, g, N) = Backfill(g)
    BY <1>7 DEF OnGraph
  <2>2. Good(Backfill(g), T)
    BY <1>7, PlainGood
  <2> QED
    BY <2>1, <2>2
<1>8. CASE s.op = "scope_rest"
  <2>1. OnGraph(s, g, N) = ScopeRest(g)
    BY <1>8 DEF OnGraph
  <2>2. Good(ScopeRest(g), T)
    BY <1>8, RestGood
  <2> QED
    BY <2>1, <2>2
<1>9. CASE s.op = "rewire"
  <2>1. OnGraph(s, g, N) = Rewire(g)
    BY <1>9 DEF OnGraph
  <2>2. Good(Rewire(g), T)
    BY <1>9, RewireGood
  <2> QED
    BY <2>1, <2>2
<1>10. CASE s.op = "types"
  <2>1. OnGraph(s, g, N) = Change(g, Present(g), LAMBDA p : [p EXCEPT !.type = TRUE])
    BY <1>10 DEF OnGraph
  <2>2. Good(Change(g, Present(g), LAMBDA p : [p EXCEPT !.type = TRUE]), T)
    BY <1>10, PlainGood
  <2> QED
    BY <2>1, <2>2
<1>11. CASE s.op = "citations"
  <2>1. OnGraph(s, g, N) = Change(g, Uncited(g), LAMBDA p : [p EXCEPT !.cites = TRUE])
    BY <1>11 DEF OnGraph
  <2>2. Good(Change(g, Uncited(g), LAMBDA p : [p EXCEPT !.cites = TRUE]), T)
    BY <1>11, PlainGood
  <2> QED
    BY <2>1, <2>2
<1>12. CASE s.op = "code_new"
  <2>1. OnGraph(s, g, N) = CodeFlorida(g, N \ {"TDI", "FL-OIR"})
    BY <1>12 DEF OnGraph
  <2>2. Good(CodeFlorida(g, N \ {"TDI", "FL-OIR"}), T)
    BY <1>12, PlainGood
  <2> QED
    BY <2>1, <2>2
<1>13. CASE s.op = "scope_new"
  <2>1. OnGraph(s, g, N) = ScopeFlorida(g, N)
    BY <1>13 DEF OnGraph
  <2>2. Good(ScopeFlorida(g, N), T)
    BY <1>13, RetagGood
  <2> QED
    BY <2>1, <2>2
<1>14. CASE s.op = "attach_florida"
  <2>1. OnGraph(s, g, N) = Attach(g, FloridaRules(g))
    BY <1>14 DEF OnGraph
  <2>2. Good(Attach(g, FloridaRules(g)), T)
    BY <1>14, PlainGood
  <2> QED
    BY <2>1, <2>2
<1>15. CASE s.op = "nodes" /\ s.arg \in Docs
  <2>1. OnGraph(s, g, N) = Materialize(g, s.arg)
    BY <1>15 DEF OnGraph
  <2>2. Good(Materialize(g, s.arg), T)
    BY <1>15, ReplayNodesGood
  <2> QED
    BY <2>1, <2>2
<1>16. CASE s.op = "links" /\ s.arg \in Docs
  <2>1. OnGraph(s, g, N) = MaterializeLinks(g, s.arg)
    BY <1>16 DEF OnGraph
  <2>2. Good(MaterializeLinks(g, s.arg), T)
    BY <1>16, PlainGood
  <2> QED
    BY <2>1, <2>2
<1>17. CASE s.op = "merge_tx" /\ s.arg \in Infrastructure
  <2>1. OnGraph(s, g, N) = MergeScoped(g, s.arg, "US-TX")
    BY <1>17 DEF OnGraph
  <2>2. Good(MergeScoped(g, s.arg, "US-TX"), T)
    BY <1>17, MergeScopedGood DEF States
  <2> QED
    BY <2>1, <2>2
<1>18. CASE s.op = "merge_fl" /\ s.arg \in Infrastructure
  <2>1. OnGraph(s, g, N) = MergeScoped(g, s.arg, "US-FL")
    BY <1>18 DEF OnGraph
  <2>2. Good(MergeScoped(g, s.arg, "US-FL"), T)
    BY <1>18, MergeScopedGood DEF States
  <2> QED
    BY <2>1, <2>2
<1>19. CASE s.op = "obligation" /\ s.arg \in Infrastructure
  <2>1. OnGraph(s, g, N) = Merge(g, [m \in {s.arg} |-> Fresh])
    BY <1>19 DEF OnGraph
  <2>2. Good(Merge(g, [m \in {s.arg} |-> Fresh]), T)
    BY <1>19, ShapeGood
  <2> QED
    BY <2>1, <2>2
<1>20. CASE s.op = "jurisdictions" /\ s.arg \in SUBSET Jurisdictions
  <2>1. OnGraph(s, g, N) = [g EXCEPT !.jurisdictions = @ \union s.arg]
    BY <1>20 DEF OnGraph
  <2>2. Good([g EXCEPT !.jurisdictions = @ \union s.arg], T)
    BY <1>20, ShapeGood
  <2> QED
    BY <2>1, <2>2
<1>21. CASE s.op = "connect" /\ s.arg \in Links
  <2>1. OnGraph(s, g, N) = Connect(g, {s.arg})
    BY <1>21 DEF OnGraph
  <2>2. Good(Connect(g, {s.arg}), T)
    BY <1>21, ConnectGood
  <2> QED
    BY <2>1, <2>2
<1>22. CASE s.op = "retag" /\ s.arg = Florida
  <2>1. OnGraph(s, g, N) = ScopeFlorida(CodeFlorida(g, s.arg), s.arg)
    BY <1>22 DEF OnGraph
  <2>2. Good(ScopeFlorida(CodeFlorida(g, s.arg), s.arg), T)
    BY <1>22, RetagGood
  <2> QED
    BY <2>1, <2>2
<1>23. CASE s.op = "delete"
  <2>1. OnGraph(s, g, N) = DetachDelete(g, Unlisted(g, s.arg))
    BY <1>23 DEF OnGraph
  <2>2. Good(DetachDelete(g, Unlisted(g, s.arg)), T)
    BY <1>23, ShapeGood
  <2> QED
    BY <2>1, <2>2
<1>24. CASE s.op \in {"list", "before", "after", "build", "build_codes", "insert_missing"}
  BY <1>24 DEF OnGraph
<1> QED
  BY <1>1, <1>2, <1>3, <1>4, <1>5, <1>6, <1>7, <1>8, <1>9, <1>10, <1>11, <1>12, <1>13, <1>14,
     <1>15, <1>16, <1>17, <1>18, <1>19, <1>20, <1>21, <1>22, <1>23, <1>24,
     KindsIs

-----------------------------------------------------------------------------
(* Types: what the statements do to the files, the tables and the notes.   *)

FilesType(f) ==
    /\ DOMAIN f = States \union {"codes"}
    /\ \A j \in States : f[j] \subseteq Rows
    /\ f["codes"] \subseteq Values

BagOf(b, S) == IsABag(b) /\ DOMAIN b \subseteq S

TablesType(t) ==
    /\ DOMAIN t = {"rules", "codes"}
    /\ BagOf(t.rules, Rows) /\ BagOf(t.codes, Values)

\* what rows a file has
RowsOf(f) == IF f = "codes" THEN Values ELSE Rows

LEMMA FetchType ==
    ASSUME NEW g, GraphType(g)
    PROVE  /\ \A j \in States : fetch_rules(g, j) \subseteq Rows
           /\ fetch_codes(g) \subseteq Values
<1>1. Present(g) \subseteq Nodes
  BY DEF GraphType
<1>2. ASSUME NEW j \in States
      PROVE  fetch_rules(g, j) \subseteq Rows
  <2>1. fetch_rules(g, j) \subseteq (Present(g) \intersect Rules) \X {"US", j}
    BY DEF fetch_rules
  <2>2. {"US", j} \subseteq Jurisdictions
    BY DEF Jurisdictions
  <2> QED
    BY <1>1, <2>1, <2>2 DEF Rows
<1>3. fetch_codes(g) \subseteq Values
  BY DEF fetch_codes
<1> QED
  BY <1>2, <1>3

LEMMA FilesKeep ==
    ASSUME NEW g, GraphType(g), NEW f, FilesType(f), NEW s,
           s.op = "build" => s.arg \in States, s.op = "build_codes" => s.arg = "codes"
    PROVE  FilesType(OnFiles(s, g, f))
<1>0. "codes" \notin States
  BY DEF States
<1>1. CASE s.op = "build" /\ fetch_rules(g, s.arg) # {}
  <2>1. OnFiles(s, g, f) = [f EXCEPT ![s.arg] = fetch_rules(g, s.arg)]
    BY <1>1 DEF OnFiles
  <2>2. fetch_rules(g, s.arg) \subseteq Rows
    BY <1>1, FetchType
  <2> QED
    BY <1>0, <1>1, <2>1, <2>2 DEF FilesType
<1>2. CASE s.op = "build_codes"
  <2>1. OnFiles(s, g, f) = [f EXCEPT !["codes"] = fetch_codes(g)]
    BY <1>2 DEF OnFiles
  <2>2. fetch_codes(g) \subseteq Values
    BY FetchType
  <2> QED
    BY <1>0, <2>1, <2>2 DEF FilesType
<1>3. CASE ~(s.op = "build" /\ fetch_rules(g, s.arg) # {}) /\ s.op # "build_codes"
  BY <1>3 DEF OnFiles
<1> QED
  BY <1>1, <1>2, <1>3

LEMMA BagPlus ==
    ASSUME NEW S, NEW b, BagOf(b, S), NEW N, N \subseteq S
    PROVE  BagOf(b (+) SetToBag(N), S) /\ BagOf(EmptyBag, S)
<1>1. /\ SetToBag(N) = [e \in N |-> 1]
      /\ EmptyBag = [e \in {} |-> 1]
  BY DEF SetToBag, EmptyBag
<1>2. b (+) SetToBag(N) =
        [e \in DOMAIN b \union N |-> (IF e \in DOMAIN b THEN b[e] ELSE 0)
                                     + (IF e \in N THEN 1 ELSE 0)]
  BY <1>1 DEF (+)
<1>3. b \in [DOMAIN b -> {n \in Nat : n > 0}]
  BY DEF BagOf, IsABag
<1> QED
  BY <1>1, <1>2, <1>3 DEF BagOf, IsABag

LEMMA TablesKeep ==
    ASSUME NEW t, TablesType(t), NEW s, NEW N,
           s.op \in {"replace", "insert"} => s.arg \in States \union {"codes"},
           s.op = "insert" => N \subseteq RowsOf(s.arg)
    PROVE  TablesType(OnTables(s, t, N))
<1> DEFINE x == TableOf(s.arg)
<1>1. CASE s.op = "replace"
  <2>1. OnTables(s, t, N) = [t EXCEPT ![x] = EmptyBag]
    BY <1>1 DEF OnTables
  <2>2. BagOf(EmptyBag, Rows) /\ BagOf(EmptyBag, Values)
    BY BagPlus DEF TablesType
  <2>3. x \in {"rules", "codes"}
    BY DEF TableOf
  <2> HIDE DEF x
  <2> QED
    BY <2>1, <2>2, <2>3 DEF TablesType
<1>2. CASE s.op = "insert"
  <2>1. OnTables(s, t, N) = [t EXCEPT ![x] = @ (+) SetToBag(N)]
    BY <1>2 DEF OnTables
  <2>2. CASE s.arg = "codes"
    <3>1. x = "codes" /\ N \subseteq Values
      BY <1>2, <2>2 DEF TableOf, RowsOf
    <3>2. BagOf(t.codes (+) SetToBag(N), Values)
      BY <3>1, BagPlus DEF TablesType
    <3> HIDE DEF x
    <3> QED
      BY <2>1, <3>1, <3>2 DEF TablesType
  <2>3. CASE s.arg # "codes"
    <3>1. x = "rules" /\ N \subseteq Rows
      BY <1>2, <2>3 DEF TableOf, RowsOf
    <3>2. BagOf(t.rules (+) SetToBag(N), Rows)
      BY <3>1, BagPlus DEF TablesType
    <3> HIDE DEF x
    <3> QED
      BY <2>1, <3>1, <3>2 DEF TablesType
  <2> QED
    BY <2>2, <2>3
<1>3. CASE s.op = "insert_missing"
  <2>1. OnTables(s, t, N) = [t EXCEPT !.rules = InsertMissing(t.rules)]
    BY <1>3 DEF OnTables
  <2> DEFINE M == {<<n, "US-TX">> : n \in Curated \ {row[1] : row \in DOMAIN t.rules}}
  <2>2. InsertMissing(t.rules) = t.rules (+) SetToBag(M)
    BY DEF InsertMissing
  <2>3. M \subseteq Rows
    BY DEF Rows, Jurisdictions, States
  <2> HIDE DEF M
  <2>4. BagOf(InsertMissing(t.rules), Rows)
    BY <2>2, <2>3, BagPlus DEF TablesType
  <2> QED
    BY <2>1, <2>4 DEF TablesType
<1>4. CASE s.op \notin {"replace", "insert", "insert_missing"}
  BY <1>4 DEF OnTables
<1> QED
  BY <1>1, <1>2, <1>3, <1>4

LEMMA UnwantedType == \A g : GraphType(g) => Unwanted(g) \subseteq Nodes
  BY DEF GraphType, Unwanted, PhantomLayouts, OrphanFields, OrphanLists, OrphanValues

LEMMA NotesKeep ==
    ASSUME NEW c, GraphType(c.graph), FilesType(c.files), NEW s
    PROVE  /\ s \in Intaking /\ c.noted \subseteq Nodes => OnNotes(s, c) \subseteq Nodes
           /\ \A f \in States \union {"codes"} :
                s \in Loading(f) /\ c.noted \subseteq RowsOf(f) => OnNotes(s, c) \subseteq RowsOf(f)
<1>1. Present(c.graph) \subseteq Nodes /\ Unwanted(c.graph) \subseteq Nodes
  BY UnwantedType DEF GraphType
<1>2. ASSUME s \in Intaking, c.noted \subseteq Nodes
      PROVE  OnNotes(s, c) \subseteq Nodes
  <2>1. s.op # "read"
    BY <1>2, KindsIs
  <2> QED
    BY <1>1, <1>2, <2>1, NodesKinds DEF OnNotes
<1>3. ASSUME NEW f \in States \union {"codes"}, s \in Loading(f), c.noted \subseteq RowsOf(f)
      PROVE  OnNotes(s, c) \subseteq RowsOf(f)
  <2>1. s.op \in {"read", "replace", "insert"} /\ s.arg = f
    BY <1>3 DEF Loading
  <2>2. c.files[f] \subseteq RowsOf(f)
    BY <1>3 DEF FilesType, RowsOf
  <2>3. OnNotes(s, c) \in {c.files[f], c.noted}
    BY <2>1 DEF OnNotes
  <2> QED
    BY <1>3, <2>2, <2>3
<1> QED
  BY <1>2, <1>3

-----------------------------------------------------------------------------
(* The invariant.                                                          *)

\* what a script may have noted
NotesOf(x) == IF x \in Loads THEN RowsOf(FileOf[x]) ELSE Nodes

ScriptsOK == \A r \in Runs : Active(r) => script[r] \in 1..Len(Targets[job[r]])

NotesOK == \A r \in Runs : noted[r] \subseteq IF Active(r) THEN NotesOf(Script(r)) ELSE {}

\* what the intake scopes is Florida's, or has been recorded as stolen
IntakeOK ==
    \A r \in Runs : Active(r) /\ Script(r) = "intake" /\ pc[r] = 8 =>
                      noted[r] \subseteq Florida \union stolen

CanonInv ==
    /\ Good(graph, stolen) /\ FilesType(files) /\ TablesType(tables)
    /\ job \in [Runs -> Jobs \union {"none"}]
    /\ script \in [Runs -> Nat \ {0}] /\ pc \in [Runs -> Nat \ {0}]
    /\ noted \in [Runs -> SUBSET (Nodes \union Rows)]
    /\ stolen \subseteq Nodes
    /\ turn \in Runs
    /\ starts \in 0..MaxStarts /\ mishaps \in 0..MaxMishaps
    /\ ScriptsOK /\ NotesOK /\ IntakeOK

LEMMA TargetsType ==
    \A j \in DOMAIN Targets :
      /\ Targets[j] \in Seq(DOMAIN Statements) /\ Len(Targets[j]) \in Nat \ {0}
<1>1. /\ {"rebuild", "rules", "jurisdictions", "federal", "obligations", "florida", "fl_rules",
          "cleanup", "intake", "hygiene", "build", "load", "custom", "build_fl", "load_fl",
          "build_codes", "load_codes"} \subseteq DOMAIN Statements
  BY DEF Statements
<1> DEFINE D == DOMAIN Statements
           T(q) == q \in Seq(D) /\ Len(q) \in Nat \ {0}
<1> HIDE DEF D
<1>2. /\ T(<<"rebuild">>) /\ T(<<"cleanup">>) /\ T(<<"jurisdictions">>) /\ T(<<"federal">>)
      /\ T(<<"florida">>) /\ T(<<"intake">>) /\ T(<<"hygiene">>)
  BY <1>1 DEF D
<1>3. /\ T(<<"rules", "build", "load", "custom">>) /\ T(<<"fl_rules", "build_fl", "load_fl">>)
      /\ T(<<"build_codes", "load_codes", "load", "load_fl">>)
  BY <1>1 DEF D
<1>4. T(Restore)
  BY <1>1 DEF D, Restore
<1> HIDE DEF T
<1>5. \A j \in DOMAIN Targets : T(Targets[j])
  BY <1>2, <1>3, <1>4 DEF Targets
<1> QED
  BY <1>5 DEF T, D

LEMMA ScriptType ==
    ASSUME CanonInv, NEW r \in Runs, Active(r)
    PROVE  /\ job[r] \in DOMAIN Targets /\ Script(r) \in DOMAIN Statements
           /\ Statements[Script(r)] \in Seq(Kind(Script(r)))
           /\ ~Over(r) => Statements[Script(r)][pc[r]] \in Kind(Script(r))
<1>1. job[r] \in DOMAIN Targets
  BY JobAssumption DEF CanonInv, Active
<1>2. Targets[job[r]] \in Seq(DOMAIN Statements) /\ script[r] \in 1..Len(Targets[job[r]])
  BY <1>1, TargetsType DEF CanonInv, ScriptsOK
<1>3. Script(r) \in DOMAIN Statements
  BY <1>2, ElementOfSeq DEF Script
<1> DEFINE q == Statements[Script(r)]
<1>4. q \in Seq(Kind(Script(r)))
  BY <1>3, ScriptTypes
<1>5. ~Over(r) => pc[r] \in 1..Len(q)
  <2>1. Len(q) \in Nat /\ pc[r] \in Nat \ {0}
    BY <1>4 DEF CanonInv
  <2> QED
    BY <2>1 DEF Over
<1> HIDE DEF q
<1>6. ~Over(r) => q[pc[r]] \in Kind(Script(r))
  BY <1>4, <1>5, ElementOfSeq
<1> QED
  BY <1>1, <1>3, <1>4, <1>6 DEF q

LEMMA GoodGrows ==
    ASSUME NEW T, NEW g, Good(g, T), NEW U, T \subseteq U
    PROVE  Good(g, U)
  BY DEF Good, Scoped, Fit

\* The statement of run r is of its script, and the intake tags what it noted.
LEMMA StatementIs ==
    ASSUME CanonInv, NEW r \in Runs, Active(r), ~Over(r),
           NEW s, s = Statements[Script(r)][pc[r]]
    PROVE  /\ Script(r) \in Loads =>
                s \in Loading(FileOf[Script(r)]) /\ FileOf[Script(r)] \in States \union {"codes"}
           /\ Script(r) \notin Loads => s \in Intaking
           /\ s.op = "scope_new" => noted[r] \subseteq Florida \union stolen
           /\ s.op = "code_new" => Script(r) = "intake" /\ pc[r] = 7
           /\ Script(r) = "intake" /\ pc[r] = 7 => s.op = "code_new"
<1>1. s \in Kind(Script(r))
  BY ScriptType
<1>2. Script(r) \in Loads =>
        s \in Loading(FileOf[Script(r)]) /\ FileOf[Script(r)] \in States \union {"codes"}
  BY <1>1 DEF Kind, Loads, FileOf, States
<1>3. Script(r) \in Loads => s.op \notin {"scope_new", "code_new"}
  BY <1>2 DEF Loading
<1>4. \A k \in Graphic : k \in Intaking /\ k.op \notin {"scope_new", "code_new"}
  BY DEF Graphic, Intaking
<1>5. Script(r) \notin Loads => s \in Intaking
  BY <1>1, <1>4 DEF Kind
<1>6. ASSUME Script(r) = "intake"
      PROVE  /\ s.op = "scope_new" => pc[r] = 8
             /\ s.op = "code_new" <=> pc[r] = 7
  <2>1. Statements[Script(r)] = MaterializeFlorida
    BY <1>6 DEF Statements
  <2>2. pc[r] \in 1..8
    BY <2>1, IntakeIs DEF Over, CanonInv
  <2>3. CASE pc[r] \in 1..6
    <3>1. s \in Graphic
      BY <2>1, <2>3, IntakeIs
    <3> QED
      BY <2>3, <3>1, <1>4
  <2>4. CASE pc[r] \in {7, 8}
    BY <2>1, <2>4, IntakeIs
  <2> QED
    BY <2>2, <2>3, <2>4
<1>7. s.op \in {"scope_new", "code_new"} => Script(r) = "intake"
  BY <1>1, <1>3, <1>4 DEF Kind
<1>8. s.op = "scope_new" => noted[r] \subseteq Florida \union stolen
  BY <1>6, <1>7 DEF CanonInv, IntakeOK
<1> QED
  BY <1>2, <1>5, <1>6, <1>7, <1>8

\* What one statement of run r leaves is typed, and every scope still fits.
LEMMA EffectOK ==
    ASSUME CanonInv, NEW r \in Runs, Active(r), ~Over(r),
           NEW s, s = Statements[Script(r)][pc[r]],
           NEW b, b = [graph |-> graph, files |-> files, tables |-> tables, noted |-> noted[r]],
           NEW c, c = Effect(b, s)
    PROVE  /\ Good(c.graph, stolen) /\ FilesType(c.files) /\ TablesType(c.tables)
           /\ c.noted \subseteq NotesOf(Script(r))
           /\ s.op \in {"code_new", "scope_new"} => c.noted = noted[r]
<1>1. /\ c.graph = OnGraph(s, graph, noted[r]) /\ c.files = OnFiles(s, graph, files)
      /\ c.tables = OnTables(s, tables, noted[r]) /\ c.noted = OnNotes(s, b)
      /\ b.graph = graph /\ b.files = files /\ b.noted = noted[r]
  BY DEF Effect
<1>2. Good(graph, stolen) /\ GraphType(graph) /\ FilesType(files) /\ TablesType(tables)
  BY DEF CanonInv, Good
<1>3. noted[r] \subseteq NotesOf(Script(r))
  BY DEF CanonInv, NotesOK
<1>4. s.op \in {"code_new", "scope_new"} => c.noted = noted[r]
  BY <1>1 DEF OnNotes
<1>5. CASE Script(r) \in Loads
  <2> DEFINE f == FileOf[Script(r)]
  <2>1. s \in Loading(f) /\ f \in States \union {"codes"}
    BY <1>5, StatementIs
  <2>2. s.op \in {"read", "replace", "insert"} /\ s.arg = f
    BY <2>1 DEF Loading
  <2>3. NotesOf(Script(r)) = RowsOf(f)
    BY <1>5 DEF NotesOf
  <2> HIDE DEF f
  <2>4. OnGraph(s, graph, noted[r]) = graph /\ OnFiles(s, graph, files) = files
    BY <2>2 DEF OnGraph, OnFiles
  <2>5. TablesType(OnTables(s, tables, noted[r]))
    BY <1>2, <1>3, <2>1, <2>2, <2>3, TablesKeep
  <2>6. OnNotes(s, b) \subseteq RowsOf(f)
    BY <1>1, <1>2, <1>3, <2>1, <2>3, NotesKeep
  <2> QED
    BY <1>1, <1>2, <1>4, <2>3, <2>4, <2>5, <2>6
<1>6. CASE Script(r) \notin Loads
  <2>1. s \in Intaking /\ (s.op = "scope_new" => noted[r] \subseteq Florida \union stolen)
    BY <1>6, StatementIs
  <2>2. Good(OnGraph(s, graph, noted[r]), stolen)
    BY <1>2, <2>1, OnGraphGood
  <2>3. /\ s.op \notin {"read", "replace", "insert"}
        /\ s.op = "build" => s.arg \in States
        /\ s.op = "build_codes" => s.arg = "codes"
    BY <2>1 DEF Intaking, Graphic
  <2>4. FilesType(OnFiles(s, graph, files))
    BY <1>2, <2>3, FilesKeep
  <2>5. TablesType(OnTables(s, tables, noted[r]))
    BY <1>2, <2>3, TablesKeep
  <2>6. OnNotes(s, b) \subseteq Nodes
    BY <1>1, <1>2, <1>3, <1>6, <2>1, NotesKeep DEF NotesOf
  <2> QED
    BY <1>1, <1>4, <1>6, <2>2, <2>4, <2>5, <2>6 DEF NotesOf
<1> QED
  BY <1>5, <1>6

\* the invariant, of one run
RunOK(r) ==
    /\ Active(r) => script[r] \in 1..Len(Targets[job[r]])
    /\ noted[r] \subseteq IF Active(r) THEN NotesOf(Script(r)) ELSE {}
    /\ Active(r) /\ Script(r) = "intake" /\ pc[r] = 8 => noted[r] \subseteq Florida \union stolen

LEMMA RunsOK == ScriptsOK /\ NotesOK /\ IntakeOK <=> \A r \in Runs : RunOK(r)
  BY DEF ScriptsOK, NotesOK, IntakeOK, RunOK

LEMMA InitInv == Init => CanonInv
<1> SUFFICES ASSUME Init PROVE CanonInv
  OBVIOUS
<1>1. Good(Empty, stolen)
  BY EmptyType DEF Good, Scoped, Present, Empty
<1>2. Good(graph, stolen)
  <2> DEFINE f == [n \in Old |-> Legacy]
             g == Merge(Empty, f)
  <2>1. Old \in SUBSET Nodes /\ f \in [Old -> Properties] /\ \A n \in Old : Fit(n, f[n], stolen)
    BY FreshType, FreshFits, CanonAssumption
  <2>2. graph = Empty \/ graph = Connect(g, SeedLinks)
    BY DEF Init
  <2> HIDE DEF f
  <2>3. Good(g, stolen)
    BY <1>1, <2>1, MergeGood
  <2> HIDE DEF g
  <2>4. Good(Connect(g, SeedLinks), stolen)
    BY <2>3, ConnectGood, CanonAssumption
  <2> QED
    BY <1>1, <2>2, <2>4
<1>3. FilesType(files)
  <2>1. DOMAIN files = States \union {"codes"} /\ files["codes"] = {}
    BY DEF Init, States
  <2>2. files["US-TX"] = {<<Created, "US-TX">>} /\ files["US-FL"] = FlRules \X {"US-FL"}
    BY DEF Init, States
  <2>3. Created \in Nodes /\ FlRules \subseteq Nodes
    BY NodesKinds, CanonAssumption
  <2>4. files["US-TX"] \subseteq Rows /\ files["US-FL"] \subseteq Rows
    BY <2>2, <2>3 DEF Rows, Jurisdictions, States
  <2> QED
    BY <2>1, <2>4 DEF FilesType, States
<1>4. TablesType(tables)
  <2>1. BagOf(EmptyBag, Rows) /\ BagOf(EmptyBag, Values)
    BY DEF BagOf, IsABag, EmptyBag, SetToBag
  <2>2. tables = [rules |-> EmptyBag, codes |-> EmptyBag]
    BY DEF Init
  <2> QED
    BY <2>1, <2>2 DEF TablesType
<1>5. \A r \in Runs : RunOK(r)
  BY DEF Init, RunOK, Active
<1> QED
  BY <1>2, <1>3, <1>4, <1>5, RunsOK, CanonAssumption DEF Init, CanonInv

\* A step of run r keeps the invariant if it does for r, and takes nothing but notes
\* from the others.
LEMMA MoveOK ==
    ASSUME CanonInv, NEW r \in Runs, NEW j \in Jobs \union {"none"}, NEW k \in Nat \ {0},
           NEW i \in Nat \ {0}, Goto(r, j, k, i),
           noted' \in [Runs -> SUBSET (Nodes \union Rows)],
           \A q \in Runs \ {r} : noted'[q] \subseteq noted[q],
           stolen \subseteq stolen', stolen' \subseteq Nodes, RunOK(r)',
           Good(graph', stolen'), FilesType(files'), TablesType(tables'),
           turn' \in Runs, starts' \in 0..MaxStarts, mishaps' \in 0..MaxMishaps
    PROVE  CanonInv'
<1>1. /\ job' \in [Runs -> Jobs \union {"none"}] /\ script' \in [Runs -> Nat \ {0}]
      /\ pc' \in [Runs -> Nat \ {0}]
      /\ \A q \in Runs \ {r} : job'[q] = job[q] /\ script'[q] = script[q] /\ pc'[q] = pc[q]
  BY DEF Goto, CanonInv
<1>2. ASSUME NEW q \in Runs \ {r}
      PROVE  RunOK(q)'
  <2>1. RunOK(q)
    BY RunsOK DEF CanonInv
  <2>2. job'[q] = job[q] /\ script'[q] = script[q] /\ pc'[q] = pc[q] /\ noted'[q] \subseteq noted[q]
    BY <1>1
  <2> QED
    BY <2>1, <2>2 DEF RunOK, Active, Script
<1>3. \A q \in Runs : RunOK(q)'
  BY <1>2
<1>4. (ScriptsOK /\ NotesOK /\ IntakeOK)'
  BY <1>3 DEF ScriptsOK, NotesOK, IntakeOK, RunOK
<1> QED
  BY <1>1, <1>4 DEF CanonInv

LEMMA StopOK ==
    ASSUME CanonInv, NEW r \in Runs, Active(r), Stop(r) \/ NextOf(r),
           NextOf(r) => script[r] < Len(Targets[job[r]]), noted'[r] = {}
    PROVE  /\ RunOK(r)'
           /\ \E j \in Jobs \union {"none"}, k, i \in Nat \ {0} : Goto(r, j, k, i)
<1>1. CASE Stop(r)
  <2>1. job'[r] = "none" /\ Goto(r, "none", 1, 1)
    BY <1>1 DEF Stop, Goto, CanonInv
  <2> QED
    BY <2>1 DEF RunOK, Active
<1>2. CASE NextOf(r)
  <2>1. /\ job[r] \in Jobs \union {"none"} /\ script[r] + 1 \in Nat \ {0}
        /\ Goto(r, job[r], script[r] + 1, 1)
    BY <1>2 DEF NextOf, CanonInv
  <2>2. job'[r] = job[r] /\ script'[r] = script[r] + 1 /\ pc'[r] = 1
    BY <2>1 DEF Goto, CanonInv
  <2>3. script[r] + 1 \in 1..Len(Targets[job[r]])
    <3>1. Len(Targets[job[r]]) \in Nat
      BY ScriptType, TargetsType
    <3> QED
      BY <1>2, <3>1 DEF CanonInv
  <2>4. RunOK(r)'
    BY <2>2, <2>3 DEF RunOK
  <2> QED
    BY <2>1, <2>4
<1> QED
  BY <1>1, <1>2

\* The steps.
LEMMA StartInv ==
    ASSUME CanonInv, NEW r \in Runs, NEW j \in Jobs, Start(r, j)
    PROVE  CanonInv'
<1>1. /\ ~Active(r) /\ Goto(r, j, 1, 1) /\ starts' = starts + 1 /\ starts < MaxStarts
      /\ graph' = graph /\ files' = files /\ tables' = tables /\ noted' = noted
      /\ stolen' = stolen /\ turn' = turn /\ mishaps' = mishaps
  BY DEF Start
<1>2. noted[r] = {}
  BY <1>1 DEF CanonInv, NotesOK
<1>3. 1 \in 1..Len(Targets[j])
  BY JobAssumption, TargetsType
<1>4. job'[r] = j /\ script'[r] = 1 /\ pc'[r] = 1
  BY <1>1 DEF Goto, CanonInv
<1>5. RunOK(r)'
  BY <1>1, <1>2, <1>3, <1>4 DEF RunOK
<1>6. starts' \in 0..MaxStarts
  BY <1>1, CanonAssumption DEF CanonInv
<1> QED
  BY <1>1, <1>5, <1>6, MoveOK DEF CanonInv

LEMMA NotedCleared ==
    ASSUME CanonInv, NEW r \in Runs, noted' = [noted EXCEPT ![r] = {}]
    PROVE  /\ noted' \in [Runs -> SUBSET (Nodes \union Rows)] /\ noted'[r] = {}
           /\ \A q \in Runs \ {r} : noted'[q] \subseteq noted[q]
  BY DEF CanonInv

LEMMA NextScriptInv ==
    ASSUME CanonInv, NEW r \in Runs, NextScript(r)
    PROVE  CanonInv'
<1>1. /\ Active(r) /\ noted' = [noted EXCEPT ![r] = {}]
      /\ IF script[r] < Len(Targets[job[r]]) THEN NextOf(r) ELSE Stop(r)
      /\ graph' = graph /\ files' = files /\ tables' = tables
      /\ stolen' = stolen /\ turn' = turn /\ mishaps' = mishaps /\ starts' = starts
  BY DEF NextScript, Over
<1>2. NextOf(r) => script[r] < Len(Targets[job[r]])
  <2> SUFFICES ASSUME NextOf(r), ~(script[r] < Len(Targets[job[r]])) PROVE FALSE
    OBVIOUS
  <2>1. Stop(r)
    BY <1>1
  <2>2. job'[r] = job[r] /\ job'[r] = "none"
    BY <2>1 DEF Stop, NextOf, Goto, CanonInv
  <2> QED
    BY <1>1, <2>2 DEF Active
<1>3. /\ noted' \in [Runs -> SUBSET (Nodes \union Rows)] /\ noted'[r] = {}
      /\ \A q \in Runs \ {r} : noted'[q] \subseteq noted[q]
  BY <1>1, NotedCleared
<1>4. Stop(r) \/ NextOf(r)
  BY <1>1
<1>5. RunOK(r)'
  BY <1>1, <1>2, <1>3, <1>4, StopOK
<1>6. PICK j \in Jobs \union {"none"}, k \in Nat \ {0}, i \in Nat \ {0} : Goto(r, j, k, i)
  BY <1>1, <1>2, <1>3, <1>4, StopOK
<1> QED
  BY <1>1, <1>3, <1>5, <1>6, MoveOK DEF CanonInv

LEMMA EndsOK ==
    ASSUME CanonInv, NEW r \in Runs, Active(r), Ends(r)
    PROVE  /\ noted' \in [Runs -> SUBSET (Nodes \union Rows)]
           /\ \A q \in Runs \ {r} : noted'[q] \subseteq noted[q]
           /\ RunOK(r)'
           /\ \E j \in Jobs \union {"none"}, k, i \in Nat \ {0} : Goto(r, j, k, i)
<1>1. /\ noted' = [noted EXCEPT ![r] = {}]
      /\ \/ Stop(r)
         \/ script[r] < Len(Targets[job[r]]) /\ NextOf(r)
  BY DEF Ends
<1>2. Stop(r) => ~NextOf(r)
  <2> SUFFICES ASSUME NextOf(r), Stop(r) PROVE FALSE
    OBVIOUS
  <2>1. job'[r] = job[r] /\ job'[r] = "none"
    BY DEF Stop, NextOf, Goto, CanonInv
  <2> QED
    BY <2>1 DEF Active
<1>3. /\ noted' \in [Runs -> SUBSET (Nodes \union Rows)] /\ noted'[r] = {}
      /\ \A q \in Runs \ {r} : noted'[q] \subseteq noted[q]
  BY <1>1, NotedCleared
<1>4. (Stop(r) \/ NextOf(r)) /\ (NextOf(r) => script[r] < Len(Targets[job[r]]))
  BY <1>1, <1>2
<1> QED
  BY <1>3, <1>4, StopOK

LEMMA DieInv ==
    ASSUME CanonInv, NEW r \in Runs, Die(r)
    PROVE  CanonInv'
<1>1. /\ Active(r) /\ Ends(r) /\ mishaps < MaxMishaps /\ mishaps' = mishaps + 1
      /\ graph' = graph /\ files' = files /\ tables' = tables
      /\ stolen' = stolen /\ turn' = turn /\ starts' = starts
  BY DEF Die
<1>2. /\ noted' \in [Runs -> SUBSET (Nodes \union Rows)] /\ RunOK(r)'
      /\ \A q \in Runs \ {r} : noted'[q] \subseteq noted[q]
  BY <1>1, EndsOK
<1>3. PICK j \in Jobs \union {"none"}, k \in Nat \ {0}, i \in Nat \ {0} : Goto(r, j, k, i)
  BY <1>1, EndsOK
<1>4. mishaps' \in 0..MaxMishaps
  BY <1>1, CanonAssumption DEF CanonInv
<1> QED
  BY <1>1, <1>2, <1>3, <1>4, MoveOK DEF CanonInv

LEMMA BuildFailsInv ==
    ASSUME CanonInv, NEW r \in Runs, BuildFails(r)
    PROVE  CanonInv'
<1>1. /\ Active(r) /\ Script(r) = "build_codes" /\ mishaps < MaxMishaps
      /\ mishaps' = mishaps + 1 /\ Goto(r, job[r], script[r], pc[r] + 1)
      /\ graph' = graph /\ files' = files /\ tables' = tables /\ noted' = noted
      /\ stolen' = stolen /\ turn' = turn /\ starts' = starts
  BY DEF BuildFails
<1>2. /\ job'[r] = job[r] /\ script'[r] = script[r]
      /\ job[r] \in Jobs \union {"none"} /\ script[r] \in Nat \ {0} /\ pc[r] + 1 \in Nat \ {0}
  BY <1>1 DEF Goto, CanonInv
<1>3. RunOK(r)
  BY RunsOK DEF CanonInv
<1>4. Script(r)' = Script(r) /\ Active(r)' = Active(r)
  BY <1>2 DEF Script, Active
<1>5. RunOK(r)'
  BY <1>1, <1>2, <1>3, <1>4 DEF RunOK
<1>6. mishaps' \in 0..MaxMishaps
  BY <1>1, CanonAssumption DEF CanonInv
<1> QED
  BY <1>1, <1>2, <1>5, <1>6, MoveOK DEF CanonInv

LEMMA ExecuteInv ==
    ASSUME CanonInv, NEW r \in Runs, Execute(r)
    PROVE  CanonInv'
<1> DEFINE s == Statements[Script(r)][pc[r]]
           b == [graph |-> graph, files |-> files, tables |-> tables, noted |-> noted[r]]
           c == Effect(b, s)
<1>1. /\ Active(r) /\ ~Over(r) /\ mishaps + Overtakes(r) <= MaxMishaps
      /\ graph' = c.graph /\ files' = c.files /\ tables' = c.tables
      /\ stolen' = IF s.op = "code_new" THEN stolen \union (noted[r] \ DocNodes[Intake])
                   ELSE stolen
      /\ IF Fails(s, c) THEN Ends(r)
         ELSE /\ noted' = [q \in Runs |-> IF q = r THEN c.noted
                                         ELSE IF s.op = "wipe" THEN noted[q] \ Seeded
                                         ELSE noted[q]]
              /\ Goto(r, job[r], script[r], IF Skips(s, c) THEN pc[r] + 5 ELSE pc[r] + 1)
      /\ mishaps' = mishaps + Overtakes(r) /\ turn' = r /\ starts' = starts
  BY DEF Execute
<1>2. /\ Good(c.graph, stolen) /\ FilesType(c.files) /\ TablesType(c.tables)
      /\ c.noted \subseteq NotesOf(Script(r))
      /\ s.op \in {"code_new", "scope_new"} => c.noted = noted[r]
  BY <1>1, EffectOK
<1>3. /\ s.op = "code_new" => Script(r) = "intake" /\ pc[r] = 7
      /\ Script(r) = "intake" /\ pc[r] = 7 => s.op = "code_new"
  BY <1>1, StatementIs
<1> HIDE DEF s, b, c
<1>4. mishaps' \in 0..MaxMishaps /\ turn' \in Runs /\ starts' \in 0..MaxStarts
  <2>1. Overtakes(r) \in {0, 1}
    BY DEF Overtakes
  <2> QED
    BY <1>1, <2>1, CanonAssumption DEF CanonInv
<1>5. stolen \subseteq stolen' /\ stolen' \subseteq Nodes
  <2>1. s.op = "code_new" => noted[r] \subseteq Nodes
    BY <1>1, <1>3 DEF CanonInv, NotesOK, NotesOf, Loads
  <2> QED
    BY <1>1, <2>1 DEF CanonInv
<1>6. Good(graph', stolen') /\ FilesType(files') /\ TablesType(tables')
  BY <1>1, <1>2, <1>5, GoodGrows
<1>7. CASE Fails(s, c)
  <2>1. /\ noted' \in [Runs -> SUBSET (Nodes \union Rows)] /\ RunOK(r)'
        /\ \A q \in Runs \ {r} : noted'[q] \subseteq noted[q]
    BY <1>1, <1>7, EndsOK
  <2>2. PICK j \in Jobs \union {"none"}, k \in Nat \ {0}, i \in Nat \ {0} : Goto(r, j, k, i)
    BY <1>1, <1>7, EndsOK
  <2> QED
    BY <1>4, <1>5, <1>6, <2>1, <2>2, MoveOK
<1>8. CASE ~Fails(s, c)
  <2> DEFINE i == IF Skips(s, c) THEN pc[r] + 5 ELSE pc[r] + 1
  <2>1. Goto(r, job[r], script[r], i)
    BY <1>1, <1>8
  <2>2. i \in Nat \ {0} /\ i # pc[r] /\ (~Skips(s, c) => i = pc[r] + 1)
    BY DEF CanonInv
  <2> HIDE DEF i
  <2>3. /\ job'[r] = job[r] /\ script'[r] = script[r] /\ pc'[r] = i
        /\ job[r] \in Jobs \union {"none"} /\ script[r] \in Nat \ {0}
    BY <2>1 DEF Goto, CanonInv
  <2>4. Script(r)' = Script(r) /\ Active(r)' = Active(r)
    BY <2>3 DEF Script, Active
  <2>5. noted'[r] = c.noted /\ \A q \in Runs \ {r} : noted'[q] \subseteq noted[q]
    BY <1>1, <1>8
  <2>6. noted' \in [Runs -> SUBSET (Nodes \union Rows)]
    <3>1. NotesOf(Script(r)) \subseteq Nodes \union Rows
      <4>1. Values \subseteq Nodes
        BY NodesKinds
      <4> QED
        BY <4>1 DEF NotesOf, RowsOf
    <3>2. \A q \in Runs : noted[q] \subseteq Nodes \union Rows
      BY DEF CanonInv
    <3>3. noted' = [q \in Runs |-> noted'[q]]
      BY <1>1, <1>8
    <3>4. \A q \in Runs : noted'[q] \subseteq Nodes \union Rows
      BY <1>2, <2>5, <3>1, <3>2
    <3> QED
      BY <3>3, <3>4
  <2>7. ASSUME Script(r) = "intake", i = 8
        PROVE  c.noted \subseteq Florida \union stolen'
    <3>1. CASE Skips(s, c)
      BY <3>1 DEF Skips
    <3>2. CASE ~Skips(s, c)
      <4>1. pc[r] = 7
        BY <2>2, <2>7, <3>2 DEF CanonInv
      <4>2. s.op = "code_new"
        BY <1>3, <2>7, <4>1
      <4>3. c.noted = noted[r] /\ stolen' = stolen \union (noted[r] \ DocNodes[Intake])
        BY <1>1, <1>2, <4>2
      <4>4. DocNodes[Intake] \subseteq Florida
        BY CanonAssumption DEF Florida
      <4> QED
        BY <4>3, <4>4
    <3> QED
      BY <3>1, <3>2
  <2>8. RunOK(r)
    BY RunsOK DEF CanonInv
  <2>9. RunOK(r)'
    BY <1>1, <1>2, <2>3, <2>4, <2>5, <2>7, <2>8 DEF RunOK
  <2> QED
    BY <1>4, <1>5, <1>6, <2>1, <2>2, <2>3, <2>5, <2>6, <2>9, MoveOK
<1> QED
  BY <1>7, <1>8

LEMMA NextInv == CanonInv /\ [Next]_vars => CanonInv'
<1> SUFFICES ASSUME CanonInv, [Next]_vars PROVE CanonInv'
  OBVIOUS
<1>1. ASSUME NEW r \in Runs, NEW j \in Jobs, Start(r, j)
      PROVE  CanonInv'
  BY <1>1, StartInv
<1>2. ASSUME NEW r \in Runs, Execute(r) \/ NextScript(r) \/ Die(r) \/ BuildFails(r)
      PROVE  CanonInv'
  BY <1>2, ExecuteInv, NextScriptInv, DieInv, BuildFailsInv
<1>3. ASSUME UNCHANGED vars
      PROVE  CanonInv'
  BY <1>3 DEF vars, CanonInv, ScriptsOK, NotesOK, IntakeOK, Active, Script
<1> QED
  BY <1>1, <1>2, <1>3 DEF Next

LEMMA Invariant == Spec => []CanonInv
<1>1. Init => CanonInv
  BY InitInv
<1>2. CanonInv /\ [Next]_vars => CanonInv'
  BY NextInv
<1> QED
  BY <1>1, <1>2, PTL DEF Spec

\* CanonScripts: the graph has only nodes of the canon, links between nodes that are there
\* and known jurisdictions; files and tables have rows of rules and values; runs note nodes
\* or rows.
THEOREM TypeCorrect == Spec => []TypeOK
<1>1. CanonInv => TypeOK
  <2> SUFFICES ASSUME CanonInv PROVE TypeOK
    OBVIOUS
  <2>1. GraphType(graph) /\ FilesType(files) /\ TablesType(tables)
    BY DEF CanonInv, Good
  <2>2. \A r \in Runs : noted[r] \subseteq Nodes \union Rows
    BY DEF CanonInv
  <2> QED
    BY <2>1, <2>2 DEF CanonInv, TypeOK, GraphType, FilesType, TablesType, BagOf
<1> QED
  BY <1>1, Invariant, PTL

\* OneScope: however rebuilds, migrations, the Florida seed and the intake overlap or die,
\* no proposed node applies in two jurisdictions, but for those the intake took for its own.
THEOREM OneScopeHolds == Spec => []OneScope
<1>1. CanonInv => OneScope
  <2> SUFFICES ASSUME CanonInv, NEW n \in Present(graph), n \notin stolen \union Infrastructure
               PROVE  Cardinality(graph.node[n].scope) <= 1
    BY DEF OneScope
  <2>1. \A i, j \in graph.node[n].scope : i = j
    BY DEF CanonInv, Good, Scoped, Fit
  <2> DEFINE S == graph.node[n].scope
  <2>2. CASE S = {}
    BY <2>2, FS_EmptySet
  <2>3. CASE S # {}
    <3>1. PICK i : S = {i}
      BY <2>1, <2>3
    <3> QED
      BY <3>1, FS_Singleton
  <2> QED
    BY <2>2, <2>3
<1> QED
  BY <1>1, Invariant, PTL

-----------------------------------------------------------------------------
(* Scripts on their own: what one statement after the other does.          *)

LEMMA MaxIn ==
    ASSUME NEW n \in Nat, NEW s, s \subseteq 1..n, s # {}
    PROVE  Max(s) \in s /\ \A y \in s : Max(s) >= y
<1> DEFINE U == {i \in 0..n : \A y \in s : i >= y}
<1>1. U \subseteq Nat /\ n \in U
  OBVIOUS
<1>2. PICK m \in U : \A i \in U : m <= i
  <2> HIDE DEF U
  <2> QED
    BY <1>1, LeastOf
<1>3. m \in s
  <2> SUFFICES ASSUME m \notin s PROVE FALSE
    OBVIOUS
  <2>1. m # 0
    <3> HIDE DEF U
    <3>1. PICK y \in s : TRUE
      OBVIOUS
    <3>2. y \in 1..n
      BY <3>1
    <3>3. m >= y
      BY <1>2, <3>1 DEF U
    <3> QED
      BY <3>2, <3>3
  <2>2. m - 1 \in U
    BY <1>2, <2>1
  <2> QED
    BY <1>2, <2>2
<1>4. \A y \in s : m >= y
  BY <1>2
<1> QED
  BY <1>3, <1>4 DEF Max

\* places in a sequence
Places(S) == IsFiniteSet(S) /\ \A s \in SUBSET S : s # {} => Max(s) \in s

LEMMA PlacesAre ==
    ASSUME NEW n \in Nat, NEW S, S \subseteq 1..n
    PROVE  Places(S)
<1>1. IsFiniteSet(1..n)
  BY FS_Interval
<1>2. IsFiniteSet(S)
  BY <1>1, FS_Subset
<1>3. ASSUME NEW s \in SUBSET S, s # {}
      PROVE  Max(s) \in s
  <2>1. s \subseteq 1..n
    OBVIOUS
  <2> QED
    BY <1>3, <2>1, MaxIn
<1> QED
  BY <1>2, <1>3 DEF Places

LEMMA PlacesWithin == \A S, T : Places(S) /\ T \subseteq S => Places(T)
  BY FS_Subset DEF Places

\* h gives what the statements of q at each set of places make of c
Folds(h, c, q, S) ==
    h = [s \in SUBSET S |-> IF s = {} THEN c ELSE Effect(h[s \ {Max(s)}], q[Max(s)])]

FoldTable(c, q, S) == CHOOSE h : Folds(h, c, q, S)

LEMMA FoldIs == \A c, q : FoldLeft(Effect, c, q) = FoldTable(c, q, DOMAIN q)[DOMAIN q]
BY DEF FoldLeft, MapThenFoldSet, FoldTable, Folds

LEMMA SmallestSet ==
    ASSUME NEW S, IsFiniteSet(S), NEW T, T \subseteq SUBSET S, T # {}
    PROVE  \E s \in T : \A t \in T : ~(t \subseteq s /\ t # s)
<1>1. IsWellFoundedOn(StrictSubsetOrdering(S), SUBSET S)
  BY FS_FiniteSubsetsOfFinite, FS_StrictSubsetOrderingWellFounded
<1>2. PICK s \in T : \A t \in T : <<t, s>> \notin StrictSubsetOrdering(S)
  BY <1>1, WFMin
<1>3. \A t \in T : t \subseteq s /\ t # s => <<t, s>> \in StrictSubsetOrdering(S)
  BY DEF StrictSubsetOrdering
<1>4. \A t \in T : ~(t \subseteq s /\ t # s)
  BY <1>2, <1>3
<1> QED
  BY <1>4

\* A fold depends on the statements at its places only.
LEMMA FoldsAgree ==
    ASSUME NEW c, NEW p, NEW q, NEW U, Places(U), NEW V, NEW g, NEW k,
           Folds(g, c, p, U), Folds(k, c, q, V), \A i \in U : p[i] = q[i]
    PROVE  \A s : s \subseteq U /\ s \subseteq V => g[s] = k[s]
<1> DEFINE T == {s \in SUBSET U : s \subseteq V /\ g[s] # k[s]}
<1> SUFFICES ASSUME T # {} PROVE FALSE
  OBVIOUS
<1>f. IsFiniteSet(U)
  BY DEF Places
<1>0. T \subseteq SUBSET U
  OBVIOUS
<1> HIDE DEF T
<1>1. PICK s \in T : \A t \in T : ~(t \subseteq s /\ t # s)
  BY <1>0, <1>f, SmallestSet
<1> USE DEF T
<1>2. /\ g[s] = IF s = {} THEN c ELSE Effect(g[s \ {Max(s)}], p[Max(s)])
      /\ k[s] = IF s = {} THEN c ELSE Effect(k[s \ {Max(s)}], q[Max(s)])
  BY DEF Folds
<1>3. s # {} => Max(s) \in s
  BY DEF Places
<1>4. s # {} => g[s \ {Max(s)}] = k[s \ {Max(s)}] /\ p[Max(s)] = q[Max(s)]
  BY <1>1, <1>3
<1> QED
  BY <1>2, <1>4

\* The recursion of a fold has a solution.
LEMMA FoldsExist ==
    ASSUME NEW c, NEW q, NEW S, Places(S)
    PROVE  Folds(FoldTable(c, q, S), c, q, S)
<1> DEFINE T == {s \in SUBSET S : ~Folds(FoldTable(c, q, s), c, q, s)}
<1> SUFFICES ASSUME T # {} PROVE FALSE
  OBVIOUS
<1>f. IsFiniteSet(S)
  BY DEF Places
<1>0. T \subseteq SUBSET S
  OBVIOUS
<1> HIDE DEF T
<1>1. PICK s \in T : \A t \in T : ~(t \subseteq s /\ t # s)
  BY <1>0, <1>f, SmallestSet
<1> USE DEF T
<1>2. \A t \in SUBSET S : t \subseteq s /\ t # s => Folds(FoldTable(c, q, t), c, q, t)
  BY <1>1
<1>m. \A t \in SUBSET S : t # {} => Max(t) \in t
  BY DEF Places
<1> DEFINE Less(t) == t \ {Max(t)}
           V(t) == FoldTable(c, q, t)[t]
           g == [t \in SUBSET s |-> IF t = {} THEN c ELSE Effect(V(Less(t)), q[Max(t)])]
<1>3. ASSUME NEW t \in SUBSET s, t # {}
      PROVE  g[Less(t)] = V(Less(t))
  <2>1. Less(t) \subseteq s /\ Less(t) # s /\ Less(t) \in SUBSET S
    BY <1>3, <1>m
  <2>2. Folds(FoldTable(c, q, Less(t)), c, q, Less(t))
    BY <1>2, <2>1
  <2>3. V(Less(t)) = IF Less(t) = {} THEN c
                     ELSE Effect(FoldTable(c, q, Less(t))[Less(Less(t))], q[Max(Less(t))])
    BY <2>2 DEF Folds
  <2>4. ASSUME Less(t) # {}
        PROVE  FoldTable(c, q, Less(t))[Less(Less(t))] = V(Less(Less(t)))
    <3>1. Less(Less(t)) \subseteq s /\ Less(Less(t)) # s /\ Less(Less(t)) \in SUBSET S
      BY <2>1
    <3>2. Folds(FoldTable(c, q, Less(Less(t))), c, q, Less(Less(t)))
      BY <1>2, <3>1
    <3>3. Places(Less(t))
      BY <2>1, PlacesWithin
    <3> HIDE DEF Less
    <3>4. Less(Less(t)) \subseteq Less(t)
      BY DEF Less
    <3> DEFINE A == Less(t)
               B == Less(Less(t))
               h == FoldTable(c, q, A)
               k == FoldTable(c, q, B)
    <3>5. Folds(h, c, q, A) /\ Folds(k, c, q, B) /\ Places(A) /\ B \subseteq A
      BY <2>2, <3>2, <3>3, <3>4
    <3>6. h[B] = k[B]
      <4> HIDE DEF A, B, h, k
      <4>1. \A s_1 : s_1 \subseteq A /\ s_1 \subseteq B => h[s_1] = k[s_1]
        BY <3>5, FoldsAgree
      <4> QED
        BY <3>5, <4>1
    <3> QED
      BY <3>6
  <2> HIDE DEF Less, V
  <2>5. g[Less(t)] = IF Less(t) = {} THEN c ELSE Effect(V(Less(Less(t))), q[Max(Less(t))])
    BY <2>1
  <2> HIDE DEF g
  <2>6. V(Less(t)) = IF Less(t) = {} THEN c ELSE Effect(V(Less(Less(t))), q[Max(Less(t))])
    BY <2>3, <2>4
  <2> QED
    BY <2>5, <2>6
<1>4. Folds(g, c, q, s)
  <2>1. g = [t \in SUBSET s |-> IF t = {} THEN c ELSE Effect(g[Less(t)], q[Max(t)])]
    <3> HIDE DEF V
    <3> QED
      BY <1>3
  <2> QED
    BY <2>1 DEF Folds
<1> HIDE DEF g
<1>5. Folds(FoldTable(c, q, s), c, q, s)
  BY <1>4 DEF FoldTable
<1> QED
  BY <1>1, <1>5

\* what statements q make of c
Send(c, q) == FoldLeft(Effect, c, q)

LEMMA SendNone == \A c, q : q = <<>> => Send(c, q) = c
<1> TAKE c, q
<1> SUFFICES ASSUME q = <<>> PROVE Send(c, q) = c
  OBVIOUS
<1>1. DOMAIN q = {} /\ Places({})
  BY FS_EmptySet DEF Places
<1>2. Folds(FoldTable(c, q, {}), c, q, {})
  BY <1>1, FoldsExist
<1>3. FoldTable(c, q, {})[{}] = c
  BY <1>2 DEF Folds
<1> QED
  BY <1>1, <1>3, FoldIs DEF Send

\* statements that may be sent
Sendable(p) == \E S : p \in Seq(S)

LEMMA SendableCat ==
    /\ \A o, a : Sendable(Do(o, a))
    /\ \A p, o, a : Sendable(p) => Sendable(p \o Do(o, a))
<1>1. \A o, a : Do(o, a) \in Seq({[op |-> o, arg |-> a]})
  BY DEF Do
<1>2. ASSUME NEW p, NEW o, NEW a, Sendable(p)
      PROVE  Sendable(p \o Do(o, a))
  <2>1. PICK S : p \in Seq(S)
    BY <1>2 DEF Sendable
  <2> DEFINE U == S \union {[op |-> o, arg |-> a]}
  <2>2. p \in Seq(U) /\ Do(o, a) \in Seq(U)
    <3>1. S \subseteq U /\ {[op |-> o, arg |-> a]} \subseteq U
      OBVIOUS
    <3>2. Do(o, a) \in Seq({[op |-> o, arg |-> a]})
      BY <1>1
    <3> HIDE DEF U
    <3> QED
      BY <2>1, <3>1, <3>2, SeqMonotonic
  <2>3. p \o Do(o, a) \in Seq(U)
    BY <2>2, CatType
  <2> QED
    BY <2>3 DEF Sendable
<1> QED
  BY <1>1, <1>2 DEF Sendable

LEMMA SendNext ==
    ASSUME NEW c, NEW p, Sendable(p), NEW o, NEW a
    PROVE  Send(c, p \o Do(o, a)) = Effect(Send(c, p), [op |-> o, arg |-> a])
<1> DEFINE q == p \o Do(o, a)
           n == Len(p)
           D == 1..n
           E == 1..(n + 1)
<1>0. PICK S : p \in Seq(S)
  BY DEF Sendable
<1>1. n \in Nat /\ DOMAIN p = D
  BY <1>0
<1>2. DOMAIN q = E /\ q[n + 1] = [op |-> o, arg |-> a] /\ \A i \in D : q[i] = p[i]
  BY <1>0 DEF Do
<1>3. /\ Places(D) /\ Places(E) /\ D \subseteq E /\ n + 1 \in E
  <2> HIDE DEF n
  <2>1. n + 1 \in E /\ n + 1 \in Nat /\ D \subseteq 1..n /\ E \subseteq 1..(n + 1) /\ D \subseteq E
    BY <1>1
  <2> QED
    BY <1>1, <2>1, PlacesAre
<1>4. Max(E) = n + 1 /\ E \ {n + 1} = D
  <2>1. Max(E) \in E /\ \A y \in E : Max(E) >= y
    <3>1. n + 1 \in Nat /\ E \subseteq 1..(n + 1) /\ E # {}
      BY <1>1, <1>3
    <3> QED
      BY <3>1, MaxIn
  <2>2. n + 1 \in E
    BY <1>1
  <2>3. Max(E) >= n + 1 /\ Max(E) <= n + 1 /\ Max(E) \in Nat
    BY <2>1, <2>2
  <2>4. E \ {n + 1} = D
    BY <1>1
  <2> QED
    BY <2>3, <2>4, <1>1
<1> HIDE DEF q, D, E
<1>5. Folds(FoldTable(c, q, E), c, q, E) /\ Folds(FoldTable(c, p, D), c, p, D)
  BY <1>3, FoldsExist
<1>6. FoldTable(c, q, E)[E] = Effect(FoldTable(c, q, E)[D], q[n + 1])
  BY <1>3, <1>4, <1>5 DEF Folds
<1>7. \A i \in D : p[i] = q[i]
  BY <1>2
<1>9. FoldTable(c, q, E)[D] = FoldTable(c, p, D)[D]
  <2> DEFINE h == FoldTable(c, p, D)
             k == FoldTable(c, q, E)
  <2>1. Folds(h, c, p, D) /\ Folds(k, c, q, E)
    BY <1>5
  <2> HIDE DEF h, k
  <2>2. \A s : s \subseteq D /\ s \subseteq E => h[s] = k[s]
    BY <1>3, <1>7, <2>1, FoldsAgree
  <2>3. h[D] = k[D]
    BY <1>3, <2>2
  <2> QED
    BY <2>3 DEF h, k
<1>10. Send(c, q) = FoldTable(c, q, E)[E] /\ Send(c, p) = FoldTable(c, p, D)[D]
  BY <1>1, <1>2, FoldIs DEF Send
<1>11. Send(c, q) = Effect(Send(c, p), [op |-> o, arg |-> a])
  BY <1>2, <1>6, <1>9, <1>10
<1> QED
  BY <1>11 DEF q

\* a statement
Stated(o, a) == [op |-> o, arg |-> a]

LEMMA SendMore ==
    \A c, p, o, a : Sendable(p) => Send(c, p \o Do(o, a)) = Effect(Send(c, p), Stated(o, a))
  BY SendNext DEF Stated

LEMMA SendOne == \A c, o, a : Send(c, Do(o, a)) = Effect(c, Stated(o, a))
<1> TAKE c, o, a
<1> DEFINE e == <<>>
<1>0. Sendable(e)
  <2>1. e \in Seq({})
    OBVIOUS
  <2> HIDE DEF e
  <2> QED
    BY <2>1 DEF Sendable
<1>1. e \o Do(o, a) = Do(o, a) /\ e = <<>>
  BY DEF Do
<1> HIDE DEF e
<1>2. Send(c, e \o Do(o, a)) = Effect(Send(c, e), Stated(o, a))
  BY <1>0, SendMore
<1>3. Send(c, e) = c
  BY <1>1, SendNone
<1> QED
  BY <1>1, <1>2, <1>3

LEMMA AfterOne ==
    ASSUME NEW x, NEW c
    PROVE  After(<<x>>, c) = Send(c, Statements[x])
<1> DEFINE q == [i \in DOMAIN <<x>> |-> Statements[<<x>>[i]]]
<1>1. DOMAIN q = 1..1 /\ q[1] = Statements[x]
  OBVIOUS
<1>2. Len(q) = 1
  <2>1. q \in [1..1 -> {Statements[x]}]
    OBVIOUS
  <2> HIDE DEF q
  <2> QED
    BY <2>1
<1>3. After(<<x>>, c) = Send(c, FlattenSeq(q))
  BY DEF After, Send
<1> HIDE DEF q
<1>4. FlattenSeq(q) = q[1]
  <2>1. FlattenSeq(q) = FlatTable(q, 1)[1] /\ FlatTable(q, 1)[1] = q[1]
    <3>1. 1 \in Nat \ {0}
      OBVIOUS
    <3> QED
      BY <1>2, <3>1, FlattenSteps
  <2> QED
    BY <2>1
<1> QED
  BY <1>1, <1>3, <1>4

\* What the statements of these scripts do; none of them writes a table.
Typed(g) == Change(g, Present(g), LAMBDA p : [p EXCEPT !.type = TRUE])
Cited(g) == Change(g, Uncited(g), LAMBDA p : [p EXCEPT !.cites = TRUE])
Widened(g, J) == [g EXCEPT !.jurisdictions = @ \union J]
Obliged(g, m) == Merge(g, [n \in {m} |-> Fresh])

LEMMA SendsFederal ==
    \A c, a : LET d == Effect(c, Stated("federal", a))
              IN  d.graph = TagFederal(c.graph, a) /\ d.tables = c.tables
  BY DEF Stated, Effect, OnGraph, OnTables

LEMMA SendsRewire ==
    \A c, a : LET d == Effect(c, Stated("rewire", a))
              IN  d.graph = Rewire(c.graph) /\ d.tables = c.tables
  BY DEF Stated, Effect, OnGraph, OnTables

LEMMA SendsTypes ==
    \A c, a : LET d == Effect(c, Stated("types", a))
              IN  d.graph = Typed(c.graph) /\ d.tables = c.tables
  BY DEF Stated, Effect, OnGraph, OnTables, Typed

LEMMA SendsCitations ==
    \A c, a : LET d == Effect(c, Stated("citations", a))
              IN  d.graph = Cited(c.graph) /\ d.tables = c.tables
  BY DEF Stated, Effect, OnGraph, OnTables, Cited

LEMMA SendsJurisdictions ==
    \A c, a : LET d == Effect(c, Stated("jurisdictions", a))
              IN  d.graph = Widened(c.graph, a) /\ d.tables = c.tables
  BY DEF Stated, Effect, OnGraph, OnTables, Widened

LEMMA SendsMergeTx ==
    \A c, a : LET d == Effect(c, Stated("merge_tx", a))
              IN  d.graph = MergeScoped(c.graph, a, "US-TX") /\ d.tables = c.tables
  BY DEF Stated, Effect, OnGraph, OnTables

LEMMA SendsMergeFl ==
    \A c, a : LET d == Effect(c, Stated("merge_fl", a))
              IN  d.graph = MergeScoped(c.graph, a, "US-FL") /\ d.tables = c.tables
  BY DEF Stated, Effect, OnGraph, OnTables

LEMMA SendsBackfill ==
    \A c, a : LET d == Effect(c, Stated("backfill", a))
              IN  d.graph = Backfill(c.graph) /\ d.tables = c.tables
  BY DEF Stated, Effect, OnGraph, OnTables

LEMMA SendsScopeRest ==
    \A c, a : LET d == Effect(c, Stated("scope_rest", a))
              IN  d.graph = ScopeRest(c.graph) /\ d.tables = c.tables
  BY DEF Stated, Effect, OnGraph, OnTables

LEMMA SendsObligation ==
    \A c, a : LET d == Effect(c, Stated("obligation", a))
              IN  d.graph = Obliged(c.graph, a) /\ d.tables = c.tables
  BY DEF Stated, Effect, OnGraph, OnTables, Obliged

LEMMA SendsConnect ==
    \A c, a : LET d == Effect(c, Stated("connect", a))
              IN  d.graph = Connect(c.graph, {a}) /\ d.tables = c.tables
  BY DEF Stated, Effect, OnGraph, OnTables

LEMMA SendsRetag ==
    \A c, a : LET d == Effect(c, Stated("retag", a))
              IN  d.graph = ScopeFlorida(CodeFlorida(c.graph, a), a) /\ d.tables = c.tables
  BY DEF Stated, Effect, OnGraph, OnTables

LEMMA SendsDelete ==
    \A c, a : LET d == Effect(c, Stated("delete", a))
              IN  d.graph = DetachDelete(c.graph, Unlisted(c.graph, a)) /\ d.tables = c.tables
  BY DEF Stated, Effect, OnGraph, OnTables

LEMMA SendsList ==
    \A c, a : LET d == Effect(c, Stated("list", a))
              IN  d.graph = c.graph /\ d.tables = c.tables
  BY DEF Stated, Effect, OnGraph, OnTables

LEMMA GraphEqual ==
    ASSUME NEW g, NEW k, GraphType(g), GraphType(k), Present(k) = Present(g),
           \A n \in Present(g) : k.node[n] = g.node[n],
           k.links = g.links, k.jurisdictions = g.jurisdictions
    PROVE  k = g
<1>1. k.node = g.node
  BY DEF GraphType
<1> QED
  BY <1>1 DEF GraphType

LEMMA SameEqual ==
    ASSUME NEW g, NEW k, GraphType(g), Same(g, k), \A n \in Present(g) : k.node[n] = g.node[n]
    PROVE  k = g
  BY GraphEqual DEF Same

\* The statements of federal, and what they make of a graph.
FederalOn(g) == Rewire(TagFederal(TagFederal(g, Rules), Lists))

FederalDone(k) ==
    \A n \in Present(k) :
      /\ n \in Federal \intersect (Rules \union Lists) =>
           k.node[n].federal = TRUE /\ k.node[n].code = "US"
      /\ ~(k.node[n].federal /\ "US-TX" \in k.node[n].scope /\ "US" \in k.jurisdictions)

LEMMA FederalAfter ==
    \A c : LET d == After(<<"federal">>, c)
         IN  d.graph = FederalOn(c.graph) /\ d.tables = c.tables
<1> TAKE c
<1> DEFINE p1 == Do("federal", Rules)
           p2 == p1 \o Do("federal", Lists)
           p3 == p2 \o Do("rewire", "US")
           c1 == Send(c, p1)
           c2 == Send(c, p2)
           c3 == Send(c, p3)
<1>1. Sendable(p1) /\ Sendable(p2)
  BY SendableCat
<1>2. After(<<"federal">>, c) = c3
  <2>1. Statements["federal"] = p3
    BY DEF Statements, TagFederalDefaults
  <2>2. After(<<"federal">>, c) = Send(c, Statements["federal"])
    BY AfterOne
  <2> QED
    BY <2>1, <2>2
<1>e. /\ p2 = p1 \o Do("federal", Lists)
      /\ p3 = p2 \o Do("rewire", "US")
  OBVIOUS
<1> HIDE DEF p1, p2, p3
<1>3. c1 = Effect(c, Stated("federal", Rules))
  BY SendOne DEF p1
<1>4. c2 = Effect(c1, Stated("federal", Lists))
  BY <1>1, <1>e, SendMore
<1>5. c3 = Effect(c2, Stated("rewire", "US"))
  BY <1>1, <1>e, SendMore
<1> HIDE DEF c1, c2, c3
<1>6. /\ c1.graph = TagFederal(c.graph, Rules)
      /\ c1.tables = c.tables
  BY <1>3, SendsFederal
<1>7. /\ c2.graph = TagFederal(c1.graph, Lists)
      /\ c2.tables = c1.tables
  BY <1>4, SendsFederal
<1>8. /\ c3.graph = Rewire(c2.graph)
      /\ c3.tables = c2.tables
  BY <1>5, SendsRewire
<1> QED
  BY <1>2, <1>6, <1>7, <1>8 DEF FederalOn

LEMMA TaggedIs ==
    \A p \in Properties : Tagged(p).federal = TRUE /\ Tagged(p).code = "US"
  BY ZenonT(60) DEF Tagged, Properties

LEMMA FederalDoes ==
    ASSUME NEW g, GraphType(g)
    PROVE  GraphType(FederalOn(g)) /\ FederalDone(FederalOn(g))
<1> DEFINE g1 == TagFederal(g, Rules)
           g2 == TagFederal(g1, Lists)
           k == Rewire(g2)
<1>1. Same(g, g1) /\ \A n \in Present(g) :
        g1.node[n] = IF n \in Federal \intersect Rules THEN Tagged(g.node[n]) ELSE g.node[n]
  BY FederalIs
<1> HIDE DEF g1
<1>2. Same(g1, g2) /\ \A n \in Present(g1) :
        g2.node[n] = IF n \in Federal \intersect Lists THEN Tagged(g1.node[n]) ELSE g1.node[n]
  BY <1>1, FederalIs DEF Same
<1> HIDE DEF g2
<1>3. /\ Same(g2, k)
      /\ \A n \in Present(g2) : k.node[n] =
           IF g2.node[n].federal /\ "US-TX" \in g2.node[n].scope /\ "US" \in g2.jurisdictions
           THEN [g2.node[n] EXCEPT !.scope = Rewired(g2, g2.node[n])] ELSE g2.node[n]
  BY <1>2, RewireIs DEF Same
<1> HIDE DEF k
<1>4. ASSUME NEW n \in Present(k)
      PROVE  /\ n \in Federal \intersect (Rules \union Lists) =>
                  k.node[n].federal = TRUE /\ k.node[n].code = "US"
             /\ ~(k.node[n].federal /\ "US-TX" \in k.node[n].scope /\ "US" \in k.jurisdictions)
  <2>1. n \in Present(g) /\ n \in Present(g1) /\ n \in Present(g2)
    BY <1>1, <1>2, <1>3, <1>4 DEF Same
  <2>2. g.node[n] \in Properties /\ g1.node[n] \in Properties /\ g2.node[n] \in Properties
    BY <1>1, <1>2, <2>1, NodeType DEF Same
  <2>3. n \in Federal \intersect Rules => g1.node[n].federal = TRUE /\ g1.node[n].code = "US"
    BY <1>1, <2>1, <2>2, TaggedIs
  <2>4. n \in Federal \intersect (Rules \union Lists) =>
          g2.node[n].federal = TRUE /\ g2.node[n].code = "US"
    BY <1>2, <2>1, <2>2, <2>3, TaggedIs
  <2>5. k.node[n].federal = g2.node[n].federal /\ k.node[n].code = g2.node[n].code
    <3>1. \/ k.node[n] = g2.node[n]
          \/ k.node[n] = [g2.node[n] EXCEPT !.scope = Rewired(g2, g2.node[n])]
      BY <1>3, <2>1
    <3> QED
      BY <2>2, <3>1 DEF Properties
  <2>6. ~(k.node[n].federal /\ "US-TX" \in k.node[n].scope /\ "US" \in k.jurisdictions)
    <3>1. k.jurisdictions = g2.jurisdictions
      BY <1>3 DEF Same
    <3>2. g2.node[n].federal /\ "US-TX" \in g2.node[n].scope /\ "US" \in g2.jurisdictions =>
            "US-TX" \notin k.node[n].scope
      <4> DEFINE p == g2.node[n]
                 q == [p EXCEPT !.scope = Rewired(g2, p)]
      <4>1. q.scope = (p.scope \ {"US-TX"}) \union {"US"}
        BY <2>2 DEF Properties, Rewired
      <4>2. p.federal /\ "US-TX" \in p.scope /\ "US" \in g2.jurisdictions => k.node[n] = q
        BY <1>3, <2>1
      <4> HIDE DEF q
      <4> QED
        BY <4>1, <4>2
    <3>3. ~(g2.node[n].federal /\ "US-TX" \in g2.node[n].scope /\ "US" \in g2.jurisdictions) =>
            k.node[n] = g2.node[n]
      BY <1>3, <2>1
    <3> QED
      BY <2>5, <3>1, <3>2, <3>3
  <2> QED
    BY <2>4, <2>5, <2>6
<1>5. GraphType(k)
  BY <1>3 DEF Same
<1> QED
  BY <1>4, <1>5 DEF FederalOn, FederalDone, k, g2, g1

LEMMA FederalAgain ==
    ASSUME NEW k, GraphType(k), FederalDone(k)
    PROVE  FederalOn(k) = k
<1>1. ASSUME NEW N, N = Rules \/ N = Lists
      PROVE  TagFederal(k, N) = k
  <2>1. Same(k, TagFederal(k, N)) /\ \A n \in Present(k) : TagFederal(k, N).node[n] =
          IF n \in Federal \intersect N THEN Tagged(k.node[n]) ELSE k.node[n]
    BY FederalIs
  <2>2. ASSUME NEW n \in Present(k)
        PROVE  TagFederal(k, N).node[n] = k.node[n]
    <3>1. k.node[n] \in Properties
      BY NodeType
    <3>2. n \in Federal \intersect N => Tagged(k.node[n]) = k.node[n]
      BY <1>1, <3>1 DEF FederalDone, Tagged, Properties
    <3> QED
      BY <2>1, <3>2
  <2> QED
    BY <2>1, <2>2, SameEqual
<1>2. Rewire(k) = k
  <2>1. /\ Same(k, Rewire(k))
        /\ \A n \in Present(k) : Rewire(k).node[n] =
             IF k.node[n].federal /\ "US-TX" \in k.node[n].scope /\ "US" \in k.jurisdictions
             THEN [k.node[n] EXCEPT !.scope = Rewired(k, k.node[n])] ELSE k.node[n]
    BY RewireIs
  <2>2. \A n \in Present(k) : Rewire(k).node[n] = k.node[n]
    BY <2>1 DEF FederalDone
  <2> QED
    BY <2>1, <2>2, SameEqual
<1> QED
  BY <1>1, <1>2 DEF FederalOn

-----------------------------------------------------------------------------
(* seed_jurisdictions.                                                     *)

\* A node that is merged applies in its jurisdiction, and merging it again does nothing.
LEMMA ScopedDoes ==
    ASSUME NEW g, GraphType(g), NEW n \in Nodes, NEW j \in Jurisdictions
    PROVE  LET k == MergeScoped(g, n, j)
           IN  /\ GraphType(k) /\ Present(k) = Present(g) \union {n}
               /\ k.links = g.links /\ k.jurisdictions = g.jurisdictions
               /\ \A m \in Present(g) : g.node[m].scope \subseteq k.node[m].scope
               /\ Known(g, j) \subseteq k.node[n].scope
<1> DEFINE k == MergeScoped(g, n, j)
           old == IF n \in Present(g) THEN g.node[n] ELSE [Fresh EXCEPT !.code = j]
<1>1. /\ GraphType(k) /\ Present(k) = Present(g) \union {n}
      /\ k.links = g.links /\ k.jurisdictions = g.jurisdictions
      /\ \A m \in Present(g) \ {n} : k.node[m] = g.node[m]
      /\ k.node[n] = [old EXCEPT !.scope = @ \union Known(g, j)]
  BY MergeScopedIs
<1>2. old \in Properties /\ (n \in Present(g) => old = g.node[n])
  BY NodeType, FreshType
<1> HIDE DEF k, old
<1>3. k.node[n].scope = old.scope \union Known(g, j)
  BY <1>1, <1>2 DEF Properties
<1>4. \A m \in Present(g) : g.node[m].scope \subseteq k.node[m].scope
  BY <1>1, <1>2, <1>3
<1> QED
  BY <1>1, <1>3, <1>4 DEF k

LEMMA ScopedAgain ==
    ASSUME NEW k, GraphType(k), NEW n \in Present(k), NEW j \in Jurisdictions,
           Known(k, j) \subseteq k.node[n].scope
    PROVE  MergeScoped(k, n, j) = k
<1> DEFINE m == MergeScoped(k, n, j)
           p == k.node[n]
<1>1. p \in Properties /\ n \in Nodes
  BY NodeType DEF GraphType
<1>2. /\ GraphType(m) /\ Present(m) = Present(k) \union {n}
      /\ m.links = k.links /\ m.jurisdictions = k.jurisdictions
      /\ \A i \in Present(k) \ {n} : m.node[i] = k.node[i]
      /\ m.node[n] = [p EXCEPT !.scope = @ \union Known(k, j)]
  BY <1>1, MergeScopedIs
<1>3. p.scope \union Known(k, j) = p.scope
  OBVIOUS
<1> HIDE DEF m, p
<1>4. m.node[n] = p
  BY <1>1, <1>2, <1>3 DEF Properties
<1>5. Present(m) = Present(k) /\ \A i \in Present(k) : m.node[i] = k.node[i]
  BY <1>2, <1>4 DEF p
<1>6. m = k
  BY <1>2, <1>5, GraphEqual
<1> QED
  BY <1>6 DEF m

LEMMA KnownAgain ==
    ASSUME NEW k, GraphType(k), NEW J, J \subseteq k.jurisdictions
    PROVE  Widened(k, J) = k
<1>1. k.jurisdictions \union J = k.jurisdictions
  OBVIOUS
<1> QED
  BY <1>1 DEF GraphType, Widened

JurisdictionsOn(g) ==
    ScopeRest(Backfill(MergeScoped(MergeScoped(
      Widened(g, {"US", "US-TX"}), "TDI", "US-TX"), "TICO", "US-TX")))

JurisdictionsDone(k) ==
    /\ {"US", "US-TX"} \subseteq k.jurisdictions
    /\ \A n \in {"TDI", "TICO"} : n \in Present(k) /\ "US-TX" \in k.node[n].scope
    /\ \A n \in Present(k) : k.node[n].code # "null" /\ k.node[n].scope # {}

LEMMA JurisdictionsAfter ==
    \A c : LET d == After(<<"jurisdictions">>, c)
         IN  d.graph = JurisdictionsOn(c.graph) /\ d.tables = c.tables
<1> TAKE c
<1> DEFINE p1 == Do("jurisdictions", {"US", "US-TX"})
           p2 == p1 \o Do("merge_tx", "TDI")
           p3 == p2 \o Do("merge_tx", "TICO")
           p4 == p3 \o Do("backfill", "null")
           p5 == p4 \o Do("scope_rest", "US-TX")
           c1 == Send(c, p1)
           c2 == Send(c, p2)
           c3 == Send(c, p3)
           c4 == Send(c, p4)
           c5 == Send(c, p5)
<1>1. Sendable(p1) /\ Sendable(p2) /\ Sendable(p3) /\ Sendable(p4)
  BY SendableCat
<1>2. After(<<"jurisdictions">>, c) = c5
  <2>1. Statements["jurisdictions"] = p5
    BY DEF Statements, SeedJurisdictions
  <2>2. After(<<"jurisdictions">>, c) = Send(c, Statements["jurisdictions"])
    BY AfterOne
  <2> QED
    BY <2>1, <2>2
<1>e. /\ p2 = p1 \o Do("merge_tx", "TDI")
      /\ p3 = p2 \o Do("merge_tx", "TICO")
      /\ p4 = p3 \o Do("backfill", "null")
      /\ p5 = p4 \o Do("scope_rest", "US-TX")
  OBVIOUS
<1> HIDE DEF p1, p2, p3, p4, p5
<1>3. c1 = Effect(c, Stated("jurisdictions", {"US", "US-TX"}))
  BY SendOne DEF p1
<1>4. c2 = Effect(c1, Stated("merge_tx", "TDI"))
  BY <1>1, <1>e, SendMore
<1>5. c3 = Effect(c2, Stated("merge_tx", "TICO"))
  BY <1>1, <1>e, SendMore
<1>6. c4 = Effect(c3, Stated("backfill", "null"))
  BY <1>1, <1>e, SendMore
<1>7. c5 = Effect(c4, Stated("scope_rest", "US-TX"))
  BY <1>1, <1>e, SendMore
<1> HIDE DEF c1, c2, c3, c4, c5
<1>8. /\ c1.graph = Widened(c.graph, {"US", "US-TX"})
      /\ c1.tables = c.tables
  BY <1>3, SendsJurisdictions
<1>9. /\ c2.graph = MergeScoped(c1.graph, "TDI", "US-TX")
      /\ c2.tables = c1.tables
  BY <1>4, SendsMergeTx
<1>10. /\ c3.graph = MergeScoped(c2.graph, "TICO", "US-TX")
       /\ c3.tables = c2.tables
  BY <1>5, SendsMergeTx
<1>11. /\ c4.graph = Backfill(c3.graph)
       /\ c4.tables = c3.tables
  BY <1>6, SendsBackfill
<1>12. /\ c5.graph = ScopeRest(c4.graph)
       /\ c5.tables = c4.tables
  BY <1>7, SendsScopeRest
<1> QED
  BY <1>2, <1>8, <1>9, <1>10, <1>11, <1>12 DEF JurisdictionsOn

LEMMA JurisdictionsDo ==
    ASSUME NEW g, GraphType(g)
    PROVE  GraphType(JurisdictionsOn(g)) /\ JurisdictionsDone(JurisdictionsOn(g))
<1> DEFINE g1 == Widened(g, {"US", "US-TX"})
           g2 == MergeScoped(g1, "TDI", "US-TX")
           g3 == MergeScoped(g2, "TICO", "US-TX")
           g4 == Backfill(g3)
           k == ScopeRest(g4)
<1>0. /\ "TDI" \in Nodes /\ "TICO" \in Nodes /\ "US-TX" \in Jurisdictions
      /\ {"US", "US-TX"} \in SUBSET Jurisdictions
  BY NodesKinds DEF Infrastructure, Jurisdictions, States
<1>1. GraphType(g1) /\ g1.jurisdictions = g.jurisdictions \union {"US", "US-TX"}
  BY <1>0, JurisdictionsType DEF Widened
<1> HIDE DEF g1
<1>2. /\ GraphType(g2) /\ Present(g2) = Present(g1) \union {"TDI"}
      /\ g2.jurisdictions = g1.jurisdictions
      /\ Known(g1, "US-TX") \subseteq g2.node["TDI"].scope
  BY <1>0, <1>1, ScopedDoes
<1> HIDE DEF g2
<1>3. /\ GraphType(g3) /\ Present(g3) = Present(g2) \union {"TICO"}
      /\ g3.jurisdictions = g2.jurisdictions
      /\ \A m \in Present(g2) : g2.node[m].scope \subseteq g3.node[m].scope
      /\ Known(g2, "US-TX") \subseteq g3.node["TICO"].scope
  BY <1>0, <1>2, ScopedDoes
<1> HIDE DEF g3
<1>4. Same(g3, g4) /\ \A n \in Present(g3) : g4.node[n] =
        IF g3.node[n].code = "null" THEN [g3.node[n] EXCEPT !.code = "US-TX"] ELSE g3.node[n]
  BY <1>3, BackfillIs
<1> HIDE DEF g4
<1>5. Same(g4, k) /\ \A n \in Present(g4) : k.node[n] =
        IF g4.node[n].scope = {} THEN [g4.node[n] EXCEPT !.scope = Known(g4, "US-TX")]
        ELSE g4.node[n]
  BY <1>4, RestIs DEF Same
<1> HIDE DEF k
<1>6. /\ GraphType(k) /\ Present(k) = Present(g3) /\ Present(g4) = Present(g3)
      /\ {"US", "US-TX"} \subseteq k.jurisdictions
      /\ k.jurisdictions = g4.jurisdictions /\ GraphType(g4)
  BY <1>1, <1>2, <1>3, <1>4, <1>5 DEF Same
<1>7. "TDI" \in Present(k) /\ "TICO" \in Present(k)
  BY <1>2, <1>3, <1>6
<1>8. "US-TX" \in g3.node["TDI"].scope /\ "US-TX" \in g3.node["TICO"].scope
  BY <1>1, <1>2, <1>3 DEF Known
<1>9. Known(g4, "US-TX") = {"US-TX"}
  BY <1>6 DEF Known
<1>10. ASSUME NEW n \in Present(k)
       PROVE  /\ k.node[n].code # "null" /\ k.node[n].scope # {}
              /\ g3.node[n].scope # {} => k.node[n].scope = g3.node[n].scope
  <2> DEFINE p == g3.node[n]
             q == g4.node[n]
             t == k.node[n]
  <2>1. p \in Properties
    BY <1>3, <1>6, NodeType
  <2>2. q = IF p.code = "null" THEN [p EXCEPT !.code = "US-TX"] ELSE p
    BY <1>4, <1>6
  <2>3. t = IF q.scope = {} THEN [q EXCEPT !.scope = {"US-TX"}] ELSE q
    BY <1>5, <1>6, <1>9
  <2> HIDE DEF p, q, t
  <2>4. q \in Properties /\ q.code # "null" /\ q.scope = p.scope
    BY <2>1, <2>2 DEF Properties, Jurisdictions, States
  <2>5. t.code # "null" /\ t.scope # {} /\ (p.scope # {} => t.scope = p.scope)
    BY <2>3, <2>4 DEF Properties
  <2> QED
    BY <2>5 DEF p, q, t
<1>11. JurisdictionsDone(k)
  BY <1>6, <1>7, <1>8, <1>10 DEF JurisdictionsDone
<1> QED
  BY <1>6, <1>11 DEF JurisdictionsOn, k, g4, g3, g2, g1

LEMMA JurisdictionsAgain ==
    ASSUME NEW k, GraphType(k), JurisdictionsDone(k)
    PROVE  JurisdictionsOn(k) = k
<1>0. "US-TX" \in Jurisdictions
  BY DEF Jurisdictions, States
<1>1. Widened(k, {"US", "US-TX"}) = k
  BY KnownAgain DEF JurisdictionsDone
<1>2. ASSUME NEW n, n = "TDI" \/ n = "TICO"
      PROVE  MergeScoped(k, n, "US-TX") = k
  <2>1. n \in Present(k) /\ Known(k, "US-TX") \subseteq k.node[n].scope
    BY <1>2 DEF JurisdictionsDone, Known
  <2> QED
    BY <1>0, <2>1, ScopedAgain
<1>3. Backfill(k) = k
  <2>1. Same(k, Backfill(k)) /\ \A n \in Present(k) : Backfill(k).node[n] =
          IF k.node[n].code = "null" THEN [k.node[n] EXCEPT !.code = "US-TX"] ELSE k.node[n]
    BY BackfillIs
  <2>2. \A n \in Present(k) : Backfill(k).node[n] = k.node[n]
    BY <2>1 DEF JurisdictionsDone
  <2> QED
    BY <2>1, <2>2, SameEqual
<1>4. ScopeRest(k) = k
  <2>1. Same(k, ScopeRest(k)) /\ \A n \in Present(k) : ScopeRest(k).node[n] =
          IF k.node[n].scope = {} THEN [k.node[n] EXCEPT !.scope = Known(k, "US-TX")]
          ELSE k.node[n]
    BY RestIs
  <2>2. \A n \in Present(k) : ScopeRest(k).node[n] = k.node[n]
    BY <2>1 DEF JurisdictionsDone
  <2> QED
    BY <2>1, <2>2, SameEqual
<1> QED
  BY <1>1, <1>2, <1>3, <1>4 DEF JurisdictionsOn

-----------------------------------------------------------------------------
(* seed_florida and seed_filing_obligations.                               *)

LEMMA RetagAgain ==
    ASSUME NEW k, NEW p \in Properties, "US-FL" \in k.jurisdictions
    PROVE  /\ Retagged(k, p).code = "US-FL" /\ "US-FL" \in Retagged(k, p).scope
           /\ "US-TX" \notin Retagged(k, p).scope
           /\ p.code = "US-FL" /\ "US-FL" \in p.scope /\ "US-TX" \notin p.scope =>
                Retagged(k, p) = p
<1>1. Known(k, "US-FL") = {"US-FL"}
  BY DEF Known
<1> DEFINE s == (p.scope \ {"US-TX"}) \union {"US-FL"}
           q == [p EXCEPT !.code = "US-FL", !.scope = s]
<1>2. Retagged(k, p) = q
  BY <1>1 DEF Retagged
<1>3. q.code = "US-FL" /\ q.scope = s
  BY DEF Properties
<1>4. p.code = "US-FL" /\ p.scope = s => q = p
  BY DEF Properties
<1>5. "US-FL" \in p.scope /\ "US-TX" \notin p.scope => p.scope = s
  OBVIOUS
<1> HIDE DEF q
<1> QED
  BY <1>2, <1>3, <1>4, <1>5

FloridaOn(g) ==
    LET k == MergeScoped(Widened(g, {"US-FL"}), "FL-OIR", "US-FL")
    IN  ScopeFlorida(CodeFlorida(k, Florida), Florida)

FloridaDone(k) ==
    /\ "US-FL" \in k.jurisdictions
    /\ "FL-OIR" \in Present(k) /\ "US-FL" \in k.node["FL-OIR"].scope
    /\ \A n \in Present(k) \intersect Florida :
         k.node[n].code = "US-FL" /\ "US-FL" \in k.node[n].scope /\ "US-TX" \notin k.node[n].scope

LEMMA FloridaAfter ==
    \A c : LET d == After(<<"florida">>, c)
         IN  d.graph = FloridaOn(c.graph) /\ d.tables = c.tables
<1> TAKE c
<1> DEFINE p1 == Do("jurisdictions", {"US-FL"})
           p2 == p1 \o Do("merge_fl", "FL-OIR")
           p3 == p2 \o Do("retag", Florida)
           c1 == Send(c, p1)
           c2 == Send(c, p2)
           c3 == Send(c, p3)
<1>1. Sendable(p1) /\ Sendable(p2)
  BY SendableCat
<1>2. After(<<"florida">>, c) = c3
  <2>1. Statements["florida"] = p3
    BY DEF Statements, SeedFlorida, Scaffolding
  <2>2. After(<<"florida">>, c) = Send(c, Statements["florida"])
    BY AfterOne
  <2> QED
    BY <2>1, <2>2
<1>e. /\ p2 = p1 \o Do("merge_fl", "FL-OIR")
      /\ p3 = p2 \o Do("retag", Florida)
  OBVIOUS
<1> HIDE DEF p1, p2, p3
<1>3. c1 = Effect(c, Stated("jurisdictions", {"US-FL"}))
  BY SendOne DEF p1
<1>4. c2 = Effect(c1, Stated("merge_fl", "FL-OIR"))
  BY <1>1, <1>e, SendMore
<1>5. c3 = Effect(c2, Stated("retag", Florida))
  BY <1>1, <1>e, SendMore
<1> HIDE DEF c1, c2, c3
<1>6. /\ c1.graph = Widened(c.graph, {"US-FL"})
      /\ c1.tables = c.tables
  BY <1>3, SendsJurisdictions
<1>7. /\ c2.graph = MergeScoped(c1.graph, "FL-OIR", "US-FL")
      /\ c2.tables = c1.tables
  BY <1>4, SendsMergeFl
<1>8. /\ c3.graph = ScopeFlorida(CodeFlorida(c2.graph, Florida), Florida)
      /\ c3.tables = c2.tables
  BY <1>5, SendsRetag
<1> QED
  BY <1>2, <1>6, <1>7, <1>8 DEF FloridaOn

LEMMA FloridaDoes ==
    ASSUME NEW g, GraphType(g)
    PROVE  GraphType(FloridaOn(g)) /\ FloridaDone(FloridaOn(g))
<1> DEFINE g1 == Widened(g, {"US-FL"})
           g2 == MergeScoped(g1, "FL-OIR", "US-FL")
           k == ScopeFlorida(CodeFlorida(g2, Florida), Florida)
<1>0. "FL-OIR" \in Nodes /\ "US-FL" \in Jurisdictions /\ {"US-FL"} \in SUBSET Jurisdictions
  BY NodesKinds DEF Infrastructure, Jurisdictions, States
<1>1. GraphType(g1) /\ g1.jurisdictions = g.jurisdictions \union {"US-FL"}
  BY <1>0, JurisdictionsType DEF Widened
<1> HIDE DEF g1
<1>2. /\ GraphType(g2) /\ Present(g2) = Present(g1) \union {"FL-OIR"}
      /\ g2.jurisdictions = g1.jurisdictions
      /\ Known(g1, "US-FL") \subseteq g2.node["FL-OIR"].scope
  BY <1>0, <1>1, ScopedDoes
<1> HIDE DEF g2
<1>3. Same(g2, k) /\ \A n \in Present(g2) : k.node[n] =
        IF n \in Florida THEN Retagged(g2, g2.node[n]) ELSE g2.node[n]
  BY <1>2, RetagIs
<1> HIDE DEF k
<1>4. /\ GraphType(k) /\ Present(k) = Present(g2) /\ "US-FL" \in g2.jurisdictions
      /\ "US-FL" \in k.jurisdictions /\ "FL-OIR" \in Present(k)
  BY <1>1, <1>2, <1>3 DEF Same
<1>5. ASSUME NEW n \in Present(k), n \in Florida
      PROVE  /\ k.node[n].code = "US-FL" /\ "US-FL" \in k.node[n].scope
             /\ "US-TX" \notin k.node[n].scope
  <2>1. g2.node[n] \in Properties
    BY <1>2, <1>4, NodeType
  <2>2. k.node[n] = Retagged(g2, g2.node[n])
    BY <1>3, <1>4, <1>5
  <2> QED
    BY <1>4, <2>1, <2>2, RetagAgain
<1>6. "US-FL" \in k.node["FL-OIR"].scope
  <2>1. "US-FL" \in g2.node["FL-OIR"].scope
    BY <1>1, <1>2 DEF Known
  <2>2. "FL-OIR" \notin Florida => k.node["FL-OIR"] = g2.node["FL-OIR"]
    BY <1>3, <1>4
  <2> QED
    BY <1>4, <1>5, <2>1, <2>2
<1>7. FloridaDone(k)
  BY <1>4, <1>5, <1>6 DEF FloridaDone
<1> QED
  BY <1>4, <1>7 DEF FloridaOn, k, g2, g1

LEMMA FloridaAgain ==
    ASSUME NEW k, GraphType(k), FloridaDone(k)
    PROVE  FloridaOn(k) = k
<1>0. "US-FL" \in Jurisdictions
  BY DEF Jurisdictions, States
<1>1. Widened(k, {"US-FL"}) = k
  BY KnownAgain DEF FloridaDone
<1>2. MergeScoped(k, "FL-OIR", "US-FL") = k
  <2>1. "FL-OIR" \in Present(k) /\ Known(k, "US-FL") \subseteq k.node["FL-OIR"].scope
    BY DEF FloridaDone, Known
  <2> QED
    BY <1>0, <2>1, ScopedAgain
<1> DEFINE m == ScopeFlorida(CodeFlorida(k, Florida), Florida)
<1>3. Same(k, m) /\ \A n \in Present(k) : m.node[n] =
        IF n \in Florida THEN Retagged(k, k.node[n]) ELSE k.node[n]
  BY RetagIs
<1>4. ASSUME NEW n \in Present(k)
      PROVE  m.node[n] = k.node[n]
  <2>1. k.node[n] \in Properties
    BY NodeType
  <2>2. n \in Florida => Retagged(k, k.node[n]) = k.node[n]
    BY <2>1, RetagAgain DEF FloridaDone
  <2> QED
    BY <1>3, <2>2
<1>5. m = k
  <2> HIDE DEF m
  <2> QED
    BY <1>3, <1>4, SameEqual
<1> QED
  BY <1>1, <1>2, <1>5 DEF FloridaOn

LEMMA ObligedDoes ==
    ASSUME NEW g, GraphType(g), NEW m \in Nodes
    PROVE  /\ GraphType(Obliged(g, m)) /\ Present(Obliged(g, m)) = Present(g) \union {m}
           /\ Obliged(g, m).links = g.links /\ Obliged(g, m).jurisdictions = g.jurisdictions
           /\ \A n \in Present(g) : Obliged(g, m).node[n] = g.node[n]
<1> DEFINE f == [n \in {m} |-> Fresh]
<1>1. f \in [{m} -> Properties] /\ {m} \in SUBSET Nodes
  BY FreshType
<1>2. Obliged(g, m) = Merge(g, f)
  BY DEF Obliged
<1> HIDE DEF f
<1> QED
  BY <1>1, <1>2, MergeType

LEMMA ObligedAgain ==
    ASSUME NEW k, GraphType(k), NEW m \in Present(k)
    PROVE  Obliged(k, m) = k
<1>1. m \in Nodes
  BY DEF GraphType
<1>2. /\ GraphType(Obliged(k, m)) /\ Present(Obliged(k, m)) = Present(k)
      /\ Obliged(k, m).links = k.links /\ Obliged(k, m).jurisdictions = k.jurisdictions
      /\ \A n \in Present(k) : Obliged(k, m).node[n] = k.node[n]
  <2>1. Present(k) \union {m} = Present(k)
    OBVIOUS
  <2> QED
    BY <1>1, <2>1, ObligedDoes
<1> QED
  BY <1>2, GraphEqual

LEMMA ConnectDoes ==
    ASSUME NEW g, GraphType(g), NEW l \in Links
    PROVE  /\ GraphType(Connect(g, {l})) /\ Connect(g, {l}).node = g.node
           /\ Present(Connect(g, {l})) = Present(g)
           /\ Connect(g, {l}).jurisdictions = g.jurisdictions
           /\ g.links \subseteq Connect(g, {l}).links
           /\ l[1] \in Present(g) /\ l[2] \in Present(g) => l \in Connect(g, {l}).links
<1>1. {l} \in SUBSET Links
  OBVIOUS
<1>2. /\ GraphType(Connect(g, {l})) /\ Connect(g, {l}).node = g.node
      /\ Connect(g, {l}).jurisdictions = g.jurisdictions
  BY <1>1, ConnectType
<1>3. Connect(g, {l}).links =
        g.links \union {i \in {l} : i[1] \in Present(g) /\ i[2] \in Present(g)}
  BY DEF Connect, GraphType
<1> QED
  BY <1>2, <1>3 DEF Present

LEMMA ConnectAgain ==
    ASSUME NEW k, GraphType(k), NEW l,
           l[1] \in Present(k) /\ l[2] \in Present(k) => l \in k.links
    PROVE  Connect(k, {l}) = k
<1>1. k.links \union {i \in {l} : i[1] \in Present(k) /\ i[2] \in Present(k)} = k.links
  OBVIOUS
<1> QED
  BY <1>1 DEF Connect, GraphType

ObligationsOn(g) ==
    LET a == Obliged(MergeScoped(g, "Lone Star Mutual", "US-TX"), "obligation")
        b == Connect(a, {<<"obligation", "Lone Star Mutual">>})
    IN  MergeScoped(Connect(b, {<<"obligation", "TICO">>}), "obligation", "US-TX")

ObligationsDone(k) ==
    /\ \A n \in {"Lone Star Mutual", "obligation"} :
         n \in Present(k) /\ Known(k, "US-TX") \subseteq k.node[n].scope
    /\ <<"obligation", "Lone Star Mutual">> \in k.links
    /\ "TICO" \in Present(k) => <<"obligation", "TICO">> \in k.links

LEMMA ObligationsAfter ==
    \A c : LET d == After(<<"obligations">>, c)
         IN  d.graph = ObligationsOn(c.graph) /\ d.tables = c.tables
<1> TAKE c
<1> DEFINE m == "Lone Star Mutual"
           n == "obligation"
           l1 == <<"obligation", "Lone Star Mutual">>
           l2 == <<"obligation", "TICO">>
           p1 == Do("merge_tx", m)
           p2 == p1 \o Do("obligation", n)
           p3 == p2 \o Do("connect", l1)
           p4 == p3 \o Do("connect", l2)
           p5 == p4 \o Do("merge_tx", n)
           c1 == Send(c, p1)
           c2 == Send(c, p2)
           c3 == Send(c, p3)
           c4 == Send(c, p4)
           c5 == Send(c, p5)
<1>1. Sendable(p1) /\ Sendable(p2) /\ Sendable(p3) /\ Sendable(p4)
  BY SendableCat
<1>2. After(<<"obligations">>, c) = c5
  <2>1. Statements["obligations"] = p5
    BY DEF Statements, SeedFilingObligations
  <2>2. After(<<"obligations">>, c) = Send(c, Statements["obligations"])
    BY AfterOne
  <2> QED
    BY <2>1, <2>2
<1>e. /\ p2 = p1 \o Do("obligation", n)
      /\ p3 = p2 \o Do("connect", l1)
      /\ p4 = p3 \o Do("connect", l2)
      /\ p5 = p4 \o Do("merge_tx", n)
  OBVIOUS
<1> HIDE DEF p1, p2, p3, p4, p5, m, n, l1, l2
<1>3. c1 = Effect(c, Stated("merge_tx", m))
  BY SendOne DEF p1
<1>4. c2 = Effect(c1, Stated("obligation", n))
  BY <1>1, <1>e, SendMore
<1>5. c3 = Effect(c2, Stated("connect", l1))
  BY <1>1, <1>e, SendMore
<1>6. c4 = Effect(c3, Stated("connect", l2))
  BY <1>1, <1>e, SendMore
<1>7. c5 = Effect(c4, Stated("merge_tx", n))
  BY <1>1, <1>e, SendMore
<1> HIDE DEF c1, c2, c3, c4, c5
<1>8. /\ c1.graph = MergeScoped(c.graph, m, "US-TX")
      /\ c1.tables = c.tables
  BY <1>3, SendsMergeTx
<1>9. /\ c2.graph = Obliged(c1.graph, n)
      /\ c2.tables = c1.tables
  BY <1>4, SendsObligation
<1>10. /\ c3.graph = Connect(c2.graph, {l1})
       /\ c3.tables = c2.tables
  BY <1>5, SendsConnect
<1>11. /\ c4.graph = Connect(c3.graph, {l2})
       /\ c4.tables = c3.tables
  BY <1>6, SendsConnect
<1>12. /\ c5.graph = MergeScoped(c4.graph, n, "US-TX")
       /\ c5.tables = c4.tables
  BY <1>7, SendsMergeTx
<1> QED
  BY <1>2, <1>8, <1>9, <1>10, <1>11, <1>12 DEF ObligationsOn, m, n, l1, l2

LEMMA ObligationsDo ==
    ASSUME NEW g, GraphType(g)
    PROVE  GraphType(ObligationsOn(g)) /\ ObligationsDone(ObligationsOn(g))
<1> DEFINE l1 == <<"obligation", "Lone Star Mutual">>
           l2 == <<"obligation", "TICO">>
           g1 == MergeScoped(g, "Lone Star Mutual", "US-TX")
           g2 == Obliged(g1, "obligation")
           g3 == Connect(g2, {l1})
           g4 == Connect(g3, {l2})
           k == MergeScoped(g4, "obligation", "US-TX")
<1>0. /\ "Lone Star Mutual" \in Nodes /\ "obligation" \in Nodes /\ "TICO" \in Nodes
      /\ "US-TX" \in Jurisdictions
  BY NodesKinds DEF Infrastructure, Jurisdictions, States
<1>l. l1 \in Links /\ l2 \in Links
  BY <1>0 DEF Links
<1>t. /\ l1[1] = "obligation" /\ l1[2] = "Lone Star Mutual"
      /\ l2[1] = "obligation" /\ l2[2] = "TICO"
  OBVIOUS
<1> HIDE DEF l1, l2
<1>1. /\ GraphType(g1) /\ Present(g1) = Present(g) \union {"Lone Star Mutual"}
      /\ g1.jurisdictions = g.jurisdictions
      /\ Known(g, "US-TX") \subseteq g1.node["Lone Star Mutual"].scope
  BY <1>0, ScopedDoes
<1> HIDE DEF g1
<1>2. /\ GraphType(g2) /\ Present(g2) = Present(g1) \union {"obligation"}
      /\ g2.jurisdictions = g1.jurisdictions
      /\ \A n \in Present(g1) : g2.node[n] = g1.node[n]
  BY <1>0, <1>1, ObligedDoes
<1> HIDE DEF g2
<1>3. /\ GraphType(g3) /\ g3.node = g2.node /\ Present(g3) = Present(g2)
      /\ g3.jurisdictions = g2.jurisdictions
      /\ l1[1] \in Present(g2) /\ l1[2] \in Present(g2) => l1 \in g3.links
  BY <1>2, <1>l, ConnectDoes
<1> HIDE DEF g3
<1>4. /\ GraphType(g4) /\ g4.node = g3.node /\ Present(g4) = Present(g3)
      /\ g4.jurisdictions = g3.jurisdictions /\ g3.links \subseteq g4.links
      /\ l2[1] \in Present(g3) /\ l2[2] \in Present(g3) => l2 \in g4.links
  BY <1>3, <1>l, ConnectDoes
<1> HIDE DEF g4
<1>5. /\ GraphType(k) /\ Present(k) = Present(g4) \union {"obligation"}
      /\ k.links = g4.links /\ k.jurisdictions = g4.jurisdictions
      /\ \A m \in Present(g4) : g4.node[m].scope \subseteq k.node[m].scope
      /\ Known(g4, "US-TX") \subseteq k.node["obligation"].scope
  BY <1>0, <1>4, ScopedDoes
<1> HIDE DEF k
<1>6. /\ "Lone Star Mutual" \in Present(g4) /\ "obligation" \in Present(g4)
      /\ Present(k) = Present(g4)
      /\ Present(g2) = Present(g4) /\ Present(g3) = Present(g4)
  BY <1>1, <1>2, <1>3, <1>4, <1>5
<1>7. Known(k, "US-TX") = Known(g, "US-TX") /\ Known(k, "US-TX") = Known(g4, "US-TX")
  BY <1>1, <1>2, <1>3, <1>4, <1>5 DEF Known
<1>8. Known(k, "US-TX") \subseteq k.node["Lone Star Mutual"].scope
  <2>1. g4.node["Lone Star Mutual"] = g1.node["Lone Star Mutual"]
    BY <1>1, <1>2, <1>3, <1>4
  <2> QED
    BY <1>1, <1>5, <1>6, <1>7, <2>1
<1>9. l1 \in k.links
  BY <1>t, <1>3, <1>4, <1>5, <1>6
<1>10. "TICO" \in Present(k) => l2 \in k.links
  BY <1>t, <1>4, <1>5, <1>6
<1>11. ObligationsDone(k)
  BY <1>5, <1>6, <1>7, <1>8, <1>9, <1>10 DEF ObligationsDone, l1, l2
<1> QED
  BY <1>5, <1>11 DEF ObligationsOn, k, g4, g3, g2, g1, l1, l2

LEMMA ObligationsAgain ==
    ASSUME NEW k, GraphType(k), ObligationsDone(k)
    PROVE  ObligationsOn(k) = k
<1> DEFINE l1 == <<"obligation", "Lone Star Mutual">>
           l2 == <<"obligation", "TICO">>
<1>0. "US-TX" \in Jurisdictions
  BY DEF Jurisdictions, States
<1>1. ASSUME NEW n, n = "Lone Star Mutual" \/ n = "obligation"
      PROVE  MergeScoped(k, n, "US-TX") = k
  <2>1. n \in Present(k) /\ Known(k, "US-TX") \subseteq k.node[n].scope
    BY <1>1 DEF ObligationsDone
  <2> QED
    BY <1>0, <2>1, ScopedAgain
<1>2. Obliged(k, "obligation") = k
  BY ObligedAgain DEF ObligationsDone
<1>3. Connect(k, {l1}) = k
  <2>1. l1 \in k.links
    BY DEF ObligationsDone
  <2> HIDE DEF l1
  <2> QED
    BY <2>1, ConnectAgain
<1>4. Connect(k, {l2}) = k
  <2>1. l2[2] \in Present(k) => l2 \in k.links
    BY DEF ObligationsDone
  <2> HIDE DEF l2
  <2> QED
    BY <2>1, ConnectAgain
<1> QED
  BY <1>1, <1>2, <1>3, <1>4 DEF ObligationsOn

-----------------------------------------------------------------------------
(* kg_hygiene and cleanup_kg.                                              *)

LEMMA KindsApart ==
    /\ Layouts \intersect (Fields \union Lists \union Values) = {}
    /\ Fields \intersect (Lists \union Values) = {} /\ Lists \intersect Values = {}
    /\ Overrides \intersect (Lists \union Values) = {}
<1>1. DOMAIN Kinds = 1..6
  BY DEF Kinds
<1>2. /\ Kinds[1] = Layouts /\ Kinds[2] = Fields /\ Kinds[3] = Lists /\ Kinds[4] = Values
      /\ Kinds[6] = Others
  BY DEF Kinds
<1>3. \A i, k \in 1..6 : i # k => Kinds[i] \intersect Kinds[k] = {}
  BY <1>1, LabelAssumption
<1>4. /\ Layouts \intersect Fields = {} /\ Layouts \intersect Lists = {}
      /\ Layouts \intersect Values = {} /\ Fields \intersect Lists = {}
      /\ Fields \intersect Values = {} /\ Lists \intersect Values = {}
      /\ Others \intersect Lists = {} /\ Others \intersect Values = {}
  BY <1>2, <1>3
<1> QED
  BY <1>4, CanonAssumption

HygieneOn(g) == Cited(Typed(g))

HygieneDone(k) == Uncited(k) = {} /\ \A n \in Present(k) : k.node[n].type = TRUE

LEMMA HygieneAfter ==
    \A c : LET d == After(<<"hygiene">>, c)
         IN  d.graph = HygieneOn(c.graph) /\ d.tables = c.tables
<1> TAKE c
<1> DEFINE p1 == Do("types", "null")
           p2 == p1 \o Do("citations", "codelist")
           c1 == Send(c, p1)
           c2 == Send(c, p2)
<1>1. Sendable(p1)
  BY SendableCat
<1>2. After(<<"hygiene">>, c) = c2
  <2>1. Statements["hygiene"] = p2
    BY DEF Statements, KgHygiene
  <2>2. After(<<"hygiene">>, c) = Send(c, Statements["hygiene"])
    BY AfterOne
  <2> QED
    BY <2>1, <2>2
<1>e. /\ p2 = p1 \o Do("citations", "codelist")
  OBVIOUS
<1> HIDE DEF p1, p2
<1>3. c1 = Effect(c, Stated("types", "null"))
  BY SendOne DEF p1
<1>4. c2 = Effect(c1, Stated("citations", "codelist"))
  BY <1>1, <1>e, SendMore
<1> HIDE DEF c1, c2
<1>5. /\ c1.graph = Typed(c.graph)
      /\ c1.tables = c.tables
  BY <1>3, SendsTypes
<1>6. /\ c2.graph = Cited(c1.graph)
      /\ c2.tables = c1.tables
  BY <1>4, SendsCitations
<1> QED
  BY <1>2, <1>5, <1>6 DEF HygieneOn

LEMMA TypedIs ==
    ASSUME NEW g, GraphType(g)
    PROVE  /\ Same(g, Typed(g))
           /\ \A n \in Present(g) : Typed(g).node[n] = [g.node[n] EXCEPT !.type = TRUE]
  BY TypeIs DEF Typed

LEMMA CitedIs ==
    ASSUME NEW g, GraphType(g)
    PROVE  /\ Same(g, Cited(g))
           /\ \A n \in Present(g) : Cited(g).node[n] =
                IF n \in Uncited(g) THEN [g.node[n] EXCEPT !.cites = TRUE] ELSE g.node[n]
<1> DEFINE N == Uncited(g)
           k == Change(g, N, LAMBDA p : [p EXCEPT !.cites = TRUE])
<1>1. Cited(g) = k
  BY DEF Cited
<1> HIDE DEF N
<1>2. Same(g, k) /\ \A n \in Present(g) : k.node[n] =
        IF n \in N THEN [g.node[n] EXCEPT !.cites = TRUE] ELSE g.node[n]
  BY CiteIs
<1> HIDE DEF k
<1> QED
  BY <1>1, <1>2 DEF N

LEMMA HygieneDoes ==
    ASSUME NEW g, GraphType(g)
    PROVE  GraphType(HygieneOn(g)) /\ HygieneDone(HygieneOn(g))
<1> DEFINE h == Typed(g)
           k == Cited(h)
<1>1. Same(g, h) /\ \A n \in Present(g) : h.node[n] = [g.node[n] EXCEPT !.type = TRUE]
  BY TypedIs
<1> HIDE DEF h
<1>2. GraphType(h)
  BY <1>1 DEF Same
<1>3. Same(h, k) /\ \A n \in Present(h) : k.node[n] =
        IF n \in Uncited(h) THEN [h.node[n] EXCEPT !.cites = TRUE] ELSE h.node[n]
  BY <1>2, CitedIs
<1> HIDE DEF k
<1>4. GraphType(k) /\ Present(k) = Present(h) /\ Present(h) = Present(g) /\ k.links = h.links
  BY <1>1, <1>3 DEF Same
<1>5. ASSUME NEW n \in Present(k)
      PROVE  /\ h.node[n].type = TRUE /\ k.node[n].type = TRUE
             /\ k.node[n].cites = (n \in Uncited(h) \/ h.node[n].cites)
             /\ h.node[n].cites \in BOOLEAN
  <2>1. g.node[n] \in Properties /\ h.node[n] \in Properties
    BY <1>2, <1>4, NodeType
  <2>2. h.node[n].type = TRUE
    BY <1>1, <1>4, <2>1 DEF Properties
  <2>3. CASE n \in Uncited(h)
    <3>1. k.node[n] = [h.node[n] EXCEPT !.cites = TRUE]
      BY <1>3, <1>4, <2>3
    <3> QED
      BY <2>1, <2>2, <2>3, <3>1 DEF Properties
  <2>4. CASE n \notin Uncited(h)
    <3>1. k.node[n] = h.node[n]
      BY <1>3, <1>4, <2>4
    <3>2. h.node[n].cites \in BOOLEAN
      BY <2>1 DEF Properties
    <3> QED
      BY <2>2, <2>4, <3>1, <3>2
  <2> QED
    BY <2>3, <2>4
<1>6. ASSUME NEW n \in Uncited(k)
      PROVE  FALSE
  <2>1. n \in Present(k) /\ n \in Values /\ ~k.node[n].cites
    BY DEF Uncited
  <2>2. PICK l \in To(k, n) \intersect Lists : k.node[l].cites
    BY DEF Uncited
  <2>3. l \in Present(k) /\ l \in To(h, n)
    BY <1>4, <2>2 DEF To
  <2>4. n \notin Uncited(h) /\ ~h.node[n].cites
    BY <1>5, <2>1
  <2>5. ~h.node[l].cites
    BY <1>4, <2>1, <2>2, <2>3, <2>4 DEF Uncited
  <2>6. l \in Uncited(h)
    BY <1>5, <2>2, <2>3, <2>5
  <2>7. l \in Values
    BY <2>6 DEF Uncited
  <2> QED
    BY <2>2, <2>7, KindsApart
<1>7. HygieneDone(k)
  BY <1>5, <1>6 DEF HygieneDone
<1> QED
  BY <1>4, <1>7 DEF HygieneOn, k, h

LEMMA HygieneAgain ==
    ASSUME NEW k, GraphType(k), HygieneDone(k)
    PROVE  HygieneOn(k) = k
<1>1. Typed(k) = k
  <2>1. Same(k, Typed(k)) /\ \A n \in Present(k) :
          Typed(k).node[n] = [k.node[n] EXCEPT !.type = TRUE]
    BY TypedIs
  <2>2. ASSUME NEW n \in Present(k)
        PROVE  Typed(k).node[n] = k.node[n]
    <3>1. k.node[n] \in Properties /\ k.node[n].type = TRUE
      BY NodeType DEF HygieneDone
    <3> QED
      BY <2>1, <3>1 DEF Properties
  <2> QED
    BY <2>1, <2>2, SameEqual
<1>2. Cited(k) = k
  <2>1. Same(k, Cited(k)) /\ \A n \in Present(k) : Cited(k).node[n] =
          IF n \in Uncited(k) THEN [k.node[n] EXCEPT !.cites = TRUE] ELSE k.node[n]
    BY CitedIs
  <2>2. \A n \in Present(k) : Cited(k).node[n] = k.node[n]
    BY <2>1 DEF HygieneDone
  <2> QED
    BY <2>1, <2>2, SameEqual
<1> QED
  BY <1>1, <1>2 DEF HygieneOn

\* what is left of g when N is deleted
Rest(g, N, k) ==
    /\ GraphType(k) /\ Present(k) = Present(g) \ N
    /\ \A n \in Present(k) : k.node[n] = g.node[n]
    /\ \A n, m \in Present(k) : <<n, m>> \in k.links <=> <<n, m>> \in g.links

LEMMA RestIsLeft ==
    ASSUME NEW g, GraphType(g), NEW N
    PROVE  Rest(g, N, DetachDelete(g, N))
<1> DEFINE k == DetachDelete(g, N)
<1>1. /\ GraphType(k) /\ Present(k) = Present(g) \ N
      /\ k.links = {l \in g.links : l[1] \notin N /\ l[2] \notin N}
      /\ \A n \in Present(g) \ N : k.node[n] = g.node[n]
  BY DeleteType
<1> HIDE DEF k
<1>2. ASSUME NEW n \in Present(k), NEW m \in Present(k)
      PROVE  <<n, m>> \in k.links <=> <<n, m>> \in g.links
  BY <1>1
<1>3. Rest(g, N, k)
  BY <1>1, <1>2 DEF Rest
<1> QED
  BY <1>3 DEF k

LEMMA NothingDeleted == \A k : GraphType(k) => DetachDelete(k, {}) = k
<1> TAKE k
<1> SUFFICES ASSUME GraphType(k) PROVE DetachDelete(k, {}) = k
  OBVIOUS
<1> DEFINE m == DetachDelete(k, {})
<1>1. /\ GraphType(m) /\ Present(m) = Present(k) \ {}
      /\ m.links = {l \in k.links : l[1] \notin {} /\ l[2] \notin {}}
      /\ m.jurisdictions = k.jurisdictions
      /\ \A n \in Present(k) \ {} : m.node[n] = k.node[n]
  BY DeleteType
<1> HIDE DEF m
<1>2. Present(m) = Present(k) /\ m.links = k.links /\ \A n \in Present(k) : m.node[n] = k.node[n]
  BY <1>1
<1>3. m = k
  BY <1>1, <1>2, GraphEqual
<1> QED
  BY <1>3 DEF m

CleanupOn(g) ==
    LET a == DetachDelete(g, PhantomLayouts(g))
        b == DetachDelete(a, OrphanFields(a))
        c == DetachDelete(b, OrphanLists(b))
    IN  DetachDelete(c, OrphanValues(c))

CleanupDone(k) ==
    PhantomLayouts(k) = {} /\ OrphanFields(k) = {} /\ OrphanLists(k) = {} /\ OrphanValues(k) = {}

LEMMA UnlistedIs ==
    \A g : /\ Unlisted(g, "layouts") = PhantomLayouts(g) /\ Unlisted(g, "fields") = OrphanFields(g)
           /\ Unlisted(g, "lists") = OrphanLists(g) /\ Unlisted(g, "values") = OrphanValues(g)
  BY DEF Unlisted

LEMMA CleanupAfter ==
    \A c : LET d == After(<<"cleanup">>, c)
         IN  d.graph = CleanupOn(c.graph) /\ d.tables = c.tables
<1> TAKE c
<1> DEFINE p1 == Do("list", "unwanted")
           p2 == p1 \o Do("delete", "layouts")
           p3 == p2 \o Do("delete", "fields")
           p4 == p3 \o Do("delete", "lists")
           p5 == p4 \o Do("delete", "values")
           c1 == Send(c, p1)
           c2 == Send(c, p2)
           c3 == Send(c, p3)
           c4 == Send(c, p4)
           c5 == Send(c, p5)
<1>1. Sendable(p1) /\ Sendable(p2) /\ Sendable(p3) /\ Sendable(p4)
  BY SendableCat
<1>2. After(<<"cleanup">>, c) = c5
  <2>1. Statements["cleanup"] = p5
    BY DEF Statements, CleanupKg
  <2>2. After(<<"cleanup">>, c) = Send(c, Statements["cleanup"])
    BY AfterOne
  <2> QED
    BY <2>1, <2>2
<1>e. /\ p2 = p1 \o Do("delete", "layouts")
      /\ p3 = p2 \o Do("delete", "fields")
      /\ p4 = p3 \o Do("delete", "lists")
      /\ p5 = p4 \o Do("delete", "values")
  OBVIOUS
<1> HIDE DEF p1, p2, p3, p4, p5
<1>3. c1 = Effect(c, Stated("list", "unwanted"))
  BY SendOne DEF p1
<1>4. c2 = Effect(c1, Stated("delete", "layouts"))
  BY <1>1, <1>e, SendMore
<1>5. c3 = Effect(c2, Stated("delete", "fields"))
  BY <1>1, <1>e, SendMore
<1>6. c4 = Effect(c3, Stated("delete", "lists"))
  BY <1>1, <1>e, SendMore
<1>7. c5 = Effect(c4, Stated("delete", "values"))
  BY <1>1, <1>e, SendMore
<1> HIDE DEF c1, c2, c3, c4, c5
<1>8. /\ c1.graph = c.graph
      /\ c1.tables = c.tables
  BY <1>3, SendsList
<1>9. /\ c2.graph = DetachDelete(c1.graph, PhantomLayouts(c1.graph))
      /\ c2.tables = c1.tables
  BY <1>4, SendsDelete, UnlistedIs
<1>10. /\ c3.graph = DetachDelete(c2.graph, OrphanFields(c2.graph))
       /\ c3.tables = c2.tables
  BY <1>5, SendsDelete, UnlistedIs
<1>11. /\ c4.graph = DetachDelete(c3.graph, OrphanLists(c3.graph))
       /\ c4.tables = c3.tables
  BY <1>6, SendsDelete, UnlistedIs
<1>12. /\ c5.graph = DetachDelete(c4.graph, OrphanValues(c4.graph))
       /\ c5.tables = c4.tables
  BY <1>7, SendsDelete, UnlistedIs
<1> QED
  BY <1>2, <1>8, <1>9, <1>10, <1>11, <1>12 DEF CleanupOn

LEMMA CleanupDoes ==
    ASSUME NEW g, GraphType(g)
    PROVE  GraphType(CleanupOn(g)) /\ CleanupDone(CleanupOn(g))
<1> DEFINE N == PhantomLayouts(g)
           a == DetachDelete(g, N)
           A == OrphanFields(a)
           b == DetachDelete(a, A)
           B == OrphanLists(b)
           c == DetachDelete(b, B)
           C == OrphanValues(c)
           k == DetachDelete(c, C)
<1>1. Rest(g, N, a)
  BY RestIsLeft
<1> HIDE DEF a
<1>2. Rest(a, A, b)
  BY <1>1, RestIsLeft DEF Rest
<1> HIDE DEF b
<1>3. Rest(b, B, c)
  BY <1>2, RestIsLeft DEF Rest
<1> HIDE DEF c
<1>4. Rest(c, C, k)
  BY <1>3, RestIsLeft DEF Rest
<1> HIDE DEF k
<1>5. N \subseteq Layouts /\ A \subseteq Fields /\ B \subseteq Lists /\ C \subseteq Values
  BY DEF PhantomLayouts, OrphanFields, OrphanLists, OrphanValues
<1> HIDE DEF N, A, B, C
<1>6. /\ Present(a) = Present(g) \ N /\ Present(b) = Present(a) \ A
      /\ Present(c) = Present(b) \ B /\ Present(k) = Present(c) \ C
  BY <1>1, <1>2, <1>3, <1>4 DEF Rest
<1>n. /\ \A n \in Present(a) : a.node[n] = g.node[n]
      /\ \A n \in Present(b) : b.node[n] = a.node[n]
      /\ \A n \in Present(c) : c.node[n] = b.node[n]
      /\ \A n \in Present(k) : k.node[n] = c.node[n]
  BY <1>1, <1>2, <1>3, <1>4 DEF Rest
<1>l. /\ \A n, m \in Present(b) : <<n, m>> \in b.links <=> <<n, m>> \in a.links
      /\ \A n, m \in Present(c) : <<n, m>> \in c.links <=> <<n, m>> \in b.links
      /\ \A n, m \in Present(k) : <<n, m>> \in k.links <=> <<n, m>> \in c.links
  BY <1>2, <1>3, <1>4 DEF Rest
<1>7. ASSUME NEW n \in PhantomLayouts(k)
      PROVE  FALSE
  <2>1. n \in Present(k) /\ n \in Layouts /\ n \notin Canonical /\ InTexas(k, n)
    BY DEF PhantomLayouts
  <2>2. n \in Present(g) /\ n \notin N /\ k.node[n] = g.node[n]
    BY <1>6, <1>n, <2>1
  <2>3. InTexas(g, n)
    BY <2>1, <2>2 DEF InTexas
  <2> QED
    BY <2>1, <2>2, <2>3 DEF PhantomLayouts, N
<1>8. ASSUME NEW n \in OrphanFields(k)
      PROVE  FALSE
  <2>1. /\ n \in Present(k) /\ n \in Fields /\ InTexas(k, n)
        /\ (From(k, n) \union To(k, n)) \intersect Layouts = {}
    BY DEF OrphanFields
  <2>2. /\ n \in Present(a) /\ n \in Present(b) /\ n \in Present(c) /\ n \notin A
        /\ k.node[n] = a.node[n]
    BY <1>6, <1>n, <2>1
  <2>3. InTexas(a, n)
    BY <2>1, <2>2 DEF InTexas
  <2>4. PICK l : l \in From(a, n) \union To(a, n) /\ l \in Layouts
    BY <2>1, <2>2, <2>3 DEF OrphanFields, A
  <2>5. l \in Present(a) /\ (<<n, l>> \in a.links \/ <<l, n>> \in a.links)
    BY <2>4 DEF From, To
  <2>6. l \in Present(b) /\ l \in Present(c) /\ l \in Present(k)
    BY <1>5, <1>6, <2>4, <2>5, KindsApart
  <2>7. <<n, l>> \in k.links \/ <<l, n>> \in k.links
    BY <1>l, <2>1, <2>2, <2>5, <2>6
  <2> QED
    BY <2>1, <2>4, <2>6, <2>7 DEF From, To
<1>9. ASSUME NEW n \in OrphanLists(k)
      PROVE  FALSE
  <2>1. /\ n \in Present(k) /\ n \in Lists /\ From(k, n) \intersect Values = {}
        /\ To(k, n) \intersect (Fields \union Overrides) = {}
    BY DEF OrphanLists
  <2>2. n \in Present(b) /\ n \in Present(c) /\ n \notin B
    BY <1>6, <2>1
  <2>3. \/ From(b, n) \intersect Values # {}
        \/ To(b, n) \intersect (Fields \union Overrides) # {}
    BY <2>1, <2>2 DEF OrphanLists, B
  <2>4. CASE From(b, n) \intersect Values # {}
    <3>1. PICK v : v \in Values /\ v \in Present(b) /\ <<n, v>> \in b.links
      BY <2>4 DEF From
    <3>2. v \in Present(c) /\ <<n, v>> \in c.links
      BY <1>5, <1>6, <1>l, <2>2, <3>1, KindsApart
    <3>3. v \notin C
      BY <2>1, <2>2, <3>2 DEF OrphanValues, To, C
    <3>4. v \in Present(k) /\ <<n, v>> \in k.links
      BY <1>6, <1>l, <2>1, <3>2, <3>3
    <3> QED
      BY <2>1, <3>1, <3>4 DEF From
  <2>5. CASE To(b, n) \intersect (Fields \union Overrides) # {}
    <3>1. PICK u : u \in Fields \union Overrides /\ u \in Present(b) /\ <<u, n>> \in b.links
      BY <2>5 DEF To
    <3>2. u \in Present(c) /\ u \in Present(k)
      BY <1>5, <1>6, <3>1, KindsApart
    <3>3. <<u, n>> \in k.links
      BY <1>l, <2>1, <2>2, <3>1, <3>2
    <3> QED
      BY <2>1, <3>1, <3>2, <3>3 DEF To
  <2> QED
    BY <2>3, <2>4, <2>5
<1>10. ASSUME NEW n \in OrphanValues(k)
       PROVE  FALSE
  <2>1. n \in Present(k) /\ n \in Values /\ To(k, n) \intersect Lists = {}
    BY DEF OrphanValues
  <2>2. n \in Present(c) /\ n \notin C
    BY <1>6, <2>1
  <2>3. PICK l : l \in Lists /\ l \in Present(c) /\ <<l, n>> \in c.links
    BY <2>1, <2>2 DEF OrphanValues, To, C
  <2>4. l \in Present(k) /\ <<l, n>> \in k.links
    BY <1>5, <1>6, <1>l, <2>1, <2>3, KindsApart
  <2> QED
    BY <2>1, <2>3, <2>4 DEF To
<1>11. GraphType(k) /\ CleanupDone(k)
  BY <1>4, <1>7, <1>8, <1>9, <1>10 DEF Rest, CleanupDone
<1> QED
  BY <1>11 DEF CleanupOn, k, C, c, B, b, A, a, N

LEMMA CleanupAgain ==
    ASSUME NEW k, GraphType(k), CleanupDone(k)
    PROVE  CleanupOn(k) = k
<1>1. DetachDelete(k, {}) = k
  BY NothingDeleted
<1> QED
  BY <1>1 DEF CleanupOn, CleanupDone

-----------------------------------------------------------------------------
(* Migrations 002 and 003; reruns.                                         *)

CustomOn(t) == [t EXCEPT !.rules = InsertMissing(@)]

LEMMA SendsInsertMissing ==
    \A c, a : LET d == Effect(c, Stated("insert_missing", a))
              IN  d.graph = c.graph /\ d.tables = CustomOn(c.tables)
  BY DEF Stated, Effect, OnGraph, OnTables, CustomOn

LEMMA CustomAfter ==
    \A c : LET d == After(<<"custom">>, c)
         IN  d.graph = c.graph /\ d.tables = CustomOn(c.tables)
<1> TAKE c
<1>1. After(<<"custom">>, c) = Send(c, Do("insert_missing", Curated))
  <2>1. Statements["custom"] = Do("insert_missing", Curated)
    BY DEF Statements
  <2>2. After(<<"custom">>, c) = Send(c, Statements["custom"])
    BY AfterOne
  <2> QED
    BY <2>1, <2>2
<1>2. After(<<"custom">>, c) = Effect(c, Stated("insert_missing", Curated))
  BY <1>1, SendOne
<1> QED
  BY <1>2, SendsInsertMissing

LEMMA MissingAgain ==
    ASSUME NEW b, BagOf(b, Rows)
    PROVE  InsertMissing(InsertMissing(b)) = InsertMissing(b)
<1> DEFINE Absent(x) == {<<n, "US-TX">> : n \in Curated \ {row[1] : row \in DOMAIN x}}
           M == Absent(b)
           d == b (+) SetToBag(M)
<1>1. InsertMissing(b) = d /\ InsertMissing(d) = d (+) SetToBag(Absent(d))
  BY DEF InsertMissing
<1>2. /\ SetToBag(M) = [e \in M |-> 1]
      /\ SetToBag({}) = [e \in {} |-> 1]
  BY DEF SetToBag
<1>3. M \subseteq Rows
  BY DEF Rows, Jurisdictions, States
<1>m. \A n \in Curated : n \in {row[1] : row \in DOMAIN b} \/ <<n, "US-TX">> \in M
  OBVIOUS
<1> HIDE DEF M
<1>4. DOMAIN d = DOMAIN b \union M /\ d = [e \in DOMAIN d |-> d[e]]
  BY <1>2 DEF (+)
<1>5. BagOf(d, Rows)
  BY <1>3, BagPlus
<1> HIDE DEF d
<1>6. Absent(d) = {}
  <2>1. \A n \in Curated : n \in {row[1] : row \in DOMAIN d}
    <3>1. ASSUME NEW n \in Curated
          PROVE  n \in {row[1] : row \in DOMAIN d}
      <4>1. <<n, "US-TX">>[1] = n
        OBVIOUS
      <4>2. CASE n \in {row[1] : row \in DOMAIN b}
        BY <1>4, <4>2
      <4>3. CASE <<n, "US-TX">> \in M
        BY <1>4, <4>1, <4>3
      <4> QED
        BY <1>m, <4>2, <4>3
    <3> QED
      BY <3>1
  <2> QED
    BY <2>1
<1> HIDE DEF Absent
<1>7. d (+) SetToBag({}) = d
  <2>1. d (+) SetToBag({}) = [e \in DOMAIN d |-> d[e] + 0]
    BY <1>2 DEF (+)
  <2>2. \A e \in DOMAIN d : d[e] \in Nat
    BY <1>5 DEF BagOf, IsABag
  <2> QED
    BY <1>4, <2>1, <2>2
<1> QED
  BY <1>1, <1>6, <1>7

LEMMA CustomAgain ==
    ASSUME NEW t, TablesType(t)
    PROVE  CustomOn(CustomOn(t)) = CustomOn(t)
<1> DEFINE u == CustomOn(t)
<1>1. u = [t EXCEPT !.rules = InsertMissing(t.rules)]
  BY DEF CustomOn
<1>2. u.rules = InsertMissing(t.rules)
  BY <1>1 DEF TablesType
<1>3. InsertMissing(u.rules) = u.rules
  BY <1>2, MissingAgain DEF TablesType
<1>4. [u EXCEPT !.rules = u.rules] = u
  BY <1>1
<1> HIDE DEF u
<1>5. CustomOn(u) = u
  BY <1>3, <1>4 DEF CustomOn
<1> QED
  BY <1>5 DEF u

LEMMA FederalReruns ==
    ASSUME NEW b, GraphType(b.graph)
    PROVE  LET c == After(<<"federal">>, b)
               d == After(<<"federal">>, c)
           IN  d.graph = c.graph /\ d.tables = c.tables
<1> DEFINE c == After(<<"federal">>, b)
           d == After(<<"federal">>, c)
<1>1. c.graph = FederalOn(b.graph)
  BY FederalAfter
<1>2. GraphType(c.graph) /\ FederalDone(c.graph)
  BY <1>1, FederalDoes
<1> HIDE DEF c
<1>3. d.graph = FederalOn(c.graph) /\ d.tables = c.tables
  BY FederalAfter
<1>4. FederalOn(c.graph) = c.graph
  BY <1>2, FederalAgain
<1> QED
  BY <1>3, <1>4 DEF c

LEMMA JurisdictionsReruns ==
    ASSUME NEW b, GraphType(b.graph)
    PROVE  LET c == After(<<"jurisdictions">>, b)
               d == After(<<"jurisdictions">>, c)
           IN  d.graph = c.graph /\ d.tables = c.tables
<1> DEFINE c == After(<<"jurisdictions">>, b)
           d == After(<<"jurisdictions">>, c)
<1>1. c.graph = JurisdictionsOn(b.graph)
  BY JurisdictionsAfter
<1>2. GraphType(c.graph) /\ JurisdictionsDone(c.graph)
  BY <1>1, JurisdictionsDo
<1> HIDE DEF c
<1>3. d.graph = JurisdictionsOn(c.graph) /\ d.tables = c.tables
  BY JurisdictionsAfter
<1>4. JurisdictionsOn(c.graph) = c.graph
  BY <1>2, JurisdictionsAgain
<1> QED
  BY <1>3, <1>4 DEF c

LEMMA FloridaReruns ==
    ASSUME NEW b, GraphType(b.graph)
    PROVE  LET c == After(<<"florida">>, b)
               d == After(<<"florida">>, c)
           IN  d.graph = c.graph /\ d.tables = c.tables
<1> DEFINE c == After(<<"florida">>, b)
           d == After(<<"florida">>, c)
<1>1. c.graph = FloridaOn(b.graph)
  BY FloridaAfter
<1>2. GraphType(c.graph) /\ FloridaDone(c.graph)
  BY <1>1, FloridaDoes
<1> HIDE DEF c
<1>3. d.graph = FloridaOn(c.graph) /\ d.tables = c.tables
  BY FloridaAfter
<1>4. FloridaOn(c.graph) = c.graph
  BY <1>2, FloridaAgain
<1> QED
  BY <1>3, <1>4 DEF c

LEMMA ObligationsReruns ==
    ASSUME NEW b, GraphType(b.graph)
    PROVE  LET c == After(<<"obligations">>, b)
               d == After(<<"obligations">>, c)
           IN  d.graph = c.graph /\ d.tables = c.tables
<1> DEFINE c == After(<<"obligations">>, b)
           d == After(<<"obligations">>, c)
<1>1. c.graph = ObligationsOn(b.graph)
  BY ObligationsAfter
<1>2. GraphType(c.graph) /\ ObligationsDone(c.graph)
  BY <1>1, ObligationsDo
<1> HIDE DEF c
<1>3. d.graph = ObligationsOn(c.graph) /\ d.tables = c.tables
  BY ObligationsAfter
<1>4. ObligationsOn(c.graph) = c.graph
  BY <1>2, ObligationsAgain
<1> QED
  BY <1>3, <1>4 DEF c

LEMMA HygieneReruns ==
    ASSUME NEW b, GraphType(b.graph)
    PROVE  LET c == After(<<"hygiene">>, b)
               d == After(<<"hygiene">>, c)
           IN  d.graph = c.graph /\ d.tables = c.tables
<1> DEFINE c == After(<<"hygiene">>, b)
           d == After(<<"hygiene">>, c)
<1>1. c.graph = HygieneOn(b.graph)
  BY HygieneAfter
<1>2. GraphType(c.graph) /\ HygieneDone(c.graph)
  BY <1>1, HygieneDoes
<1> HIDE DEF c
<1>3. d.graph = HygieneOn(c.graph) /\ d.tables = c.tables
  BY HygieneAfter
<1>4. HygieneOn(c.graph) = c.graph
  BY <1>2, HygieneAgain
<1> QED
  BY <1>3, <1>4 DEF c

LEMMA CleanupReruns ==
    ASSUME NEW b, GraphType(b.graph)
    PROVE  LET c == After(<<"cleanup">>, b)
               d == After(<<"cleanup">>, c)
           IN  d.graph = c.graph /\ d.tables = c.tables
<1> DEFINE c == After(<<"cleanup">>, b)
           d == After(<<"cleanup">>, c)
<1>1. c.graph = CleanupOn(b.graph)
  BY CleanupAfter
<1>2. GraphType(c.graph) /\ CleanupDone(c.graph)
  BY <1>1, CleanupDoes
<1> HIDE DEF c
<1>3. d.graph = CleanupOn(c.graph) /\ d.tables = c.tables
  BY CleanupAfter
<1>4. CleanupOn(c.graph) = c.graph
  BY <1>2, CleanupAgain
<1> QED
  BY <1>3, <1>4 DEF c

LEMMA CustomReruns ==
    ASSUME NEW b, TablesType(b.tables)
    PROVE  LET c == After(<<"custom">>, b)
               d == After(<<"custom">>, c)
           IN  d.graph = c.graph /\ d.tables = c.tables
<1> DEFINE c == After(<<"custom">>, b)
           d == After(<<"custom">>, c)
<1>1. c.tables = CustomOn(b.tables)
  BY CustomAfter
<1> HIDE DEF c
<1>2. d.graph = c.graph /\ d.tables = CustomOn(c.tables)
  BY CustomAfter
<1>3. CustomOn(c.tables) = c.tables
  BY <1>1, CustomAgain
<1> QED
  BY <1>2, <1>3 DEF c

\* RerunsChangeNothing: whatever state runs have left, the cleanup, hygiene, jurisdictions,
\* federal, florida and obligations scripts and the migrations that insert curated rules
\* leave graph and tables as they are when run a second time.
THEOREM RerunsAreHarmless == Spec => []RerunsChangeNothing
<1>1. CanonInv => RerunsChangeNothing
  <2> SUFFICES ASSUME CanonInv,
                      NEW s \in {"cleanup", "hygiene", "jurisdictions", "federal", "florida",
                                 "obligations", "custom"}
               PROVE  LET c == After(<<s>>, Now)
                          d == After(<<s>>, c)
                      IN  d.graph = c.graph /\ d.tables = c.tables
    BY DEF RerunsChangeNothing
  <2>1. GraphType(Now.graph) /\ TablesType(Now.tables)
    BY DEF CanonInv, Now, Good
  <2>2. CASE s = "cleanup"
    BY <2>1, <2>2, CleanupReruns
  <2>3. CASE s = "hygiene"
    BY <2>1, <2>3, HygieneReruns
  <2>4. CASE s = "jurisdictions"
    BY <2>1, <2>4, JurisdictionsReruns
  <2>5. CASE s = "federal"
    BY <2>1, <2>5, FederalReruns
  <2>6. CASE s = "florida"
    BY <2>1, <2>6, FloridaReruns
  <2>7. CASE s = "obligations"
    BY <2>1, <2>7, ObligationsReruns
  <2>8. CASE s = "custom"
    BY <2>1, <2>8, CustomReruns
  <2> QED
    BY <2>2, <2>3, <2>4, <2>5, <2>6, <2>7, <2>8
<1> QED
  BY <1>1, Invariant, PTL

-----------------------------------------------------------------------------
(* The loaders.                                                            *)

\* Statements add no file and no table.
LEMMA DomainsStay ==
    ASSUME NEW c, NEW p, Sendable(p)
    PROVE  DOMAIN Send(c, p).files = DOMAIN c.files /\ DOMAIN Send(c, p).tables = DOMAIN c.tables
<1> DEFINE D == DOMAIN p
           h == FoldTable(c, p, D)
           Stays(s) == /\ DOMAIN h[s].files = DOMAIN c.files
                       /\ DOMAIN h[s].tables = DOMAIN c.tables
           T == {s \in SUBSET D : ~Stays(s)}
<1>1. Places(D)
  <2>1. PICK S : p \in Seq(S)
    BY DEF Sendable
  <2>2. Len(p) \in Nat /\ D = 1..Len(p)
    BY <2>1
  <2> HIDE DEF D
  <2>3. D \subseteq 1..Len(p)
    BY <2>2
  <2> QED
    BY <2>2, <2>3, PlacesAre
<1>2. Send(c, p) = h[D]
  BY FoldIs DEF Send
<1> HIDE DEF D
<1>3. Folds(h, c, p, D)
  BY <1>1, FoldsExist
<1> HIDE DEF h
<1>4. ASSUME NEW s \in SUBSET D, s # {}, Stays(s \ {Max(s)})
      PROVE  Stays(s)
  <2> DEFINE b == h[s \ {Max(s)}]
             x == p[Max(s)]
  <2>1. h[s] = Effect(b, x)
    BY <1>3, <1>4 DEF Folds
  <2>2. DOMAIN OnFiles(x, b.graph, b.files) = DOMAIN b.files
    BY DEF OnFiles
  <2>3. DOMAIN OnTables(x, b.tables, b.noted) = DOMAIN b.tables
    BY DEF OnTables
  <2> HIDE DEF b, x
  <2>4. DOMAIN h[s].files = DOMAIN b.files /\ DOMAIN h[s].tables = DOMAIN b.tables
    BY <2>1, <2>2, <2>3 DEF Effect
  <2> QED
    BY <1>4, <2>4 DEF b
<1>5. Stays({})
  BY <1>3 DEF Folds
<1>6. T = {}
  <2> SUFFICES ASSUME T # {} PROVE FALSE
    OBVIOUS
  <2>0. T \subseteq SUBSET D /\ IsFiniteSet(D)
    BY <1>1 DEF Places
  <2> HIDE DEF T
  <2>1. PICK s \in T : \A t \in T : ~(t \subseteq s /\ t # s)
    BY <2>0, SmallestSet
  <2> USE DEF T
  <2>2. s # {} /\ s \in SUBSET D
    BY <1>5, <2>1
  <2>3. Max(s) \in s
    BY <1>1, <2>2 DEF Places
  <2>4. Stays(s \ {Max(s)})
    BY <2>1, <2>2, <2>3
  <2> QED
    BY <1>4, <2>1, <2>2, <2>4
<1>7. Stays(D)
  BY <1>6
<1> QED
  BY <1>2, <1>7

LEMMA AfterTwo ==
    ASSUME NEW x, NEW y, NEW c
    PROVE  After(<<x, y>>, c) = Send(c, Statements[x] \o Statements[y])
<1> DEFINE q == [i \in DOMAIN <<x, y>> |-> Statements[<<x, y>>[i]]]
<1>1. DOMAIN q = 1..2 /\ q[1] = Statements[x] /\ q[2] = Statements[y]
  OBVIOUS
<1>2. Len(q) = 2
  <2>1. q \in [1..2 -> {Statements[x], Statements[y]}]
    OBVIOUS
  <2> HIDE DEF q
  <2> QED
    BY <2>1
<1>3. After(<<x, y>>, c) = Send(c, FlattenSeq(q))
  BY DEF After, Send
<1> HIDE DEF q
<1> DEFINE t == FlatTable(q, 2)
<1>4. FlattenSeq(q) = t[2] /\ t[1] = q[1] /\ \A i \in 2..2 : t[i] = t[i - 1] \o q[i]
  <2>1. 2 \in Nat \ {0}
    OBVIOUS
  <2> QED
    BY <1>2, <2>1, FlattenSteps
<1> HIDE DEF t
<1>5. t[2] = t[1] \o q[2]
  <2>1. 2 \in 2..2 /\ 2 - 1 = 1
    OBVIOUS
  <2> QED
    BY <1>4, <2>1
<1> QED
  BY <1>1, <1>3, <1>4, <1>5

LEMMA AfterFour ==
    ASSUME NEW x, NEW y, NEW z, NEW w, NEW c
    PROVE  After(<<x, y, z, w>>, c) =
             Send(c, ((Statements[x] \o Statements[y]) \o Statements[z]) \o Statements[w])
<1> DEFINE q == [i \in DOMAIN <<x, y, z, w>> |-> Statements[<<x, y, z, w>>[i]]]
<1>1. /\ DOMAIN q = 1..4 /\ q[1] = Statements[x] /\ q[2] = Statements[y]
      /\ q[3] = Statements[z] /\ q[4] = Statements[w]
  OBVIOUS
<1>2. Len(q) = 4
  <2>1. q \in [1..4 -> {Statements[x], Statements[y], Statements[z], Statements[w]}]
    OBVIOUS
  <2> HIDE DEF q
  <2> QED
    BY <2>1
<1>3. After(<<x, y, z, w>>, c) = Send(c, FlattenSeq(q))
  BY DEF After, Send
<1> HIDE DEF q
<1> DEFINE t == FlatTable(q, 4)
<1>4. FlattenSeq(q) = t[4] /\ t[1] = q[1] /\ \A i \in 2..4 : t[i] = t[i - 1] \o q[i]
  <2>1. 4 \in Nat \ {0}
    OBVIOUS
  <2> QED
    BY <1>2, <2>1, FlattenSteps
<1> HIDE DEF t
<1>5. t[2] = t[1] \o q[2] /\ t[3] = t[2] \o q[3] /\ t[4] = t[3] \o q[4]
  <2>1. 2 \in 2..4 /\ 2 - 1 = 1 /\ 3 \in 2..4 /\ 3 - 1 = 2 /\ 4 \in 2..4 /\ 4 - 1 = 3
    OBVIOUS
  <2> QED
    BY <1>4, <2>1
<1> QED
  BY <1>1, <1>3, <1>4, <1>5

\* A loader sends its three statements one after the other.
LEMMA CatThree ==
    ASSUME NEW p, Sendable(p), NEW o, NEW a, NEW v, NEW b, NEW w, NEW d
    PROVE  p \o ((Do(o, a) \o Do(v, b)) \o Do(w, d)) =
             ((p \o Do(o, a)) \o Do(v, b)) \o Do(w, d)
<1>1. PICK S : p \in Seq(S)
  BY DEF Sendable
<1> DEFINE N == {[op |-> o, arg |-> a], [op |-> v, arg |-> b], [op |-> w, arg |-> d]}
           U == S \union N
           i == Do(o, a)
           k == Do(v, b)
           m == Do(w, d)
<1>2. i \in Seq(N) /\ k \in Seq(N) /\ m \in Seq(N)
  <2>1. [op |-> o, arg |-> a] \in N /\ [op |-> v, arg |-> b] \in N /\ [op |-> w, arg |-> d] \in N
    OBVIOUS
  <2> HIDE DEF N
  <2> QED
    BY <2>1, DoType
<1>3. S \subseteq U /\ N \subseteq U
  OBVIOUS
<1> HIDE DEF N, U, i, k, m
<1>4. p \in Seq(U) /\ i \in Seq(U) /\ k \in Seq(U) /\ m \in Seq(U)
  BY <1>1, <1>2, <1>3, SeqMonotonic
<1>5. i \o k \in Seq(U)
  BY <1>4, CatType
<1>6. p \o ((i \o k) \o m) = (p \o (i \o k)) \o m
  BY <1>4, <1>5, ConcatAssociative, SMTT(30)
<1>7. p \o (i \o k) = (p \o i) \o k
  BY <1>4, ConcatAssociative, SMTT(30)
<1>8. p \o ((i \o k) \o m) = ((p \o i) \o k) \o m
  BY <1>6, <1>7
<1> QED
  BY <1>8 DEF i, k, m

LEMMA SendsBuild ==
    \A c, a : LET d == Effect(c, Stated("build", a))
              IN  /\ d.graph = c.graph /\ d.tables = c.tables
                  /\ fetch_rules(c.graph, a) # {} =>
                       d.files = [c.files EXCEPT ![a] = fetch_rules(c.graph, a)]
  BY DEF Stated, Effect, OnGraph, OnTables, OnFiles

LEMMA SendsBuildCodes ==
    \A c, a : LET d == Effect(c, Stated("build_codes", a))
              IN  /\ d.graph = c.graph /\ d.tables = c.tables
                  /\ d.files = [c.files EXCEPT ![a] = fetch_codes(c.graph)]
  BY DEF Stated, Effect, OnGraph, OnTables, OnFiles

LEMMA SendsRead ==
    \A c, a : LET d == Effect(c, Stated("read", a))
              IN  d.graph = c.graph /\ d.tables = c.tables /\ d.noted = c.files[a]
  BY DEF Stated, Effect, OnGraph, OnTables, OnNotes

LEMMA SendsReplace ==
    \A c, a : LET d == Effect(c, Stated("replace", a))
              IN  /\ d.graph = c.graph /\ d.noted = c.noted
                  /\ d.tables = [c.tables EXCEPT ![TableOf(a)] = EmptyBag]
  BY DEF Stated, Effect, OnGraph, OnTables, OnNotes

LEMMA SendsInsert ==
    \A c, a : LET d == Effect(c, Stated("insert", a))
              IN  /\ d.graph = c.graph
                  /\ d.tables = [c.tables EXCEPT ![TableOf(a)] = @ (+) SetToBag(c.noted)]
  BY DEF Stated, Effect, OnGraph, OnTables

LEMMA BagSums ==
    /\ \A N : EmptyBag (+) SetToBag(N) = SetToBag(N)
    /\ \A N, M : N \intersect M = {} => SetToBag(N) (+) SetToBag(M) = SetToBag(N \union M)
    /\ \A N : DOMAIN SetToBag(N) = N
<1>1. /\ EmptyBag = [e \in {} |-> 1]
      /\ \A N : SetToBag(N) = [e \in N |-> 1]
  BY DEF SetToBag, EmptyBag
<1>2. ASSUME NEW N, NEW M, N \intersect M = {}
      PROVE  SetToBag(N) (+) SetToBag(M) = SetToBag(N \union M)
  <2>1. SetToBag(N) (+) SetToBag(M) =
          [e \in N \union M |-> (IF e \in N THEN 1 ELSE 0) + (IF e \in M THEN 1 ELSE 0)]
    BY <1>1 DEF (+)
  <2> QED
    BY <1>1, <1>2, <2>1
<1>3. \A N : EmptyBag (+) SetToBag(N) = [e \in {} \union N |-> 0 + 1]
  BY <1>1 DEF (+)
<1> QED
  BY <1>1, <1>2, <1>3

\* What a loader makes of a file f: its table has the rows of the file, each once.
LEMMA LoadDoes ==
    ASSUME NEW c, NEW p, Sendable(p), NEW f, TableOf(f) \in DOMAIN Send(c, p).tables
    PROVE  LET d == Send(c, ((p \o Do("read", f)) \o Do("replace", f)) \o Do("insert", f))
           IN  /\ d.graph = Send(c, p).graph
               /\ d.tables[TableOf(f)] = SetToBag(Send(c, p).files[f])
               /\ DOMAIN d.tables = DOMAIN Send(c, p).tables
<1> DEFINE p1 == p \o Do("read", f)
           p2 == p1 \o Do("replace", f)
           p3 == p2 \o Do("insert", f)
           c0 == Send(c, p)
           c1 == Send(c, p1)
           c2 == Send(c, p2)
           c3 == Send(c, p3)
           t == TableOf(f)
<1>1. Sendable(p1) /\ Sendable(p2)
  BY SendableCat
<1>2. c1 = Effect(c0, Stated("read", f))
  BY SendMore
<1>3. c2 = Effect(c1, Stated("replace", f))
  BY <1>1, SendMore
<1>4. c3 = Effect(c2, Stated("insert", f))
  BY <1>1, SendMore
<1>5. t \in DOMAIN c0.tables
  OBVIOUS
<1> HIDE DEF c0, c1, c2, c3
<1>6. c1.graph = c0.graph /\ c1.tables = c0.tables /\ c1.noted = c0.files[f]
  BY <1>2, SendsRead
<1>7. c2.graph = c1.graph /\ c2.noted = c1.noted /\ c2.tables = [c1.tables EXCEPT ![t] = EmptyBag]
  BY <1>3, SendsReplace
<1>8. c3.graph = c2.graph /\ c3.tables = [c2.tables EXCEPT ![t] = @ (+) SetToBag(c2.noted)]
  BY <1>4, SendsInsert
<1> HIDE DEF t
<1>9. c2.tables[t] = EmptyBag /\ DOMAIN c2.tables = DOMAIN c0.tables
  BY <1>5, <1>6, <1>7
<1>10. c3.tables[t] = EmptyBag (+) SetToBag(c0.files[f]) /\ DOMAIN c3.tables = DOMAIN c0.tables
  BY <1>5, <1>6, <1>7, <1>8, <1>9
<1>11. c3.tables[t] = SetToBag(c0.files[f])
  BY <1>10, BagSums
<1>12. c3.graph = c0.graph
  BY <1>6, <1>7, <1>8
<1> QED
  BY <1>10, <1>11, <1>12 DEF c0, c3, t

LEMMA CodesFollow ==
    ASSUME NEW b, TablesType(b.tables), FilesType(b.files)
    PROVE  After(<<"build_codes", "load_codes">>, b).tables.codes = SetToBag(fetch_codes(b.graph))
<1> DEFINE p == Do("build_codes", "codes")
           q == ((p \o Do("read", "codes")) \o Do("replace", "codes")) \o Do("insert", "codes")
           c == Send(b, p)
           d == Send(b, q)
<1>1. Sendable(p)
  BY SendableCat
<1>2. After(<<"build_codes", "load_codes">>, b) = d
  <2>1. /\ Statements["build_codes"] = p
        /\ Statements["load_codes"] =
             (Do("read", "codes") \o Do("replace", "codes")) \o Do("insert", "codes")
    BY DEF Statements, LoadCodes
  <2>2. p \o Statements["load_codes"] = q
    BY <1>1, <2>1, CatThree, SMTT(30)
  <2>3. After(<<"build_codes", "load_codes">>, b) =
          Send(b, Statements["build_codes"] \o Statements["load_codes"])
    BY AfterTwo
  <2> QED
    BY <2>1, <2>2, <2>3
<1>3. c = Effect(b, Stated("build_codes", "codes"))
  BY SendOne
<1> HIDE DEF p
<1>4. /\ c.tables = b.tables
      /\ c.files = [b.files EXCEPT !["codes"] = fetch_codes(b.graph)]
  <2> HIDE DEF c
  <2> QED
    BY <1>3, SendsBuildCodes
<1>5. TableOf("codes") = "codes"
  BY DEF TableOf
<1>6. "codes" \in DOMAIN c.tables /\ c.files["codes"] = fetch_codes(b.graph)
  <2> HIDE DEF c
  <2> QED
    BY <1>4 DEF TablesType, FilesType
<1>7. d.tables[TableOf("codes")] = SetToBag(c.files["codes"])
  BY <1>1, <1>5, <1>6, LoadDoes
<1> HIDE DEF c, d
<1>8. d.tables["codes"] = SetToBag(fetch_codes(b.graph))
  BY <1>5, <1>6, <1>7
<1> QED
  BY <1>2, <1>8

LEMMA RulesFollow ==
    ASSUME NEW b, TablesType(b.tables), FilesType(b.files)
    PROVE  LET c == After(Targets.load_rules, b)
               found == fetch_rules(c.graph, "US-TX")
           IN  found # {} => c.tables.rules = SetToBag(found \union
                 {<<n, "US-TX">> : n \in Curated \ {row[1] : row \in found}})
<1> DEFINE p0 == Statements["rules"]
           p1 == p0 \o Do("build", "US-TX")
           p2 == ((p1 \o Do("read", "US-TX")) \o Do("replace", "US-TX")) \o Do("insert", "US-TX")
           p3 == p2 \o Do("insert_missing", Curated)
           c0 == Send(b, p0)
           c1 == Send(b, p1)
           c2 == Send(b, p2)
           c3 == Send(b, p3)
           found == fetch_rules(c3.graph, "US-TX")
           missing == {<<n, "US-TX">> : n \in Curated \ {row[1] : row \in found}}
<1>1. Sendable(p0)
  <2>1. Statements["rules"] = MigrateValidationRules
    BY DEF Statements
  <2> QED
    BY <2>1, RulesGraphic DEF Sendable
<1>2. After(Targets.load_rules, b) = c3
  <2>1. Targets.load_rules = <<"rules", "build", "load", "custom">>
    BY DEF Targets
  <2>2. After(<<"rules", "build", "load", "custom">>, b) =
          Send(b, ((Statements["rules"] \o Statements["build"]) \o Statements["load"])
                  \o Statements["custom"])
    BY AfterFour
  <2>3. /\ Statements["build"] = Do("build", "US-TX")
        /\ Statements["custom"] = Do("insert_missing", Curated)
        /\ Statements["load"] =
             (Do("read", "US-TX") \o Do("replace", "US-TX")) \o Do("insert", "US-TX")
    BY DEF Statements, LoadRules
  <2>4. Sendable(p1)
    BY <1>1, SendableCat
  <2> HIDE DEF p0
  <2>5. p1 \o Statements["load"] = p2
    <3> HIDE DEF p1
    <3> QED
      BY <2>3, <2>4, CatThree, SMTT(30)
  <2> QED
    BY <2>1, <2>2, <2>3, <2>5 DEF p0
<1> HIDE DEF p0
<1>3. Sendable(p1) /\ Sendable(p2)
  BY <1>1, SendableCat
<1>4. c1 = Effect(c0, Stated("build", "US-TX"))
  BY <1>1, SendMore
<1>5. c3 = Effect(c2, Stated("insert_missing", Curated))
  <2> HIDE DEF p2
  <2> QED
    BY <1>3, SendMore
<1>6. DOMAIN c0.files = DOMAIN b.files /\ DOMAIN c0.tables = DOMAIN b.tables
  BY <1>1, DomainsStay
<1>7. /\ c1.graph = c0.graph /\ c1.tables = c0.tables
      /\ fetch_rules(c0.graph, "US-TX") # {} =>
           c1.files = [c0.files EXCEPT !["US-TX"] = fetch_rules(c0.graph, "US-TX")]
  <2> HIDE DEF c1, c0
  <2> QED
    BY <1>4, SendsBuild
<1>8. TableOf("US-TX") = "rules"
  BY DEF TableOf
<1>9. "rules" \in DOMAIN c1.tables /\ "US-TX" \in DOMAIN c0.files
  <2> HIDE DEF c1, c0
  <2> QED
    BY <1>6, <1>7 DEF TablesType, FilesType, States
<1>10. /\ c2.graph = c1.graph /\ c2.tables[TableOf("US-TX")] = SetToBag(c1.files["US-TX"])
       /\ DOMAIN c2.tables = DOMAIN c1.tables
  <2> HIDE DEF p1
  <2> QED
    BY <1>3, <1>8, <1>9, LoadDoes
<1> HIDE DEF c0, c1, c2, c3
<1>11. c3.graph = c2.graph /\ c3.tables = CustomOn(c2.tables)
  BY <1>5, SendsInsertMissing
<1> HIDE DEF missing
<1>12. ASSUME found # {}
       PROVE  c3.tables.rules = SetToBag(found \union missing)
  <2>1. found = fetch_rules(c0.graph, "US-TX")
    BY <1>7, <1>10, <1>11
  <2> HIDE DEF found
  <2>2. c1.files["US-TX"] = found
    BY <1>7, <1>9, <1>12, <2>1
  <2>3. c2.tables["rules"] = SetToBag(found) /\ "rules" \in DOMAIN c2.tables
    BY <1>8, <1>9, <1>10, <2>2
  <2>4. c3.tables["rules"] = InsertMissing(c2.tables["rules"])
    BY <1>11, <2>3 DEF CustomOn
  <2>5. DOMAIN SetToBag(found) = found
    BY BagSums
  <2>6. InsertMissing(SetToBag(found)) = SetToBag(found) (+) SetToBag(missing)
    BY <2>5 DEF InsertMissing, missing
  <2>7. found \intersect missing = {}
    <3> SUFFICES ASSUME NEW n \in Curated \ {row[1] : row \in found}, <<n, "US-TX">> \in found
                 PROVE  FALSE
      BY DEF missing
    <3>1. <<n, "US-TX">>[1] = n
      OBVIOUS
    <3> QED
      BY <3>1
  <2>8. SetToBag(found) (+) SetToBag(missing) = SetToBag(found \union missing)
    BY <2>7, BagSums
  <2> QED
    BY <2>3, <2>4, <2>6, <2>8
<1> QED
  BY <1>2, <1>12 DEF missing

\* TablesFollowGraph: after a load of the Texas rules the table has what fetch_rules finds
\* and the curated rules it does not find, each once, and after a load of the codes the
\* values in force, whatever the tables held before.
THEOREM TablesFollow == Spec => []TablesFollowGraph
<1>1. CanonInv => TablesFollowGraph
  <2> SUFFICES ASSUME CanonInv PROVE TablesFollowGraph
    OBVIOUS
  <2>1. TablesType(Now.tables) /\ FilesType(Now.files) /\ Now.graph = graph
    BY DEF CanonInv, Now
  <2>2. After(<<"build_codes", "load_codes">>, Now).tables.codes = SetToBag(fetch_codes(graph))
    BY <2>1, CodesFollow
  <2> DEFINE c == After(Targets.load_rules, Now)
             found == fetch_rules(c.graph, "US-TX")
  <2>3. found # {} => c.tables.rules = SetToBag(found \union
          {<<n, "US-TX">> : n \in Curated \ {row[1] : row \in found}})
    BY <2>1, RulesFollow
  <2> QED
    BY <2>2, <2>3 DEF TablesFollowGraph
<1> QED
  BY <1>1, Invariant, PTL
=============================================================================
