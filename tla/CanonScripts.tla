---------------------------- MODULE CanonScripts ----------------------------
(***************************************************************************)
(* The scripts that (re)build the knowledge graph and derive the reference *)
(* tables from it: rebuild_kg and what it calls, the migrations that give  *)
(* every node its jurisdiction and rules their SQL, and the builders and   *)
(* loaders of the rule and code tables.  A script sends one statement      *)
(* after the other, and each commits by itself; a run is a make target or  *)
(* the chain of them that brings a graph up.  Runs may overlap or die.     *)
(*                                                                         *)
(* A node stands for everything of one type and name.  How one extraction  *)
(* is written node by node is the business of Materialize, how targets of  *)
(* a bulletin get their dates that of BulletinCanon.  Statements that only *)
(* repeat one query for the entries of a list are one statement here.      *)
(***************************************************************************)
EXTENDS Naturals, Sequences, FiniteSets, Bags, SequencesExt

CONSTANTS
    Layouts, Fields, Lists, Values, Rules, Others,   \* nodes, by their label
    Overrides,      \* of the Others: BulletinOverrides
    Canonical,      \* CANONICAL_LAYOUTS of cleanup_kg
    Seeded, SeedLinks, SeedCites,    \* what seed creates, links, and cites a rule
    Docs,           \* documents with an extraction or a parser
    DocNodes, DocLinks, DocCites,    \* what each proposes
    Replayed,       \* those rebuild_kg replays, in the order of DOCS
    Parsed,         \* those parse_record_layout owns, in the order of TARGETS
    FloridaDocs,    \* those with a file FL_*.extraction.json
    Intake,         \* the one given to materialize_florida_extraction
    Federal,        \* rules and lists tag_federal_defaults looks for
    KgRules,        \* rules migrate_kg_validation_rules attaches SQL to
    Created,        \* the one rule it creates
    FlRules,        \* rules migrate_fl_validation_rules attaches SQL to
    Curated,        \* rule_ids of migrations 002 and 003
    CodeList,       \* the list of the code table
    Old,            \* nodes of a graph from before jurisdictions
    Runs,           \* slots for runs: how many may overlap
    Jobs,           \* what may be started: keys of Targets
    MaxStarts,      \* bound: runs that are started
    MaxMishaps      \* bound: runs that die or are overtaken by another

States == {"US-TX", "US-FL"}
Jurisdictions == {"US"} \union States
Infrastructure == {"TDI", "TICO", "FL-OIR", "Lone Star Mutual", "obligation"}
Nodes == UNION {Layouts, Fields, Lists, Values, Rules, Others, Infrastructure}
Links == Nodes \X Nodes
Florida == UNION {DocNodes[d] : d \in FloridaDocs}

ASSUME CanonAssumption ==
    /\ IsFiniteSet(Nodes)
    /\ Overrides \subseteq Others /\ Canonical \subseteq Layouts
    /\ Seeded \subseteq Nodes /\ SeedLinks \subseteq Links /\ SeedCites \subseteq Seeded
    /\ DocNodes \in [Docs -> SUBSET Nodes] /\ DocLinks \in [Docs -> SUBSET Links]
    /\ DocCites \in [Docs -> SUBSET Nodes]
    /\ Replayed \in Seq(Docs) /\ Parsed \in Seq(Docs) /\ FloridaDocs \subseteq Docs
    /\ Intake \in FloridaDocs
    /\ Federal \subseteq Rules \union Lists
    /\ KgRules \subseteq Rules /\ FlRules \subseteq Rules /\ Created \in Rules
    /\ CodeList \in Lists /\ Old \subseteq Nodes
    /\ MaxStarts \in Nat /\ MaxMishaps \in Nat

\* what the canon holds: no national rule or list is proposed by a Florida document
ASSUME FederalAssumption == Federal \intersect Florida = {}

\* a node has the label of its class
Kinds == <<Layouts, Fields, Lists, Values, Rules, Others>>

ASSUME LabelAssumption ==
    \A i, k \in DOMAIN Kinds : i # k => Kinds[i] \intersect Kinds[k] = {}

VARIABLES
    graph,      \* Neo4j: nodes with their properties, links, Jurisdiction nodes
    files,      \* materialized/reference/*.sql: the rows each inserts
    tables,     \* the reference tables of Snowflake
    job,        \* what each run is
    script,     \* the number of its current script
    pc,         \* its next statement
    noted,      \* what it has read or missed: listed nodes, or rows of a file
    stolen,     \* history: nodes retagged as Florida's that another run created
    turn,       \* the run that executed the last statement
    starts, mishaps

vars == <<graph, files, tables, job, script, pc, noted, stolen, turn, starts, mishaps>>

-----------------------------------------------------------------------------
(* The graph.                                                              *)

\* properties of a node: jurisdiction_code, APPLIES_IN, is_federal_default, whether
\* violation_sql, type and a CITES edge are there, status
Properties == [code : Jurisdictions \union {"null"}, scope : SUBSET Jurisdictions,
               federal : BOOLEAN, sql : BOOLEAN, type : BOOLEAN, cites : BOOLEAN,
               superseded : BOOLEAN]

\* GRENodeBase: the default jurisdiction_code is US-TX
Fresh == [code |-> "US-TX", scope |-> {}, federal |-> FALSE, sql |-> FALSE,
          type |-> TRUE, cites |-> FALSE, superseded |-> FALSE]

Empty == [node |-> <<>>, links |-> {}, jurisdictions |-> {}]

Present(g) == DOMAIN g.node

\* create what is missing, leave what is there
Merge(g, f) ==
    [g EXCEPT !.node = [n \in DOMAIN @ \union DOMAIN f |-> IF n \in DOMAIN @ THEN @[n] ELSE f[n]]]

Connect(g, L) ==
    [g EXCEPT !.links = @ \union {l \in L : l[1] \in Present(g) /\ l[2] \in Present(g)}]

Change(g, N, F(_)) ==
    [g EXCEPT !.node = [n \in DOMAIN @ |-> IF n \in N THEN F(@[n]) ELSE @[n]]]

\* mutant: DELETE of nodes without their relationships
DeleteOnly(g, N) == [g EXCEPT !.node = Restrict(@, DOMAIN @ \ N)]

DetachDelete(g, N) ==
    [g EXCEPT !.node = Restrict(@, DOMAIN @ \ N),
              !.links = {l \in @ : l[1] \notin N /\ l[2] \notin N}]

From(g, n) == {m \in Present(g) : <<n, m>> \in g.links}
To(g, n) == {m \in Present(g) : <<m, n>> \in g.links}

\* APPLIES_IN edges only reach Jurisdiction nodes there are
Known(g, j) == {j} \intersect g.jurisdictions

\* MERGE of a node of a jurisdiction, and of its APPLIES_IN edge
MergeScoped(g, n, j) ==
    Change(Merge(g, [m \in {n} |-> [Fresh EXCEPT !.code = j]]), {n},
           LAMBDA p : [p EXCEPT !.scope = @ \union Known(g, j)])

SeedNodes(g, N) ==
    LET new == Seeded \intersect N
    IN Connect(Merge(g, [n \in new |-> [Fresh EXCEPT !.cites = n \in SeedCites]]), SeedLinks)

SeedRules == Rules
SeedLayouts == Layouts
SeedCodes == Lists \union Values
SeedOthers == Others

\* materialize(): proposals of an existing type and name are reused
Materialize(g, d) ==
    Merge(g, [n \in DocNodes[d] |-> [Fresh EXCEPT !.cites = n \in DocCites[d]]])

MaterializeLinks(g, d) ==
    Change(Connect(g, DocLinks[d]), DocCites[d], LAMBDA p : [p EXCEPT !.cites = TRUE])

\* targets of the BulletinOverrides of the graph, but for layouts and fields
Overridden(g) ==
    {n \in Present(g) \ (Layouts \union Fields) : To(g, n) \intersect Overrides # {}}

ApplyBulletins(g) == Change(g, Overridden(g), LAMBDA p : [p EXCEPT !.superseded = TRUE])

-----------------------------------------------------------------------------
(* cleanup_kg: each DELETE has the predicate of the query that lists it.   *)

\* coalesce(jurisdiction_code, 'US-TX') = 'US-TX'
InTexas(g, n) == g.node[n].code \in {"US-TX", "null"}

PhantomLayouts(g) == {n \in Present(g) \intersect Layouts : n \notin Canonical /\ InTexas(g, n)}

OrphanFields(g) ==
    {n \in Present(g) \intersect Fields :
       InTexas(g, n) /\ (From(g, n) \union To(g, n)) \intersect Layouts = {}}

OrphanLists(g) ==
    {n \in Present(g) \intersect Lists :
       From(g, n) \intersect Values = {} /\ To(g, n) \intersect (Fields \union Overrides) = {}}

OrphanValues(g) ==
    {n \in Present(g) \intersect Values : To(g, n) \intersect Lists = {}}

Unwanted(g) ==
    UNION {PhantomLayouts(g), OrphanFields(g), OrphanLists(g), OrphanValues(g)}

-----------------------------------------------------------------------------
(* Jurisdictions.                                                          *)

\* seed_jurisdictions: step 4, and step 5 if there is a Jurisdiction US-TX
Backfill(g) ==
    Change(g, {n \in Present(g) : g.node[n].code = "null"},
           LAMBDA p : [p EXCEPT !.code = "US-TX"])

ScopeRest(g) ==
    Change(g, {n \in Present(g) : g.node[n].scope = {}},
           LAMBDA p : [p EXCEPT !.scope = Known(g, "US-TX")])

TagFederal(g, N) ==
    Change(g, Federal \intersect N, LAMBDA p : [p EXCEPT !.federal = TRUE, !.code = "US"])

\* mutant: the edge to US-TX is not deleted
RewireFederal(g, p) == p.scope \union {"US"}

\* APPLIES_IN from US-TX to US, if there is a Jurisdiction US
Rewired(g, p) == (p.scope \ {"US-TX"}) \union {"US"}

Rewire(g) ==
    Change(g, {n \in Present(g) : /\ g.node[n].federal /\ "US-TX" \in g.node[n].scope
                                  /\ "US" \in g.jurisdictions},
           LAMBDA p : [p EXCEPT !.scope = Rewired(g, p)])

\* seed_florida, materialize_florida_extraction: the edge to US-TX is replaced
ScopeFlorida(g, N) ==
    Change(g, N, LAMBDA p : [p EXCEPT !.scope = (@ \ {"US-TX"}) \union Known(g, "US-FL")])

CodeFlorida(g, N) == Change(g, N, LAMBDA p : [p EXCEPT !.code = "US-FL"])

-----------------------------------------------------------------------------
(* Rules and codes for Snowflake.                                          *)

\* migrate_kg_validation_rules, migrate_fl_validation_rules
Attach(g, N) ==
    Change(g, N, LAMBDA p : [p EXCEPT !.sql = TRUE, !.superseded = FALSE])

\* MERGE ... ON CREATE SET without type, jurisdiction_code and APPLIES_IN
CreateRule(g) ==
    Change(Merge(g, [n \in {Created} |-> [Fresh EXCEPT !.code = "null", !.type = FALSE]]), {Created},
           LAMBDA p : [p EXCEPT !.sql = TRUE])

FloridaRules(g) == {n \in FlRules \intersect Present(g) : "US-FL" \in g.node[n].scope}

\* fetch_rules: one row for each rule and jurisdiction it applies in
fetch_rules(g, j) ==
    {row \in (Present(g) \intersect Rules) \X {"US", j} :
       LET p == g.node[row[1]] IN row[2] \in p.scope /\ p.sql /\ ~p.superseded}

\* fetch_codes of codelist_generator
fetch_codes(g) == {n \in From(g, CodeList) \intersect Values : ~g.node[n].superseded}

\* mutant: every curated rule is inserted
InsertAll(rules) == rules (+) SetToBag(Curated \X {"US-TX"})

\* INSERT ... WHERE NOT EXISTS of the rule_id
InsertMissing(rules) ==
    rules (+) SetToBag({<<n, "US-TX">> : n \in Curated \ {row[1] : row \in DOMAIN rules}})

-----------------------------------------------------------------------------
(* Scripts.                                                                *)

Do(op, arg) == <<[op |-> op, arg |-> arg]>>

ForEach(op, S) == FlattenSeq([i \in DOMAIN S |-> Do(op, S[i])])

\* wipe_all and seed: seed wipes once more
Seed == Do("wipe", "seed") \o Do("seed", SeedRules) \o Do("seed", SeedLayouts)
        \o Do("seed", SeedCodes) \o Do("seed", SeedOthers)

\* the nodes, then the links and citations of each document
ReplayAll(D) == FlattenSeq([i \in DOMAIN D |-> Do("nodes", D[i]) \o Do("links", D[i])])

\* _ensure_fl_scaffolding
Scaffolding == Do("jurisdictions", {"US-FL"}) \o Do("merge_fl", "FL-OIR")

SeedFlorida == Scaffolding \o Do("retag", Florida)

\* mutant: lists are cleaned before the fields that use them
CleanupListsFirst == Do("list", "unwanted") \o Do("delete", "layouts")
                     \o Do("delete", "lists") \o Do("delete", "fields")
                     \o Do("delete", "values")

CleanupKg == Do("list", "unwanted") \o Do("delete", "layouts") \o Do("delete", "fields")
             \o Do("delete", "lists") \o Do("delete", "values")

\* mutant: phantom layouts are removed before Florida's are retagged
RebuildCleanupFirst ==
    Do("wipe", "rebuild") \o Seed \o ReplayAll(Replayed) \o ReplayAll(Parsed)
    \o CleanupKg \o SeedFlorida \o Do("apply", "all")

RebuildKg ==
    Do("wipe", "rebuild") \o Seed \o ReplayAll(Replayed) \o ReplayAll(Parsed)
    \o SeedFlorida \o CleanupKg \o Do("apply", "all")

MigrateValidationRules == ForEach("attach", SetToSeq(KgRules)) \o Do("create_rule", Created)

\* migrate_fl_validation_rules: each of FL_VALIDATION_RULES, by its name
MigrateFlRules == Do("attach_florida", FlRules)

SeedJurisdictions ==
    Do("jurisdictions", {"US", "US-TX"}) \o Do("merge_tx", "TDI") \o Do("merge_tx", "TICO")
    \o Do("backfill", "null") \o Do("scope_rest", "US-TX")

TagFederalDefaults == Do("federal", Rules) \o Do("federal", Lists) \o Do("rewire", "US")

SeedFilingObligations ==
    Do("merge_tx", "Lone Star Mutual") \o Do("obligation", "obligation")
    \o Do("connect", <<"obligation", "Lone Star Mutual">>)
    \o Do("connect", <<"obligation", "TICO">>) \o Do("merge_tx", "obligation")

\* _ensure_fl_jurisdiction
IntakeScaffolding == Do("jurisdictions", {"US-FL"}) \o Do("merge_fl", "FL-OIR")

MaterializeFlorida ==
    IntakeScaffolding \o Do("before", Intake) \o Do("nodes", Intake) \o Do("links", Intake)
    \o Do("after", Intake) \o Do("code_new", Intake) \o Do("scope_new", Intake)

KgHygiene == Do("types", "null") \o Do("citations", "codelist")

LoadRules(j) == Do("read", j) \o Do("replace", j) \o Do("insert", j)

LoadCodes == Do("read", "codes") \o Do("replace", "codes") \o Do("insert", "codes")

Statements == [
    rebuild       |-> RebuildKg,
    cleanup       |-> CleanupKg,
    rules         |-> MigrateValidationRules,
    fl_rules      |-> MigrateFlRules,
    jurisdictions |-> SeedJurisdictions,
    federal       |-> TagFederalDefaults,
    obligations   |-> SeedFilingObligations,
    florida       |-> SeedFlorida,
    intake        |-> MaterializeFlorida,
    hygiene       |-> KgHygiene,
    build         |-> Do("build", "US-TX"),
    build_fl      |-> Do("build", "US-FL"),
    build_codes   |-> Do("build_codes", "codes"),
    load          |-> LoadRules("US-TX"),
    load_fl       |-> LoadRules("US-FL"),
    load_codes    |-> LoadCodes,
    custom        |-> Do("insert_missing", Curated)]

\* conftest, and the order in which a graph is brought up
Restore == <<"rebuild", "rules", "jurisdictions", "federal", "obligations", "florida",
             "fl_rules">>

\* make targets with their prerequisites
Targets == [
    restore       |-> Restore,
    rebuild       |-> <<"rebuild">>,
    cleanup       |-> <<"cleanup">>,
    jurisdictions |-> <<"jurisdictions">>,
    federal       |-> <<"federal">>,
    florida       |-> <<"florida">>,
    intake        |-> <<"intake">>,
    hygiene       |-> <<"hygiene">>,
    load_rules    |-> <<"rules", "build", "load", "custom">>,
    load_florida  |-> <<"fl_rules", "build_fl", "load_fl">>,
    load_all      |-> <<"build_codes", "load_codes", "load", "load_fl">>]

ASSUME JobAssumption == Jobs \subseteq DOMAIN Targets

-----------------------------------------------------------------------------
(* The effect of a statement on c: the graph, the files, the tables and    *)
(* what the run has noted.                                                 *)

Unlisted(g, what) ==
    CASE what = "layouts" -> PhantomLayouts(g) [] what = "fields" -> OrphanFields(g)
      [] what = "lists" -> OrphanLists(g)      [] what = "values" -> OrphanValues(g)

\* kg_hygiene: a value without citation is given one of its list
Uncited(g) ==
    {n \in Present(g) \intersect Values :
       ~g.node[n].cites /\ \E l \in To(g, n) \intersect Lists : g.node[l].cites}

OnGraph(s, g, noted_r) ==
    CASE s.op = "wipe"           -> Empty
      [] s.op = "seed"           -> SeedNodes(g, s.arg)
      [] s.op = "nodes"          -> Materialize(g, s.arg)
      [] s.op = "links"          -> MaterializeLinks(g, s.arg)
      [] s.op = "apply"          -> ApplyBulletins(g)
      [] s.op = "delete"         -> DetachDelete(g, Unlisted(g, s.arg))
      [] s.op = "jurisdictions"  -> [g EXCEPT !.jurisdictions = @ \union s.arg]
      [] s.op = "merge_tx"       -> MergeScoped(g, s.arg, "US-TX")
      [] s.op = "merge_fl"       -> MergeScoped(g, s.arg, "US-FL")
      [] s.op = "backfill"       -> Backfill(g)
      [] s.op = "scope_rest"     -> ScopeRest(g)
      [] s.op = "federal"        -> TagFederal(g, s.arg)
      [] s.op = "rewire"         -> Rewire(g)
      [] s.op = "obligation"     -> Merge(g, [n \in {s.arg} |-> Fresh])
      [] s.op = "connect"        -> Connect(g, {s.arg})
      [] s.op = "retag"          -> ScopeFlorida(CodeFlorida(g, s.arg), s.arg)
      [] s.op = "code_new"       -> CodeFlorida(g, noted_r \ {"TDI", "FL-OIR"})
      [] s.op = "scope_new"      -> ScopeFlorida(g, noted_r)
      [] s.op = "attach"         -> Attach(g, {s.arg})
      [] s.op = "create_rule"    -> CreateRule(g)
      [] s.op = "attach_florida" -> Attach(g, FloridaRules(g))
      [] s.op = "types"          -> Change(g, Present(g), LAMBDA p : [p EXCEPT !.type = TRUE])
      [] s.op = "citations"      -> Change(g, Uncited(g), LAMBDA p : [p EXCEPT !.cites = TRUE])
      [] OTHER                   -> g

\* a build that finds no rules leaves the file as it was
OnFiles(s, g, f) ==
    CASE s.op = "build" /\ fetch_rules(g, s.arg) # {} -> [f EXCEPT ![s.arg] = fetch_rules(g, s.arg)]
      [] s.op = "build_codes"                         -> [f EXCEPT ![s.arg] = fetch_codes(g)]
      [] OTHER                                        -> f

TableOf(file) == IF file = "codes" THEN "codes" ELSE "rules"

\* CREATE OR REPLACE TABLE; INSERT; INSERT ... WHERE NOT EXISTS
OnTables(s, t, noted_r) ==
    CASE s.op = "replace"        -> [t EXCEPT ![TableOf(s.arg)] = EmptyBag]
      [] s.op = "insert"         -> [t EXCEPT ![TableOf(s.arg)] = @ (+) SetToBag(noted_r)]
      [] s.op = "insert_missing" -> [t EXCEPT !.rules = InsertMissing(@)]
      [] OTHER                   -> t

OnNotes(s, c) ==
    CASE s.op = "list"           -> Unwanted(c.graph)
      [] s.op = "before"         -> Present(c.graph)
      [] s.op = "after"          -> Present(c.graph) \ c.noted
      [] s.op = "attach_florida" -> FlRules \ FloridaRules(c.graph)
      [] s.op = "read"           -> c.files[s.arg]
      [] OTHER                   -> c.noted

Effect(c, s) == [graph  |-> OnGraph(s, c.graph, c.noted),
                 files  |-> OnFiles(s, c.graph, c.files),
                 tables |-> OnTables(s, c.tables, c.noted),
                 noted  |-> OnNotes(s, c)]

-----------------------------------------------------------------------------
(* Runs.                                                                   *)

Rows == (Nodes \union Curated) \X Jurisdictions

TypeOK ==
    /\ Present(graph) \subseteq Nodes
    /\ graph.node \in [Present(graph) -> Properties]
    /\ graph.links \subseteq Present(graph) \X Present(graph)
    /\ graph.jurisdictions \subseteq Jurisdictions
    /\ DOMAIN files = States \union {"codes"}
    /\ \A j \in States : files[j] \subseteq Rows
    /\ files["codes"] \subseteq Values
    /\ DOMAIN tables = {"rules", "codes"}
    /\ IsABag(tables.rules) /\ DOMAIN tables.rules \subseteq Rows
    /\ IsABag(tables.codes) /\ DOMAIN tables.codes \subseteq Values
    /\ job \in [Runs -> Jobs \union {"none"}]
    /\ script \in [Runs -> Nat \ {0}] /\ pc \in [Runs -> Nat \ {0}]
    /\ \A r \in Runs : noted[r] \subseteq Nodes \union Rows
    /\ stolen \subseteq Nodes
    /\ turn \in Runs
    /\ starts \in 0..MaxStarts /\ mishaps \in 0..MaxMishaps

Legacy == [Fresh EXCEPT !.code = "null"]

\* the files are those of the repository; the graph is empty or from before jurisdictions
Init ==
    /\ graph \in {Empty, Connect(Merge(Empty, [n \in Old |-> Legacy]), SeedLinks)}
    /\ files = [f \in States \union {"codes"} |->
                  CASE f = "US-TX" -> {<<Created, f>>}
                    [] f = "US-FL" -> FlRules \X {f}
                    [] OTHER -> {}]
    /\ tables = [rules |-> EmptyBag, codes |-> EmptyBag]
    /\ job = [r \in Runs |-> "none"]
    /\ script = [r \in Runs |-> 1] /\ pc = [r \in Runs |-> 1]
    /\ noted = [r \in Runs |-> {}]
    /\ stolen = {}
    /\ turn \in Runs
    /\ starts = 0 /\ mishaps = 0

Script(r) == Targets[job[r]][script[r]]
Active(r) == job[r] # "none"
Over(r) == Active(r) /\ pc[r] > Len(Statements[Script(r)])

\* the run that executed the last statement is not at its end
Overtakes(r) == IF turn # r /\ Active(turn) THEN 1 ELSE 0

Goto(r, j, s, i) ==
    /\ job' = [job EXCEPT ![r] = j]
    /\ script' = [script EXCEPT ![r] = s]
    /\ pc' = [pc EXCEPT ![r] = i]

Stop(r) == Goto(r, "none", 1, 1)
NextOf(r) == Goto(r, job[r], script[r] + 1, 1)

\* a script that fails ends its run, but for the chain of conftest, which goes on
Ends(r) ==
    /\ noted' = [noted EXCEPT ![r] = {}]
    /\ \/ Stop(r)
       \/ job[r] = "restore" /\ script[r] < Len(Targets[job[r]]) /\ NextOf(r)

\* rc 1: an executable rule is missing, or there is none to build a file from
Fails(s, c) ==
    \/ s.op = "attach_florida" /\ c.noted # {}
    \/ s.op = "build" /\ fetch_rules(c.graph, s.arg) = {}

\* "Nothing to clean." returns before the deletions
Skips(s, c) == s.op = "list" /\ c.noted = {}

\* one statement; nodes that are seeded again have new ids, not those another run noted
Execute(r) ==
    /\ Active(r) /\ ~Over(r)
    /\ mishaps + Overtakes(r) <= MaxMishaps
    /\ LET s == Statements[Script(r)][pc[r]]
           c == Effect([graph |-> graph, files |-> files, tables |-> tables,
                        noted |-> noted[r]], s)
       IN /\ graph' = c.graph /\ files' = c.files /\ tables' = c.tables
          /\ stolen' = IF s.op = "code_new" THEN stolen \union (noted[r] \ DocNodes[Intake])
                       ELSE stolen
          /\ IF Fails(s, c) THEN Ends(r)
             ELSE /\ noted' = [q \in Runs |-> IF q = r THEN c.noted
                                             ELSE IF s.op = "wipe" THEN noted[q] \ Seeded
                                             ELSE noted[q]]
                  /\ Goto(r, job[r], script[r], IF Skips(s, c) THEN pc[r] + 5 ELSE pc[r] + 1)
    /\ mishaps' = mishaps + Overtakes(r)
    /\ turn' = r
    /\ UNCHANGED starts

\* the next script of the target, if there is one
NextScript(r) ==
    /\ Over(r)
    /\ IF script[r] < Len(Targets[job[r]]) THEN NextOf(r) ELSE Stop(r)
    /\ noted' = [noted EXCEPT ![r] = {}]
    /\ UNCHANGED <<graph, files, tables, stolen, turn, starts, mishaps>>

\* a process fails or is killed; in conftest, a timeout of make ends the whole chain
Die(r) ==
    /\ Active(r) /\ mishaps < MaxMishaps
    /\ mishaps' = mishaps + 1
    /\ Ends(r)
    /\ UNCHANGED <<graph, files, tables, stolen, turn, starts>>

\* build_all_reference_tables reports a table that fails and goes on
BuildFails(r) ==
    /\ Active(r) /\ ~Over(r) /\ Script(r) = "build_codes" /\ mishaps < MaxMishaps
    /\ mishaps' = mishaps + 1
    /\ Goto(r, job[r], script[r], pc[r] + 1)
    /\ UNCHANGED <<graph, files, tables, noted, stolen, turn, starts>>

Start(r, j) ==
    /\ ~Active(r) /\ starts < MaxStarts
    /\ starts' = starts + 1
    /\ Goto(r, j, 1, 1)
    /\ UNCHANGED <<graph, files, tables, noted, stolen, turn, mishaps>>

Next ==
    \E r \in Runs :
      \/ \E j \in Jobs : Start(r, j)
      \/ Execute(r) \/ NextScript(r) \/ Die(r) \/ BuildFails(r)

Spec == Init /\ [][Next]_vars

-----------------------------------------------------------------------------
(* Properties.  Those that speak of scripts run on their own are asked of  *)
(* every state in which no run is under way, whatever the runs before,     *)
(* overlapping or dead, have left behind.                                  *)

Quiet == \A r \in Runs : ~Active(r)

Now == [graph |-> graph, files |-> files, tables |-> tables, noted |-> {}]

\* scripts S, one after the other and undisturbed, from c
After(S, c) == FoldLeft(Effect, c, FlattenSeq([i \in DOMAIN S |-> Statements[S[i]]]))

\* However runs overlap, no proposed node applies in two jurisdictions, else its rule
\* is loaded twice; but for nodes materialize_florida_extraction takes for its own, as
\* they appeared while it ran (seed_jurisdictions, tag_federal_defaults, seed_florida).
OneScope ==
    \A n \in Present(graph) \ (stolen \union Infrastructure) :
      Cardinality(graph.node[n].scope) <= 1

\* what is left of the proposals: canonical and Florida's layouts with their fields,
\* lists that have values or are used, values of a list
ReplayedDocs == Range(Replayed) \union Range(Parsed)
Proposed == Seeded \union UNION {DocNodes[d] : d \in ReplayedDocs}
ProposedLinks == SeedLinks \union UNION {DocLinks[d] : d \in ReplayedDocs}
KeptLayouts == Proposed \intersect Layouts \intersect (Canonical \union Florida)
KeptFields ==
    {n \in Proposed \intersect Fields :
       n \in Florida \/ \E l \in KeptLayouts : {<<n, l>>, <<l, n>>} \intersect ProposedLinks # {}}
KeptLists ==
    {n \in Proposed \intersect Lists :
       \/ \E v \in Values : <<n, v>> \in ProposedLinks
       \/ \E u \in KeptFields \union Overrides : <<u, n>> \in ProposedLinks}
KeptValues ==
    {n \in Proposed \intersect Values : \E l \in Lists : <<l, n>> \in ProposedLinks}
Kept == UNION {KeptLayouts, KeptFields, KeptLists, KeptValues,
               Proposed \intersect (Rules \union Others)}

HomeOf(n) ==
    CASE n \in Florida \union {"FL-OIR"} -> "US-FL" [] n \in Federal -> "US"
      [] OTHER -> "US-TX"

\* "KG is in a clean, fully reproducible state": the chain of conftest, whatever it
\* finds, ends in one graph: nothing unwanted, every node in force in the jurisdiction
\* its code names and in no other, the rules with their SQL.
ChainRestores ==
    Quiet =>
      LET g == After(Restore, Now).graph
      IN /\ Present(g) = UNION {Kept, Infrastructure, {Created}}
         /\ \A n \in Present(g) :
              /\ g.node[n].code = HomeOf(n) /\ g.node[n].scope = {HomeOf(n)}
              /\ g.node[n].federal = (n \in Federal)
              /\ g.node[n].sql = (n \in UNION {{Created}, FlRules, KgRules})
              /\ g.node[n].superseded =
                   (n \notin KgRules /\ \E o \in Overrides : <<o, n>> \in ProposedLinks)
         /\ g.links = (ProposedLinks \intersect (Kept \X Kept))
                      \union ({"obligation"} \X {"Lone Star Mutual", "TICO"})

\* "Re-run is idempotent": a script that has run to its end, on any graph, finds
\* nothing to do when it runs again (cleanup_kg, kg_hygiene, seed_jurisdictions,
\* tag_federal_defaults, seed_florida, seed_filing_obligations, migrations 002, 003).
RerunsChangeNothing ==
    Quiet =>
      \A s \in {"cleanup", "hygiene", "jurisdictions", "federal", "florida",
                "obligations", "custom"} :
        LET c == After(<<s>>, Now)
            d == After(<<s>>, c)
        IN d.graph = c.graph /\ d.tables = c.tables

\* After load-custom-validation-rules the table holds what fetch_rules finds, and the
\* curated rules it does not find, each once; after load-reference-all the code table
\* holds the values in force, whatever stale or doubled rows were there before.
TablesFollowGraph ==
    Quiet =>
      LET c == After(Targets.load_rules, Now)
          found == fetch_rules(c.graph, "US-TX")
          d == After(<<"build_codes", "load_codes">>, Now)
      IN /\ found # {} =>
              c.tables.rules = SetToBag(found \union
                {<<n, "US-TX">> : n \in Curated \ {row[1] : row \in found}})
         /\ d.tables.codes = SetToBag(fetch_codes(graph))

\* build_validation_rules_reference.py:140: "Replace only this jurisdiction's rows so
\* multi-jurisdiction loads accumulate safely."
LoadsAccumulate ==
    [][\A s \in States : \A row \in DOMAIN tables.rules :
         row[2] = s /\ row \notin DOMAIN tables'.rules =>
           \E r \in Runs : Active(r) /\ Script(r) = (IF s = "US-TX" THEN "load" ELSE "load_fl")]_vars
=============================================================================
