# TLA+ models of RegulAI

RegulAI turns regulatory documents into a knowledge graph (KG) and uses it to
validate, sign off and submit statistical filings built from an insurer's
records. This directory holds TLA+ modules for the parts of it that keep state,
the TLC configurations that check them on small instances, and proofs that TLAPS
checks for every value of the constants. Source paths below are relative to the
repository.

## 1. The system

### Components, their state and their operations

| Component | Source | State | Operations |
|---|---|---|---|
| Filing lifecycle | `api/rhs_demo.py` | Snowflake tables FILING_BATCH, FILING_EXCEPTION, RULE_MATCH_RESULT, FILING_SUBMISSION, USER_ACTION, BRONZE.* | validate, approve (analyst, actuary, officer), seal, acknowledge, fix a Bronze field, view |
| Filing registry | `packages/rhs/filings.py` | FilingObligation nodes of the KG, a Python list as fallback | load, map a policy to its filing |
| Uploads | `packages/uploads/storage.py`, `api/main.py`, `dagster_project/ops/upload_ops.py` | `_registry.json`, one directory per upload | upload and convert, process, mark done or failed |
| Conversion | `packages/uploads/xlsx_to_parquet.py` | none | worksheet to Parquet, with an error per bad cell |
| Schedule | `packages/scheduling`, `dagster_project/schedules.py` | `schedule.json` | save, read on every tick, run now |
| Bulletin and canon versions | `scripts/apply_*bulletin.py`, `scripts/reset_*.py`, `scripts/build_reference_*.py` | KG nodes and SUPERSEDES edges, REFERENCE tables | apply, bump versions, reset, rebuild reference |
| KG materialization | `packages/lhs/materialization`, `packages/adapters/lhs/gre` | KG nodes and relationships | materialize an approved extraction |
| KG rebuild and cleanup | `scripts/rebuild_kg.py`, `seed.py`, `cleanup_kg.py`, `kg_hygiene.py`, `tests/conftest.py` | the KG | wipe, seed and replay, remove orphans, restore |
| Jurisdictions | `scripts/seed_jurisdictions.py`, `tag_federal_defaults.py`, `seed_florida.py`, `materialize_florida_extraction.py` | codes and APPLIES_IN edges of the KG | backfill, tag, retag |
| Rule and code reference | `scripts/migrate_*_validation_rules.py`, `build_validation_rules_reference.py`, `packages/rhs/codelist_generator.py`, `migrations/002`, `003` | rules of the KG, `materialized/reference/*.sql`, REFERENCE tables | attach SQL, build a file, load it |
| Medallion pipeline | `scripts/load_bronze_*.py`, `run_silver.py`, `run_gold.py`, `dagster_project` | BRONZE, SILVER, GOLD tables | load, transform, aggregate, flag anomalies |
| Wire format | `scripts/parse_record_layout.py`, `generate_sample_submission.py`, `validate_submission.py`, `validate_kg_coverage.py`, `position_resolver.py` | layouts, fields and code lists of the KG | parse a layout, resolve positions, report coverage, generate and validate records |
| Sentinel, citations, UIs | `packages/lhs/sentinel`, `packages/lhs/citations`, `web` | files written by an external model | extract, highlight, display |

### How they interact

The API process serves the web UI. Its handlers in `rhs_demo.py` are ordinary
(`def`) FastAPI endpoints, which run in a pool of threads; `upload_xlsx` is
`async def` and runs on the event loop. Handlers talk to Snowflake through
`packages/rhs/snowflake_client.py`: one shared connection, one statement per call,
committed at once. There is no transaction around a request, so between any two
statements of a handler another handler may run, and everything a handler has read
is a copy that may be out of date when it writes.

Dagster runs the pipeline and the processing of uploads in its own process and
launches the scripts as subprocesses. API and Dagster share the upload registry
file and the Snowflake tables, and nothing else. The bulletin endpoints run the KG
scripts as subprocesses and load the generated SQL.

Validation reads BRONZE, not GOLD; the sealed file is rendered from GOLD. The two
agree only when the pipeline ran after the last fix.

### What is hard here

* read-then-write handlers over single-statement commits (approve, seal,
  acknowledge, validate, the ensure of a FILING_BATCH row);
* audit writes that swallow their exceptions, so a request goes on after half of
  its writes failed;
* identifiers that are functions of the content (exceptions, KG nodes), so that a
  second occurrence meets the first one's row;
* the upload registry, one JSON file rewritten whole by two processes;
* a fast Dagster run against the `processing` mark written after it was launched;
* applying a bulletin twice, or half of it;
* TRUNCATE and reload of tables that other requests read;
* two pipeline runs at once (the schedule, "Run now", an upload, a command): nothing
  keeps them apart, and their statements interleave in all three layers;
* a pipeline run that dies between a TRUNCATE and the INSERT after it;
* scripts over the graph that must run in one order, each of many statements that
  commit by themselves: a chain that dies leaves any prefix of them, and two at a time
  any mixture;
* nodes told apart by when they appeared, and jurisdictions kept twice, as a property
  and as an edge;
* tables printed over page breaks, with page numbers that look like codes, codes that
  look like columns, and headers that are repeated;
* two programs that write and check the same columns by rules of their own.

PROJECT.json lists these as hazards, each at its line, with the property that
covers it or the reason none does.

### What makes each component correct

* Filing lifecycle: no signature is skipped or lost; status, blockers and
  exceptions describe the same validation; a submitted filing has its sealed file
  on record.
* Uploads: an upload that was accepted ends as done or failed and can be processed
  again; a mark is not lost; no reader sees half a registry.
* Bulletin: after apply one version of each code list is active and it is the
  bulletin's; after reset it is the baseline's.
* Materialization: one active node per key, edges between existing nodes,
  approving twice is approving once.
* Rebuild, jurisdictions: from any graph the chain of scripts ends in one and the same
  graph; a node applies in one jurisdiction; what is said to be idempotent is.
* Rule and code reference: after a load the table holds what the graph says, once.
* Wire format: no column and no code of a layout is lost on the way to the graph, and a
  record made from the graph passes the check made from the graph.
* Pipeline: a run that nothing disturbs leaves every layer equal to what Bronze
  holds, each row once, whatever was left before; what is sealed is what was validated.

## 2. Modules

| Module | Models |
|---|---|
| `FilingLifecycle` | the handlers of `api/rhs_demo.py` on one filing, one action per SQL statement |
| `FilingStateMachine` | abstract: the strict state machine of `docs/poc-decisions.md:602` |
| `MCFilingLifecycle` | values of the constants for TLC |
| `UploadRegistry` | the registry file of the uploads and the processes that rewrite it |
| `UploadMap` | abstract: a map from uploads to statuses with atomic updates |
| `MCUploadRegistry` | values of the constants for TLC |
| `BulletinCanon` | apply and reset of the bulletin, one action per Cypher or SQL statement |
| `MCBulletinCanon` | values of the constants for TLC |
| `Materialize` | approvals of extractions, one action per Cypher statement |
| `MCMaterialize` | values of the constants for TLC |
| `Pipeline` | the scripts from Bronze to Gold, one action per SQL statement, and the runs that execute them |
| `MCPipeline` | values of the constants for TLC |
| `CanonScripts` | the scripts that rebuild the graph, give nodes their jurisdiction and load rules and codes; one action executes one statement |
| `MCCanonScripts` | values of the constants for TLC: a node of every kind the scripts tell apart |
| `WireFormat` | a record layout from the lines of a document to records and their verdicts |
| `MCWireFormat` | values of the constants for TLC: documents, rows and extractions |
| `FilingLifecycleProofs` | type correctness of `FilingLifecycle` |
| `SignoffProofs` | the theorems of `FilingLifecycle` about signatures, custody, the log and the state machine |
| `UploadProofs` | the theorems of `UploadRegistry` |
| `BulletinCanonProofs` | the theorems of `BulletinCanon` |
| `MaterializeProofs` | the theorems of `Materialize` |
| `PipelineProofs` | the theorems of `Pipeline` |
| `CanonScriptsProofs` | the theorems of `CanonScripts`, but for `ChainRestores` |
| `WireFormatProofs` | the theorems of `WireFormat` |

### FilingLifecycle

State. `batch` is the list of FILING_BATCH rows of one filing (a list, because
Snowflake does not enforce the primary key and two first requests may both insert),
`exc` the resolution status of each possible exception, `match` the latest
RULE_MATCH_RESULT per rule, `submissions` and `log` the submission and USER_ACTION
tables, `bronze` the violations present in the records. A violation is a *key*, a
pair of a policy and a rule, which is exactly what the exception identifier and the
`current_keys` of `_record_validation_run` distinguish. `reached` is a history
variable: the sign-off states ever written. `blurred` is another: the last validation
overlapped with one that was recording its result too, or was broken off. `faults`
counts failures.

Each handler has a program counter (`pc`), the operation it serves (`op`) and the
locals it carries between statements: the violations found so far, the next rule,
the rows left in a loop. `_ensure_filing_batch` is called from three
places, so a handler remembers where it continues (`cont`).

Actions and code:

| Action | Statement |
|---|---|
| `ReadScope`, `EvaluateRule` | the SELECT of record policies, the SELECT of one rule (`validate_cancellations`) |
| `InsertMatches`, `MergeException`, `SelectOpen`, `CloseException`, `UpdateSummary` | the statements of `_record_validation_run`, in order |
| `EnsureSelect`, `EnsureInsert` | `_ensure_filing_batch` |
| `RecordAction` | the INSERT of `_record_action` |
| `ApproveGate`, `ApproveWrite` | `filing_approve` |
| `SealGate`, `SealSubmission`, `SealWrite` | the `persist` branch of `filing_file` |
| `AckGate`, `AckReceipt`, `AckWrite` | `filing_ack` |
| `FixBronze`, `ReloadBronze` | `bronze_fix`, a load of the Bronze tables |
| `ScopeRaises`, `RuleRaises`, `EnsureRaises`, `StatementRaises`, `SealStatementRaises` | a statement raises: what the `except` around it does |
| `Restart` | the API process dies with every request in flight |

A gate reads `rows[0]` of a SELECT without ORDER BY, so it may see any of the
rows. An UPDATE writes every row of the filing.

Abstracted: contents of rows, citations, `resolution_action`, identifiers (they are
functions of the key; truncation to 8 characters of the rule id makes no two of the
present rules collide), the rendering of the file. The set of rules is fixed during
a behaviour. The filing is known to the registry throughout.

`MaxSubmissions` bounds the FILING_SUBMISSION table by limiting how many seal
requests are accepted; `MaxFaults` bounds failures. Both are arbitrary natural
numbers in the proofs.

### Properties

* `SignaturesComplete`: nobody's signature is skipped.
* `NeverUnsigned`: nothing takes a signed filing back behind the signatures.
* `StatusMatchesBlockers`: `validated`/`resolving` and `open_blockers` agree.
* `CustodyOnRecord`: submitted and acked filings have their submission row.
* `TransitionsLogged`: each transition left its USER_ACTION row.
* `ImplementsMachine`: the filing follows the documented state machine.
* `ValidatedHasNoOpenBlocker`: no open ERROR exception beside `validated` once the requests
  are answered. Exceptions and status are written by many statements; two validations that
  record at the same time, or one that dies, can leave them apart (`blurred`), and the next
  one that records alone and to its end repairs that.
* `SealedOnlyWhenClear`: what a comment says, and the code does not do: between the gate of
  the seal and its UPDATE a validation may write its summary.

The id of an exception is a function of filing, policy and rule, and `MergeException`
only inserts what is absent. A violation that was fixed and comes back is therefore not
opened again, although `tests/test_critical_paths.py:52-53` expects the open exceptions
to be the violations; no property asks for it.

A rule whose SQL raises (`RuleRaises`) counts as one without violations: its row in
RULE_MATCH_RESULT says `pass` although the column also knows `error`, and its open
exceptions are closed.

### UploadRegistry

State. `reg` and `tmp` are the texts of `_registry.json` and `_registry.tmp`: absent,
empty (truncated, not yet written), JSON for some records, or garbage. Garbage is
what is left when a shorter text is written over a longer one, which happens when two
writers have the temporary file open. `handle` says which file an actor has open: a
rename moves an open `_registry.tmp` under the registry's name, and its writer then
writes into the registry. `dirs` and `parquet` are the directories on disk, `ran`
is a history of the uploads a run brought through Gold, and `raced` another: two actors
have been between the load and the rename of a save at the same time. An actor is the API's event
loop (`upload_xlsx` does not await after reading the file, so it runs alone there), a
request thread (`process_upload`) or a Dagster run.

| Action | Code |
|---|---|
| `Receive`, `Convert` | `upload_xlsx` |
| `Ask`, `Get`, `Launch`, `LaunchFails` | `process_upload` |
| `Check`, `LoadBronze` | `op_load_bronze_from_upload` |
| `Medallion` | the ops of `upload_to_gold_job` that `op_mark_upload_done` waits for |
| `Load`, `OpenTmp`, `WriteTmp`, `Replace`, `ReplaceMisses` | `record_upload`, `update_upload_status`, `_save_registry` |
| `ConvertRaises`, `Restart`, `RunDies` | failures |

Abstracted: a record is its status; the `meta.json` sidecars are not read by any code
and are left out. Reading a file is one step; so is writing it after it was opened.

Properties:

* `StatusEarned`: a status in the registry was true at some time, whatever was lost.
* `AllUploadsListed` (the registry parses and lists what was converted), `ImplementsMap`:
  what the registry promises. They hold until two saves overlap, whoever saves and
  wherever a writer is stopped. After that they fail: a save from a copy read before
  another's save drops an upload that was accepted. `UploadMap` is the life of an upload
  as `main.py` and the run write it, which lets the end of a run be marked before, or
  instead of, `processing`.
* `ProcessingInFlight`: what the comments say of `processing`, and the code does not do.

No liveness is stated: a request or a run is a straight line without waiting, and the
one thing that should eventually happen, that `processing` ends, is refuted as a
safety property at quiescence.

### BulletinCanon

State. `status` holds the status of each CodeValue of the reason-code list (the
original version of code L, the bulletin's, and the other codes), `doc`, `override`
and `targets` the nodes and OVERRIDES edges of the bulletin, `file` the rows of the
generated SQL, `table` how often each CodeValue has a row in
REFERENCE.TSPR_REASON_CODE_MAP (its primary key is not enforced). `old` is the
CodeValue a request looked up as the one to supersede. `alone` and `from` are
histories: whether another request overlapped this one, and which canon it found.

| Action | Code |
|---|---|
| `Start`, `Answer` | `bulletin_apply`, `bulletin_reset` |
| `MergeDoc`, `FindOld`, `CreateNew`, `CreateOverride` | `apply_credit_score_bulletin.py` |
| `LookUp`, `SelectTargets`, `Supersede` | `apply_bulletin.py` |
| `DeleteNew`, `DeleteOverride`, `DeleteDoc`, `Restore` | `reset_credit_score_bulletin.py` |
| `Build` | `build_reference_reason_codes.py` |
| `ReplaceTable`, `InsertRow` | the generated file, loaded with `snow sql` |
| `Dies` | a statement raises, a script times out, the API stops |

Abstracted: `FindOld` takes any of several active versions, as `single()` does over
an unordered MATCH; rows are inserted in any order; CREATE OR REPLACE and the DELETE
after it are one step (nothing can be read from the table between them that could
not be read after), and so are reading and writing the generated file. Left out: the
audit entries, the CITES edges and the backfill of `effective_from` (it looks for
rules the bulletin cites, and this one cites a document).

Properties:

* `ResetRestores`: a reset that runs by itself restores graph and table from
  anything earlier requests left.
* `ApplyTakesEffect`: an apply that runs by itself from the baseline takes effect.
* `CodeKept`: during such an apply code L always has an active version.

The docstring of the script says more ("Idempotent - safe to re-run.",
`apply_credit_score_bulletin.py:12`). It is not so: a second apply looks up the version
the first one created as the one to override, and supersedes it, so that no version of
code L is active. `ResetRestores` covers the way back.

### Materialize

State. `nodes` and `edges` are the graph: of a node its id, its key (type and name),
its content hash, the node it refers to (`document_id`, `code_list_id`,
`bulletin_ref`, `from_report_id`), whether it is active, and, as a history, the
extraction it came from; `edges` counts the parallel relationships of each kind. A
request has its phase (`pc`), its place in the list of that phase (`pos`), the ids
resolved so far (`uuid`, the code's `temp_id_to_uuid`) and what it does with each
proposal (`plan`: `existing_by_temp_id` and `in_extraction_dups`). `history`, `again`
and `quiet` are histories: whether the extraction was approved before, and whether a
version was superseded since.

| Action | Code |
|---|---|
| `Approve` | `approve_extraction`, the parser boundary |
| `FindHash`, `FindName` | the two lookups of `_resolve_temp_ids`, per proposal |
| `Create` | the loop over `proposed_to_typed_node` and `create_node` |
| `Link`, `Cite` | the loops over relationships and citations, each one MERGE |
| `Answer` | the snapshot and the response |
| `Fails` | a statement raises, the API stops |
| `Bump` | one statement of `apply_bulletin.py --all` |

An id made by the code is a function of the key (`NodeId`), so a CREATE of a key that
has such a node violates `node_id_unique`; that exception is not a ValueError and ends
the request. Seeded nodes have random ids, which is why a key can still get a second
node. A lookup by name that finds several nodes takes any of them; a lookup by hash
sees superseded ones too.

Abstracted: a proposal is known by its place in the list, which stands for its
`temp_id` (distinct within an extraction); the properties of a node other than the
above; which fields a type requires (`valid`). A citation is told from another by its
place, as by its span. Left out: the parser's own materialization, the retagging of
jurisdictions, the counts of the answer (they also count links whose MATCH finds
nothing), relationships of type CITES among the proposed ones.

Properties:

* `OneActiveVersion`: at most one active node per type and name.
* `AnswerIsInGraph`: what an answered approval found or made is in the graph, with
  every relationship and citation between these nodes.
* `RetryRepairs`: when an approval answers, with no version superseded since it began, no
  node of its extraction refers to a node that does not exist, also not one left by an
  approval that broke off.
* `ReapprovalAddsNothing`: approving again, with no version superseded in between,
  changes nothing.

The last two except what concerns a *contested* proposal, of which there are two kinds. A
document whose content hash belongs to a document of another name is found by its hash,
and the approval goes on with the id of the other: what an earlier approval left under the
second name is not repaired. And a proposal that does not convert (a required field is
missing, or it refers to no proposal of the extraction) is skipped, with all that repeat
its name; what refers to it refers to nothing, and when another extraction has made a node
of that name, a relationship left out the first time is added the second. Nothing else is
assumed of an extraction: in the instance a code value refers to a code list, as the
repository's own extractions do, the list is superseded and made again, and a document
occurs under two names.

`materialize_florida_extraction.py:13` says it without any condition. After a bulletin
has superseded a node, approving its extraction again does not find it: the CREATE
violates the constraint if the node has a made id, and adds a second version if it was
seeded with a random one.

### Pipeline

State. A table is a count of its rows by what they are rows of: no primary key is
enforced, so a table that was filled twice holds every row twice, and a join of
doubled tables multiplies them. Tables joined on one key count as one: `terms` is
POLICYPERIOD, HOPOLICYLINE, HOCOVERAGE and HODWELLING, `claim` is CLAIM, EXPOSURE and
ADDRESS. `bronze`, `silver` and `gold` are the record tables, the last two by
ACCOUNTING_MONTH; `recipients` is the RECIPIENT_COUNT of the cancellation records,
`totals` the rows of TSPR_MONTHLY_AGGREGATES, `flags` those of TSPR_ANOMALY_FLAGS.
`fresh` is Snowflake's load metadata, on which COPY INTO decides whether it has
loaded a staged file already; it is modelled from the comments and options of
`load_bronze_to_snowflake.py` (PUT with OVERWRITE, TRUNCATE before COPY).

A run has its job, its `--month`, the script it executes, its next statement (`pc`)
and the anomalies it has selected and not yet inserted (`found`). `alone` is a
history: the scripts of a run since whose start no other run executed a statement.

| Action | Code |
|---|---|
| `Truncate`, `Put`, `Copy` | `load_bronze_to_snowflake.py`, three loops over TABLES; the TRUNCATEs of the other scripts |
| `Truncate`, `CopyUpload`, `Verify` | `op_load_bronze_from_upload` with its count of rows |
| `InsertSilver` | the four INSERT ... SELECT of `run_silver.py` |
| `InsertGold`, `DeleteTotals`, `InsertTotals` | `run_gold.py` |
| `Select`, `Flag`, `FlagsDone` | `detect_anomalies.py` |
| `Start`, `NextScript` | `full_pipeline_job`, `upload_to_gold_job`, endpoints and commands of one script |
| `Die` | a statement raises, the process is killed |

The sequence of statements of a script is data (`Statements`), so that the order in
the code can be read off one definition; each action is one kind of statement.

Abstracted: amounts and codes, but for the grouping of cancellations into records.
Left out: the filing a record is stamped with, `detect_premium_spike` (means and
deviations), `op_validate` (it writes a file of SQL), the registry marks at both
ends of an upload job (they are in `UploadRegistry`).

Properties, each of a run at the end of a script, undisturbed since some script began:

* `SilverFollowsBronze`: `run_silver` leaves a row for what Bronze holds, none twice,
  none of another month.
* `TotalsMatchRecords`: the control totals are those of the records, in one row, also
  over doubled input.
* `RunRebuilds`: a full job leaves exactly one record per policy, claim and
  combination, whatever was there.
* `UploadReplaces`: an upload job brings its own policies to Gold and no others.
* `FlagsFollowBronze`: each anomaly of Bronze is flagged once.

None of them holds of a run that was overlapped, and nothing in the code says it
should. An upload replaces GW_PC_POLICY alone, so `UploadReplaces` speaks of the
uploaded policies whose terms Bronze knows, and some properties ask that no earlier
overlap has doubled rows of Bronze (`NoDoubles`); a full job repairs also those.

### CanonScripts

State. `graph` has the nodes with the properties the scripts read and write (code and
edges of jurisdiction, the federal flag, whether SQL, type and a citation are there,
whether it is superseded), the links and the Jurisdiction nodes. `files` holds the rows
of the generated SQL files, `tables` bags of rows, since no primary key is enforced. A
run is a make target with its prerequisites, or the chain of `conftest.py`; it has its
script, its next statement and what it has read and not yet written (`noted`).
`stolen` is a history, of the nodes `materialize_florida_extraction` took for its own
because they appeared while it ran.

The scripts are sequences of statements and the statements are data (`Statements`,
`Targets`), so that the order in the code can be read off one definition; `Effect`
says what a statement does. `Effect` serves the actions and also the properties that
speak of a script which runs by itself (`After`).

| Action | Code |
|---|---|
| `Start`, `NextScript` | a make target, its prerequisites; the loop of `pytest_sessionfinish` |
| `Execute` | one Cypher or SQL statement, or one file written; a script that returns early or fails by itself |
| `Die` | a statement raises, the process is killed, a timeout of `conftest.py` |
| `BuildFails` | the `except` in `build_all_reference_tables.py` |

| Statement | Code |
|---|---|
| `wipe`, `seed` | `rebuild_kg.py`, `seed.py` |
| `nodes`, `links` | a replayed extraction: phase 2, phases 3 and 4 of `materialize` |
| `list`, `delete` | `cleanup_kg.py`: the listing, then four deletions |
| `apply` | `apply_bulletin.py --all` |
| `jurisdictions`, `merge_tx`, `backfill`, `scope_rest` | `seed_jurisdictions.py` |
| `federal`, `rewire` | `tag_federal_defaults.py` |
| `merge_fl`, `retag` | `seed_florida.py` |
| `before`, `after`, `code_new`, `scope_new` | `materialize_florida_extraction.py` |
| `obligation`, `connect` | `seed_filing_obligations.py` |
| `types`, `citations` | `kg_hygiene.py` |
| `attach`, `create_rule`, `attach_florida` | the two `migrate_*_validation_rules.py` |
| `build`, `build_codes` | the generators of SQL files |
| `read`, `replace`, `insert`, `insert_missing` | loading a file; migrations 002 and 003 |

Abstracted: a node stands for everything of one type and name; what overlapping
materializations do to each other is in `Materialize`. Statements that repeat one query
for the entries of a list are one, and so are the four queries of the listing, of which
only the number of results is used. Ids of migrations are taken to match the seeded
nodes, or to match none. Left out: audit entries, `migrate.py`.

Properties. All are asked whenever no run is under way, of whatever the earlier ones,
overlapping or dead, have left:

* `ChainRestores`: the chain of `conftest.py` ends in one graph, which the property
  describes: no phantom and no orphan, each node with the code, the edge and the flag of
  its own jurisdiction, every executable rule with its SQL.
* `RerunsChangeNothing`: what is said to be idempotent is, on any graph.
* `TablesFollowGraph`: after a load the tables hold what the graph says, each row once,
  with the curated rules that are not in the graph.
* `OneScope`, at any time: a node has at most one APPLIES_IN edge.
* `LoadsAccumulate`: what a comment says, and the code does not do: the file that loads
  the rules of one jurisdiction drops the table first.

The set of deleted nodes may differ from the listed one (`cleanup_kg.py:122-123` says
"exactly what we listed"): another run may change the graph in between, and what the
first deletions orphan goes with the later ones.

### WireFormat

State. `document` is a sequence of lines, `at` the next one; `fields`, `naming` and
`in_body` are the parser's `fields`, `pending_name_for` and
`seen_first_header_this_page`. `layout` is the graph of one layout: its fields with
their columns, codes, edges, the names of its code lists (`lists`), and whether its dates are
those of today (`effective`). A line is what the patterns of the parser tell apart: a
new page, a header with columns and tag, a token (a code, a range of codes or columns, a
page number) or text. A code is a number or a range of numbers; a character of a record
is a digit, a dash, a letter or a blank.

| Action | Code |
|---|---|
| `Begin`, `Finish` | `_run_target`: `parse_pdf` begins; sub-fields, gaps, `build_extraction`, `materialize` |
| `NewPage`, `Ignore`, `ReadHeader`, `ReadSkip`, `ReadName`, `ReadBody` | the branches of the loop over lines of `parse_pdf` |
| `Replay` | `resolve_positions` and `materialize` of an extraction in `rebuild_kg.py` |

The rest are functions, and the properties are about what they do together: `Split`,
`Gaps` and `Proposals` of the parser, `Resolve` of the position resolver, `Kept`,
`fetch_layout`, `Picks` and `Records` of the generator, `Verdict` of the validator,
`Counted`, `RowsOf`, `KeptRows` and `Passes` of the coverage report. The report has its own
copy of the rule that drops parents, and its own query: a row for each field and each of
its lists, so that a field with two lists overlaps itself; and dates that bind to REQUIRES
alone, AND being stronger than OR. `Records` is the set of all records
`fill_record` can return: scenarios and random choices only select among them.

Abstracted: letters of names and descriptions; the values of free-form fields are
digits, letters or blanks by their name. Left out: several layouts (they share no
field), banners of sections, citations.

Properties:

* `ColumnsAccounted`: each of the columns 1 to `RecordLength` belongs to a field in the
  graph after an import. Excepted are columns of a field whose name and tag are those of
  one at another place: it is taken for that one and not created.
* `SectionsRead`: a section (a header, a name, codes with their descriptions) that has been
  read is the beginning of the list of its field, whatever stands before and after it: none of its
  lines is taken for a page number, for another header or for something else.
* `ListsComplete`: every code that was read into a list is in the graph, in the list of its
  field or sub-field, whatever else has that name and whatever is imported later. Excepted
  are codes of a list that is outdone by another of the same columns, and those that stand
  before the name of the first sub-field.
  Comments say otherwise of both: "Merge code pairs (later occurrence may complete the
  list)" (`parse_record_layout.py:626`), where the longer list is taken, and "The parent's
  code_pairs are now redundant" (`:501`), where the codes before the first sub-field are in
  no other list. What goes on over a page before the next header is lost earlier, as page
  numbers: it is no part of a list that was read.
* `ImportsUncoverNothing`: no import takes a column from what the generator fills or from
  what the report counts, though fields become parents of others and are dropped, share
  columns, are merged and get a second list.
* `PassMeansDetermined`: what the docstring says of a green report
  (`validate_kg_coverage.py:12-13`), and the code does not do: a field that hangs on the
  layout by REQUIRES alone is counted by the report, and the generator leaves its columns
  blank. No import checks that the two queries agree.
* `RoundTrip`: every record that can be generated passes the validation, but for fields
  `Disputed` names: such as overlap, leave the record, have no code that fits, or a
  format that their value cannot have.

`Verdict` is a chain of conditions, as `validate_record` is: each kind of error ends the
field. A value that is no code of its field may have the wrong format as well: only the
order of the conditions says which error is reported.

## 3. Runs

| Run | Instance | Shows |
|---|---|---|
| `lifecycle_concurrent` | 2 threads, 1 rule, row not yet created, 2 submissions | signatures, custody, the log and `validated` survive every interleaving |
| `lifecycle_one_thread` | 1 thread, an ERROR and a WARNING rule, row not yet created, 2 submissions, 2 failures or restarts | without concurrency the code is the documented machine, half a request never leaves it, and a validation repairs what half of one left |
| `divergence_seal_gate` | 2 threads, 2 submissions | a validation's summary lands between the gate of the seal and its UPDATE: what is submitted has open blockers |
| `canon_rebuilds` | 2 runs at a time and in all, of any of 11 targets; 2 mishaps; a graph that is empty or has 4 nodes from before jurisdictions; 20 nodes | what the chain restores, reruns and loads, from anything two runs left |
| `divergence_rule_loads` | 3 undisturbed runs | a load for Florida drops the rules of Texas |
| `wire_format` | 12 columns; documents of up to 3 lines of 8 kinds, and of 2 or 3 parts out of 18; 3 imports of documents or of 15 extractions | columns, sections, codes and verdicts |
| `divergence_green_report` | the same documents; extractions with a field that is only REQUIRED | a green report beside columns nobody fills |
| `uploads_concurrent` | event loop, 1 thread, 2 runs, 2 uploads, 1 failure | no untrue status under any interleaving; until two saves overlap, an atomic map that loses nothing |
| `divergence_processing` | 1 thread, 1 run | `processing` with nothing in flight |
| `bulletin_requests` | 2 threads, 2 codes, 1 request cut off | reset repairs, apply works, code L is kept |
| `approvals_concurrent` | 2 threads; a section, a bulletin and a wire-format extraction over 7 keys, a code list seeded; a hash under two names; any number of failures and version bumps | approvals merge, whatever happens between their statements |
| `pipeline_overlap` | 2 runs at a time, 3 in all, of any of 5 jobs; 2 mishaps (overtakings or deaths); 2 policies, 2 claims, 3 notices of which 2 make one record, 2 months | an undisturbed run repairs what dead and overlapping ones left |

Deadlock is not checked in `pipeline_overlap`, where the runs that may be started are
bounded and there is nothing to do after the last, nor in the `canon_` and `wire_` runs
and the divergences about them, for the same reason. `ImplementsMachine` holds with one
request at a time and not with two: its run has one on purpose, and shows what the code
would promise if requests were serialised.

Why the bounds are enough. Every race in this code is between a read and a write
of one handler and a write of another, so two threads show it; a third only repeats
what the second does, and the theorems about signatures hold for any number. One key is enough
where the question is about statuses, two (one per severity) where it is about which
violations block. Two submissions are needed for an acknowledgment to have a choice.
The extractions of `approvals_concurrent` share a code list and a document, and between
them have a proposal before the one it refers to, a duplicate, one that refers to nothing
and is skipped, one found by hash under another name, one found by name, one that is
superseded and made again, and one refused at the parser boundary; the state space is finite without a bound on failures. In
`pipeline_overlap` a mishap is a death, or a statement of a run while the run that
executed the one before it is not at its end. Two of them let one run do part of its work inside another's, which is what
doubles rows; three starts allow two runs to spoil the tables and a third to repair
them. In `canon_rebuilds` two runs are enough for the same reason: the third is the
undisturbed one the properties ask about. Its nodes are one of each kind the scripts
tell apart (canonical, phantom and Florida's layouts, fields of each and of none, lists
with values, used, or empty, rules that are national, created, curated or superseded).
In `wire_format` the parts hold a repeated header, a list over a page break, a page
number, a nameless field, sub-fields, a range of codes, a range of columns and a field
that leaves the record; all orders of two of them occur, and the short documents have
every order of single lines. Two months show that a TRUNCATE empties both and that totals are kept per month.

Threads and runs are symmetric, and symmetry is used where TLC's counterexamples are not
of interest; no property of these runs is a liveness property.

Fairness. No specification states any, and no liveness property is claimed. Every request
and every run is a straight line of statements whose loops go over lists it has already
fetched, and none of them waits for another: that it ends follows from the shape of the
code and says nothing of what could go wrong. The one thing that should eventually happen
and may not, that an upload leaves `processing`, is refuted as a safety property at rest
(`ProcessingInFlight`). Failures may strike at any statement, within the bound of the run.

## 4. Proofs

Every theorem holds for all values of the constants that satisfy the named assumption
of its module. Beyond typing these say:

* `LifecycleAssumption`: finitely many keys, each of a rule; at least one rule.
* `UploadAssumption`: there is an upload; an actor that has not begun is given one. The
  event loop, the threads and the runs are different actors.
* `CanonAssumption`: finitely many threads, and at least one; the rows of a table are
  counted against them.
* `MaterializeAssumption`: documents are exempt from superseding (`apply_bulletin.py:98`
  supersedes no RegulatoryDocument).
* `CanonAssumption`, `FederalAssumption`, `LabelAssumption`, `JobAssumption` (of
  `CanonScripts`): finitely many nodes, and lists of documents and links between them; no
  national default is proposed by a Florida document; a node has the label of its class
  and no other; `Jobs` are some of the targets.
* `PipelineAssumption`, `JobAssumption` (of `Pipeline`): finite data; the name of an anomaly is not the
  number of a claim; `Jobs` are some of the jobs of `Scripts`, and there is one.
* `WireAssumption`: ranges in headers and tokens run forwards and begin at 1 or later, as
  columns do (the numbers that an extraction's text is searched for may run backwards);
  the tag of a header and the text of a line are some of `Tags` and `Texts`; a proposal that has
  a length has a column. `RecordLength` is any number above 0, documents and extractions
  are of any length and number.

### Filing lifecycle (`FilingLifecycleProofs`, `SignoffProofs`)

For any set of threads, any finite set of keys, any number of rules, failures and
submissions:

* `TypeCorrect`: `Spec => []TypeOK`, with a lemma per group of actions.
* `SignaturesAreComplete`: `Spec => []SignaturesComplete`. The property is not
  inductive: a handler that passed its gate writes a state some time later, when the
  row may hold anything. The strengthening `SignoffInv` records what such a handler
  knows: (`PastGate`) the filing *has been* in the state before the one it writes;
  (`NoGap`) the history is closed under predecessors; (`RowsReached`) a row's
  sign-off state is in the history; (`ContBeforeGate`) the continuation of an ensure
  never jumps behind a gate.
* `SignaturesStay`: `Spec => NeverUnsigned`.
* `StatusAgrees`: `Spec => []StatusMatchesBlockers`, inductive as it stands.
* `CustodyKept` and `TransitionsAreLogged`: `Spec => []CustodyOnRecord` and
  `Spec => []TransitionsLogged`, both of runs in which no statement failed, from
  `RecordInv`: the submission is there before the status is written
  (`SubmissionAhead`), and the USER_ACTION row of each state the filing has been in is
  there or some handler still owes it (`LogOwed`).

`BatchSteps` is the lemma they share: a step changes FILING_BATCH by inserting a row, by
writing a summary or by writing a status, and in no other way.

* `ValidatedHasNoBlocker`: `Spec => []ValidatedHasNoOpenBlocker`, for any number of threads.
  `ClearInv` says of a validation that is recording and has not been blurred what it has
  achieved: an open exception it will not close is one of its own run (`OpenOnesKnown`), and
  so the summary it writes counts what is open (`ValidatedIsClear`).

Two results have the hypothesis `OneThread`: two overlapping requests break both, as
`divergence_seal_gate` shows for one.

* `OneThreadImplementsMachine`: `Spec => ImplementsMachine`. `OneRowInv` says that there
  is one row, and that what a gate read is still so at the write.
* `OneThreadSealsClear`: `Spec => SealedOnlyWhenClear`, the promise of the comment that
  `divergence_seal_gate` refutes for two threads.

### Uploads (`UploadProofs`)

* `TypeCorrect`: `Spec => []TypeOK`.
* `StatusesAreEarned`: `Spec => []StatusEarned`, for any number of threads and runs.
  The file says nothing untrue because nothing that can get into it does: `EarnedInv`
  says the same of the temporary file and of the copy in every actor's memory, and of
  the status each actor is about to write.
* `SerialListsAll`, `SerialImplementsMap`: `Spec => []AllUploadsListed` and
  `Spec => ImplementsMap`, for any number of threads and runs, deaths and restarts in the
  middle of a save included. `SerialInv` says what a save has in hand at each step as long
  as no other has overlapped it: its copy is the registry, the temporary file is its own,
  and only the rename changes the map, by one entry.

### Bulletin and canon versions (`BulletinCanonProofs`)

For any set of threads, other codes and failures:

* `ResetIsComplete`: `Spec => []ResetRestores`
* `ApplyIsComplete`: `Spec => []ApplyTakesEffect`
* `CodeIsKept`: `Spec => []CodeKept`
* `TypeCorrect`: `Spec => []TypeOK`

The first three follow from one inductive invariant. Its core is `Progress`: what a
request knows that has been alone since it started, as a table from its next statement
to what its earlier ones achieved (`Undone` for a reset, `Done` for an apply from the
baseline, `Written` for the load both end with). `Solitary` makes it stable: while such
a request runs the others are idle, and the first thing another request can do is
start, which ends the solitude. The proof has one lemma for a request's own step by
script (`ApplyProgress`, `ResetProgress`, `LoadProgress`) and one for the others'
(`OthersStep`).

`TypeOK` bounds how often a row can stand in the table by the number of threads, which
needs counting: the rows that are there and the threads still about to insert one are
together no more than the threads (`RowsBounded`).

### Materialization (`MaterializeProofs`)

For any extractions, seeded nodes and threads:

* `NoTwoVersions`: `Spec => []OneActiveVersion`. That the lookup found nothing says
  little when the CREATE comes: another approval may have created the node, and
  superseding may have followed. The invariant `Inv` says what makes the constraint on
  ids sufficient: ids are unique (`IdsUnique`); a proposal to be created carries the id
  made from its key (`NewIsNamed`); and where one approval is set to create a key, an
  active node of that key has that very id (`NothingElse`), as a node with a random id
  can only have been seeded.
* `AnswersAreTrue`: `Spec => []AnswerIsInGraph`. `WrittenInv` adds what a request has
  written up to its current place (`Written`); it is stable because nothing is ever
  taken from the graph (`Grows`, `OthersKeep`), which includes superseding.
* `TypeCorrect`: `Spec => []TypeOK`. `TypeInv` adds that every place is within the list
  of its phase (`InList`), which depends on what the phase before has left.
* `RetriesRepair`: `Spec => []RetryRepairs`. A reference that may dangle is to an id made
  from a name, given when nothing of that name was active. `RetryInv` says that from then on
  nothing else of the name ever becomes active (`OnlyNamed`): what is made of it gets that
  very id. Nodes refer to documents there are or to such ids (`DocumentsLive`,
  `RefsNamed`); and what each plan of an approval comes from is on record (`Resolved`,
  `Planned`). At the answer every uncontested proposal has an active node of its name
  (`UncontestedActive`), which then is the node referred to.
* `ReapprovalsAddNothing`: `Spec => ReapprovalAddsNothing`. `AgainInv` adds that an
  extraction on record as approved is in the graph (`ApprovedInGraph`): a node for each
  uncontested proposal (`InGraph`) and an edge for each relationship and citation between
  them (`Related`). It stays so because nodes are only added and what is contested remains
  so; a lookup of the second approval therefore finds what the first one placed, and each of
  its MERGEs finds its edge.

### Pipeline (`PipelineProofs`)

For any number of runs, policies, claims, notices and months, and any number of overlaps
and deaths before:

* `TypeCorrect`: `Spec => []TypeOK`.
* `SilverCorrect`, `TotalsCorrect`, `RunsRebuild`, `UploadsReplace`, `FlagsCorrect`:
  `SilverFollowsBronze`, `TotalsMatchRecords`, `RunRebuilds`, `UploadReplaces`,
  `FlagsFollowBronze`.

`TypeInv` contains `Chain`: which scripts a run can have been alone in, by the script it
is in and its job. `ProgressInv` says, for a script a run has been alone in, what the
tables hold at its next statement, as equations between the layers (`LoadInv`,
`UploadInv`, `SilverInv`, `GoldInv`, `AnomalyInv`). It is stable for the reason of the
bulletin's: a step of another run ends the solitude. At the end of a script the equations
of its inputs are put into those of its outputs. The totals are sums over a finite set;
where a sum is compared with another the lemmas argue from a smallest set on which they
would differ (`SmallestSet`).

### Rebuild and reference tables (`CanonScriptsProofs`)

For any canon, any documents and what they propose, any targets, and any number of runs,
overlaps and deaths:

* `TypeCorrect`, `OneScopeHolds`: `TypeOK`, `OneScope`. `OneScope` is not inductive: the
  Florida scripts replace US-TX by US-FL and would leave US where it is, so what they tag
  must not apply in US. `CanonInv` therefore says that only national rules and lists do
  (`Fit`; `FederalAssumption` keeps them apart from Florida's), what a run can have noted
  by the script it executes (`NotesOK`), and that what the intake is about to scope is
  Florida's or recorded as stolen (`IntakeOK`).
  Every statement of every script is typed first (`ScriptTypes`), which includes the
  scripts built by FlattenSeq over lists of documents and rules; then each statement is
  shown to keep the invariant (`OnGraphGood`), and each action to send only statements of
  its script.
* `RerunsAreHarmless`: `RerunsChangeNothing`. `After` folds `Effect` over the statements of
  a script. That the fold is well defined, and that one statement more is one effect more
  (`SendMore`), is argued from a smallest set of places where it fails (`SmallestSet`).
  Every script then has a condition that holds of what it makes of any well-typed graph
  (`FederalDone`, `CleanupDone`, ...), and under which each of its statements does nothing.
  For `cleanup_kg.py` this is where the order of the four deletions matters: what kept a
  field, a list or a value from being deleted must not go later.
* `TablesFollow`: `TablesFollowGraph`. Here the scripts are of any length (a statement for
  each rule) and only the last ones matter: a load replaces the table and inserts the file
  a build has just written.

### Wire format (`WireFormatProofs`)

For records of any length, any documents and extractions, in any order and number:

* `InvariantHolds`: `IInv`, which says besides the type that what is read has columns a
  field can have (`Fitting`), that the graph is finite and its fields of known length begin
  at a column (`Graph`), and that after a parse each proposal is held by a node with its name and at least its codes
  (`Represented`). The last part is what makes the rest inductive over later imports:
  `Merge` never takes a code from a node or a node from the graph.
* `ColumnsAreAccounted`, `ListsAreComplete`: from `Represented`, by what `Parsed` and
  `Proposals` contain: every column is one of a piece or of a gap (`Gaps`), every
  piece is in a place that has a proposal (`PlaceProposed`), and of the fields in one place
  none supersedes the one that is taken (`Best`).
* `SectionsAreRead`: needs a second invariant, `ReadInv`: halfway through a section its field is
  the last one, is named, and has the pairs of the lines so far, the last of them without a
  description if the line was a code. After the section no line changes them but by
  adding to the list (`Longer`), which is why the property speaks of the beginning of a list.
* `ColumnsStayCovered`: `Spec => ImportsUncoverNothing`. Of the fields over a column a
  shortest one is never dropped as a parent, so each query covers what its fields cover
  before parents are dropped (`KeptCovers`, `KeptRowsCover`); and merging keeps the
  columns, the edges and the dates of a field.
* `GeneratedRecordsPass`: a record keeps what was written to the columns of a field that overlaps no
  other; what was padded is stripped to the code again; `int` of a text of digits is the number
  it was printed from (`DigitsAre`), so a range that is expanded is accepted.

The model uses `FoldLeft`, `FoldSet` and sorting by a fold; nothing of them can be proved by
induction over data. Each fold is therefore stated as a table over subsets (`Table`, with one
`Step` for every kind of fold used), shown to exist and to be unique from a smallest set
where it would fail, and read off as a chain of values, one step each (`Chain`).
`Digits` is treated the same way: its recursive function exists because there is no least
number at which it would not.

Stating these theorems corrected the model in two places. `Verdict` had overlapping cases,
between which TLA+ leaves the choice open; and `ListsComplete` had been restricted to lists that stand
in one piece, which left the codes of other lists without a property.

### What is only model-checked

* `ChainRestores`: seven scripts one after the other from an arbitrary graph. The lemmas
  on single statements and on folds are there, but the result is a statement about every
  node after some forty of them, and it needs more of the canon than its types (which
  documents are replayed, which rules are seeded).

## 5. Plan

1. (done) Filing lifecycle with its proofs.
2. (done) Uploads: the registry file under the API's threads and Dagster's runs, and
   the atomic registry it implements until two saves overlap.
3. (done) Bulletin: apply, version bump, reset and reload of the reference table, with
   repetition and partial failure, and its proofs.
4. (done) Materialization: `Materialize`, overlapping, broken-off and repeated
   approvals, and its proofs.
5. (partly done) Pipeline: `Pipeline`, Bronze to Gold under overlapping and dying runs.
   Left: its composition with the seal, which renders Gold while a run has it
   truncated (the footer reads one row of totals, the body the records of a filing);
   what an overlap does to the promise of
   one record per combination; `--month`, whose TRUNCATE empties all months.
6. (done) Rebuild, cleanup, jurisdictions and the reference tables: `CanonScripts`. Left:
   the rule table reloaded under a validation.
7. (done) Wire format and position resolution: `WireFormat`.
8. Filing registry with its Python fallback, schedule, conversion of worksheets.
9. (partly done) Theorems: every invariant and action property a passing run checks, but for
   `ChainRestores`.

## 6. Not modelled

The LLM extraction and its prompts (no state beyond a file), PDF geometry, the
GraphQL read API, the user interfaces and mock-ups, configuration and deployment
files, sample data and research notes. PROJECT.json names each with its reason.
