------------------------------ MODULE Pipeline ------------------------------
(***************************************************************************)
(* The medallion pipeline: Bronze is loaded from Parquet, Silver is built  *)
(* from Bronze, Gold from Silver, and anomalies are flagged.  Every script *)
(* is a process of its own that sends one SQL statement after the other;   *)
(* each statement commits by itself.  A run is a Dagster job, an API       *)
(* request or a command that goes through one or more scripts.  Nothing    *)
(* keeps two runs apart.                                                   *)
(*                                                                         *)
(* A table is a count of its rows, since a table that was filled twice     *)
(* holds every row twice.  Tables that are joined on the same key count as *)
(* one: "terms" is POLICYPERIOD, HOPOLICYLINE, HOCOVERAGE and HODWELLING,  *)
(* "claim" is CLAIM, EXPOSURE and ADDRESS.  Amounts and codes are left     *)
(* out, but for what the columns of a cancellation are grouped by, and so  *)
(* are the filings that records are stamped with.                          *)
(***************************************************************************)
EXTENDS Naturals, Sequences, FiniteSets, FiniteSetsExt

CONSTANTS
    Runs,           \* slots for runs: how many may overlap
    Policies, Claims, Notices,    \* rows of the Parquet files
    PolicyOf,       \* the policy of a claim or notice
    Combination,    \* of a notice: the columns Rule 34 groups by, and the policy
    Uploaded,       \* the policies of an uploaded gw_pc_policy
    Freeze,         \* claims with cause Freeze in summer, of a filing
    Hail,           \* claims with cause Hail in one ZIP and week, of a filing
    MaxCluster,     \* as many hail claims are no cluster: 3 in the code
    Months, DefaultMonth,
    Jobs,           \* what runs may be started: keys of Scripts
    MaxStarts,      \* bound: runs that are started
    MaxMishaps      \* bound: runs that die or are overtaken by another

Combinations == {Combination[n] : n \in Notices}

ASSUME PipelineAssumption ==
    /\ IsFiniteSet(Policies) /\ IsFiniteSet(Claims) /\ IsFiniteSet(Notices)
    /\ IsFiniteSet(Months) /\ DefaultMonth \in Months
    /\ PolicyOf \in [Claims \union Notices -> Policies]
    /\ DOMAIN Combination = Notices
    /\ Uploaded \subseteq Policies
    /\ Freeze \subseteq Claims /\ Hail \subseteq Claims
    /\ "hail_cluster" \notin Claims
    /\ MaxCluster \in Nat /\ MaxStarts \in Nat /\ MaxMishaps \in Nat

VARIABLES
    bronze,      \* rows of each Bronze table
    fresh,       \* tables whose staged file is not loaded since PUT or TRUNCATE
    silver,      \* rows of each Silver table, by ACCOUNTING_MONTH
    gold,        \* rows of each Gold record table, by ACCOUNTING_MONTH
    recipients,  \* SUM(RECIPIENT_COUNT) of the cancellation records of a combination
    totals,      \* rows of TSPR_MONTHLY_AGGREGATES, by ACCOUNTING_MONTH
    flags,       \* rows of TSPR_ANOMALY_FLAGS
    job,         \* what each run is
    month,       \* its --month
    script,      \* the script it executes
    pc,          \* its next statement
    found,       \* anomalies it has selected and not yet inserted
    alone,       \* history: scripts since whose start no other run did anything
    turn,        \* the run that executed the last statement
    starts, mishaps

layers == <<bronze, fresh, silver, gold, recipients, totals, flags>>
control == <<job, month, script, pc, found, alone, turn, starts, mishaps>>
vars == <<bronze, fresh, silver, gold, recipients, totals, flags,
          job, month, script, pc, found, alone, turn, starts, mishaps>>

-----------------------------------------------------------------------------
(* Tables, scripts and jobs.                                               *)

BronzeRows == [terms |-> Policies, policy |-> Policies, job |-> Notices, claim |-> Claims]
SilverRows == [premium_staging |-> Policies, claim_state |-> Claims,
               loss_staging |-> Claims, cancellation_staging |-> Notices]
GoldRows == [premium_records |-> Policies, loss_records |-> Claims,
             cancellation_records |-> Combinations]
BronzeTables == DOMAIN BronzeRows
SilverTables == DOMAIN SilverRows
GoldTables == DOMAIN GoldRows

\* TABLES of load_bronze_to_snowflake
TABLES == <<"policy", "terms", "job", "claim">>

Statement(op, t) == [op |-> op, table |-> t]
ForEachTable(op) == [i \in DOMAIN TABLES |-> Statement(op, TABLES[i])]
\* mutant: a table is not emptied before it is filled
Accumulate(t) == <<Statement("insert", t)>>

Refill(t) == <<Statement("truncate", t), Statement("insert", t)>>

LoadBronze == ForEachTable("truncate") \o ForEachTable("put") \o ForEachTable("copy")

LoadUpload == <<Statement("truncate", "policy"), Statement("copy_upload", "policy"),
                Statement("verify", "policy")>>

RunSilver == Refill("premium_staging") \o Refill("claim_state")
             \o Refill("loss_staging") \o Refill("cancellation_staging")

RunGold == Refill("premium_records") \o Refill("loss_records")
           \o Refill("cancellation_records")
           \o <<Statement("delete", "monthly_aggregates"),
                Statement("insert", "monthly_aggregates")>>

Detect(d) == <<Statement("select", d), Statement("flag", d)>>

\* mutant: the flags of an earlier detection are kept
DetectMore == Detect("hail_cluster") \o Detect("freeze_in_summer")

\* detect_premium_spike, a matter of means and deviations, is left out
DetectAnomalies == <<Statement("truncate", "flags")>>
                   \o Detect("hail_cluster") \o Detect("freeze_in_summer")

Statements == [load |-> LoadBronze, upload |-> LoadUpload, silver |-> RunSilver,
               gold |-> RunGold, anomalies |-> DetectAnomalies]

\* mutant: Gold does not wait for Silver
ScriptsGoldFirst == [
    full      |-> <<"load", "gold", "silver", "anomalies">>,
    upload    |-> <<"upload", "gold", "silver", "anomalies">>,
    silver    |-> <<"silver">>,
    gold      |-> <<"gold">>,
    anomalies |-> <<"anomalies">>]

\* full_pipeline_job, upload_to_gold_job, the endpoints and commands of one script;
\* op_validate writes a file of SQL and no table
Scripts == [
    full      |-> <<"load", "silver", "gold", "anomalies">>,
    upload    |-> <<"upload", "silver", "gold", "anomalies">>,
    silver    |-> <<"silver">>,
    gold      |-> <<"gold">>,
    anomalies |-> <<"anomalies">>]

ASSUME JobAssumption == Jobs # {} /\ Jobs \subseteq DOMAIN Scripts

None(S) == [x \in S |-> 0]
Once(S) == [x \in S |-> 1]
Plus(B, C) == [x \in DOMAIN B |-> B[x] + C[x]]
SumOver(f, S) == MapThenSumSet(LAMBDA x : f[x], S)
Total(B) == SumOver(B, DOMAIN B)

FlagRows == {"hail_cluster"} \union Freeze

\* a row of TSPR_MONTHLY_AGGREGATES
AggregateRows == [premium : Nat, loss : Nat, notices : Nat, recipients : Nat]

TypeOK ==
    /\ DOMAIN bronze = BronzeTables
    /\ \A t \in BronzeTables : bronze[t] \in [BronzeRows[t] -> Nat]
    /\ fresh \in [BronzeTables -> BOOLEAN]
    /\ DOMAIN silver = SilverTables
    /\ \A t \in SilverTables : silver[t] \in [Months -> [SilverRows[t] -> Nat]]
    /\ DOMAIN gold = GoldTables
    /\ \A t \in GoldTables : gold[t] \in [Months -> [GoldRows[t] -> Nat]]
    /\ recipients \in [Months -> [Combinations -> Nat]]
    /\ totals \in [Months -> Seq(AggregateRows)]
    /\ flags \in [FlagRows -> Nat]
    /\ job \in [Runs -> Jobs]
    /\ month \in [Runs -> Months]
    /\ script \in [Runs -> DOMAIN Statements \union {"none"}]
    /\ pc \in [Runs -> Nat \ {0}]
    /\ found \in [Runs -> [FlagRows -> Nat]]
    /\ alone \in [Runs -> SUBSET DOMAIN Statements]
    /\ turn \in Runs
    /\ starts \in 0..MaxStarts /\ mishaps \in 0..MaxMishaps

Init ==
    /\ bronze = [t \in BronzeTables |-> None(BronzeRows[t])]
    /\ fresh = [t \in BronzeTables |-> FALSE]
    /\ silver = [t \in SilverTables |-> [m \in Months |-> None(SilverRows[t])]]
    /\ gold = [t \in GoldTables |-> [m \in Months |-> None(GoldRows[t])]]
    /\ recipients = [m \in Months |-> None(Combinations)]
    /\ totals = [m \in Months |-> <<>>]
    /\ flags = None(FlagRows)
    /\ job = [r \in Runs |-> CHOOSE j \in Jobs : TRUE]
    /\ month = [r \in Runs |-> DefaultMonth]
    /\ script = [r \in Runs |-> "none"]
    /\ pc = [r \in Runs |-> 1]
    /\ found = [r \in Runs |-> None(FlagRows)]
    /\ alone = [r \in Runs |-> {}]
    /\ turn \in Runs
    /\ starts = 0 /\ mishaps = 0

-----------------------------------------------------------------------------
(* One statement of a run.                                                 *)

At(r, op) ==
    /\ script[r] # "none" /\ pc[r] \in DOMAIN Statements[script[r]]
    /\ Statements[script[r]][pc[r]].op = op

Table(r) == Statements[script[r]][pc[r]].table

\* the run that executed the last statement is not at its end
Overtakes(r) == IF turn # r /\ script[turn] # "none" THEN 1 ELSE 0

\* r has executed a statement: every other run is disturbed
Did(r, next) ==
    /\ mishaps + Overtakes(r) <= MaxMishaps
    /\ mishaps' = mishaps + Overtakes(r)
    /\ turn' = r
    /\ pc' = [pc EXCEPT ![r] = next]
    /\ alone' = [q \in Runs |-> IF q = r THEN alone[r] ELSE {}]
    /\ UNCHANGED <<job, month, script, starts>>

Advance(r) == Did(r, pc[r] + 1) /\ UNCHANGED found

\* TRUNCATE empties a table for all months and forgets what was loaded into it
Truncate(r) ==
    /\ At(r, "truncate")
    /\ LET t == Table(r) IN
       /\ IF t \in BronzeTables
          THEN /\ bronze' = [bronze EXCEPT ![t] = None(BronzeRows[t])]
               /\ fresh' = [fresh EXCEPT ![t] = TRUE]
          ELSE UNCHANGED <<bronze, fresh>>
       /\ silver' = [s \in SilverTables |->
                       IF s = t THEN [m \in Months |-> None(SilverRows[s])] ELSE silver[s]]
       /\ gold' = [g \in GoldTables |->
                     IF g = t THEN [m \in Months |-> None(GoldRows[g])] ELSE gold[g]]
       /\ recipients' = IF t = "cancellation_records"
                        THEN [m \in Months |-> None(Combinations)] ELSE recipients
       /\ flags' = IF t = "flags" THEN None(FlagRows) ELSE flags
    /\ Advance(r)
    /\ UNCHANGED totals

\* PUT ... OVERWRITE=TRUE: the staged file counts as a new one
Put(r) ==
    /\ At(r, "put")
    /\ fresh' = [fresh EXCEPT ![Table(r)] = TRUE]
    /\ Advance(r)
    /\ UNCHANGED <<bronze, silver, gold, recipients, totals, flags>>

\* COPY INTO skips a file it has loaded since the table was last truncated
Copy(r) ==
    /\ At(r, "copy")
    /\ LET t == Table(r) IN
       /\ bronze' = IF fresh[t]
                    THEN [bronze EXCEPT ![t] = Plus(@, Once(BronzeRows[t]))] ELSE bronze
       /\ fresh' = [fresh EXCEPT ![t] = FALSE]
    /\ Advance(r)
    /\ UNCHANGED <<silver, gold, recipients, totals, flags>>

\* each upload has a stage directory of its own
CopyUpload(r) ==
    /\ At(r, "copy_upload")
    /\ bronze' = [bronze EXCEPT !["policy"] =
                    [p \in Policies |-> IF p \in Uploaded THEN @[p] + 1 ELSE @[p]]]
    /\ Advance(r)
    /\ UNCHANGED <<fresh, silver, gold, recipients, totals, flags>>

Stop(r) ==
    /\ script' = [script EXCEPT ![r] = "none"]
    /\ pc' = [pc EXCEPT ![r] = 1]
    /\ found' = [found EXCEPT ![r] = None(FlagRows)]
    /\ alone' = [alone EXCEPT ![r] = {}]
    /\ UNCHANGED <<job, month>>

\* a table that does not hold as many rows as were uploaded fails the job
Verify(r) ==
    /\ At(r, "verify")
    /\ IF Total(bronze["policy"]) = Cardinality(Uploaded)
       THEN Advance(r)
       ELSE Stop(r) /\ UNCHANGED <<turn, starts, mishaps>>
    /\ UNCHANGED layers

-----------------------------------------------------------------------------
(* Bronze -> Silver: each SELECT gives a row for every combination of the  *)
(* rows it joins.                                                          *)

SilverPremium == [p \in Policies |-> bronze["policy"][p] * bronze["terms"][p]]

SilverClaimState == bronze["claim"]

\* TSPR_CLAIM_STATE is joined on the claim and exposure alone, not on the month
SilverLoss ==
    [c \in Claims |-> bronze["claim"][c]
                      * SumOver([m \in Months |-> silver["claim_state"][m][c]], Months)
                      * bronze["terms"][PolicyOf[c]]]

\* mutant: notices are joined with every address of a ZIP
CancellationByZip ==
    [n \in Notices |-> bronze["job"][n] * bronze["policy"][PolicyOf[n]]
                       * bronze["terms"][PolicyOf[n]] * Cardinality(Policies)]

SilverCancellation ==
    [n \in Notices |-> bronze["job"][n] * bronze["policy"][PolicyOf[n]]
                       * bronze["terms"][PolicyOf[n]]]

IntoSilver(t, m, rows) ==
    /\ silver' = [silver EXCEPT ![t][m] = Plus(@, rows)]
    /\ UNCHANGED <<bronze, fresh, gold, recipients, totals, flags>>

InsertSilver(r) ==
    /\ At(r, "insert")
    /\ \/ Table(r) = "premium_staging" /\ IntoSilver(Table(r), month[r], SilverPremium)
       \/ Table(r) = "claim_state" /\ IntoSilver(Table(r), month[r], SilverClaimState)
       \/ Table(r) = "loss_staging" /\ IntoSilver(Table(r), month[r], SilverLoss)
       \/ Table(r) = "cancellation_staging"
          /\ IntoSilver(Table(r), month[r], SilverCancellation)
    /\ Advance(r)

-----------------------------------------------------------------------------
(* Silver -> Gold.                                                         *)

GoldPremium(m) == silver["premium_staging"][m]

GoldLoss(m) == silver["loss_staging"][m]

\* the staged notices, joined with GW_PC_JOB again for the policy id
JoinedNotices(m) ==
    [n \in Notices |-> silver["cancellation_staging"][m][n] * bronze["job"][n]]

\* GROUP BY: SUM(RECIPIENT_COUNT) of a combination, every notice counting one
GoldRecipients(m) ==
    [g \in Combinations |-> SumOver(JoinedNotices(m), {n \in Notices : Combination[n] = g})]

\* one record for a combination with any notice
GoldCancellation(m) ==
    [g \in Combinations |-> IF GoldRecipients(m)[g] > 0 THEN 1 ELSE 0]

GoldAggregates(m) == [
    premium    |-> Total(gold["premium_records"][m]),
    loss       |-> Total(gold["loss_records"][m]),
    notices    |-> Total(gold["cancellation_records"][m]),
    recipients |-> Total(recipients[m])]

IntoGold(t, m, rows) ==
    /\ gold' = [gold EXCEPT ![t][m] = Plus(@, rows)]
    /\ UNCHANGED <<bronze, fresh, silver, totals, flags>>

InsertGold(r) ==
    /\ At(r, "insert")
    /\ LET m == month[r] IN
       \/ /\ Table(r) = "premium_records"
          /\ IntoGold(Table(r), m, GoldPremium(m)) /\ UNCHANGED recipients
       \/ /\ Table(r) = "loss_records"
          /\ IntoGold(Table(r), m, GoldLoss(m)) /\ UNCHANGED recipients
       \/ /\ Table(r) = "cancellation_records"
          /\ IntoGold(Table(r), m, GoldCancellation(m))
          /\ recipients' = [recipients EXCEPT ![m] = Plus(@, GoldRecipients(m))]
    /\ Advance(r)

\* mutant: the totals of an earlier run are kept
KeepTotals(r) ==
    /\ At(r, "delete")
    /\ Advance(r)
    /\ UNCHANGED layers

\* the totals of the month alone are replaced
DeleteTotals(r) ==
    /\ At(r, "delete")
    /\ totals' = [totals EXCEPT ![month[r]] = <<>>]
    /\ Advance(r)
    /\ UNCHANGED <<bronze, fresh, silver, gold, recipients, flags>>

InsertTotals(r) ==
    /\ At(r, "insert") /\ Table(r) = "monthly_aggregates"
    /\ totals' = [totals EXCEPT ![month[r]] = Append(@, GoldAggregates(month[r]))]
    /\ Advance(r)
    /\ UNCHANGED <<bronze, fresh, silver, gold, recipients, flags>>

-----------------------------------------------------------------------------
(* Anomalies.                                                              *)

\* detect_hail_cluster: more than MaxCluster rows in one ZIP and week
HailCluster ==
    [x \in FlagRows |->
       IF x = "hail_cluster" /\ SumOver(bronze["claim"], Hail) > MaxCluster
       THEN 1 ELSE 0]

\* detect_freeze_in_summer: one flag per claim row
FreezeInSummer == [x \in FlagRows |-> IF x \in Freeze THEN bronze["claim"][x] ELSE 0]

Select(r) ==
    /\ At(r, "select")
    /\ found' = [found EXCEPT ![r] = IF Table(r) = "hail_cluster"
                                     THEN HailCluster ELSE FreezeInSummer]
    /\ Did(r, pc[r] + 1)
    /\ UNCHANGED layers

\* mutant: a flag is inserted once more than found
FlagUnfound(r) ==
    /\ At(r, "flag")
    /\ \E x \in FlagRows :
         /\ flags' = [flags EXCEPT ![x] = @ + 1]
         /\ found' = [found EXCEPT ![r][x] = @ - 1]
    /\ Did(r, pc[r])
    /\ UNCHANGED <<bronze, fresh, silver, gold, recipients, totals>>

\* one INSERT per anomaly found
Flag(r) ==
    /\ At(r, "flag")
    /\ \E x \in FlagRows :
         /\ found[r][x] > 0
         /\ flags' = [flags EXCEPT ![x] = @ + 1]
         /\ found' = [found EXCEPT ![r][x] = @ - 1]
    /\ Did(r, pc[r])
    /\ UNCHANGED <<bronze, fresh, silver, gold, recipients, totals>>

FlagsDone(r) ==
    /\ At(r, "flag") /\ found[r] = None(FlagRows)
    /\ Advance(r)
    /\ UNCHANGED layers

-----------------------------------------------------------------------------
(* Runs.                                                                   *)

\* the schedule, "Run now", an upload, an endpoint or a command; only commands
\* of one script are given a month
Start(r, j, m) ==
    /\ script[r] = "none" /\ starts < MaxStarts
    /\ starts' = starts + 1
    /\ m # DefaultMonth => j \in {"silver", "gold"}
    /\ job' = [job EXCEPT ![r] = j]
    /\ month' = [month EXCEPT ![r] = m]
    /\ script' = [script EXCEPT ![r] = Scripts[j][1]]
    /\ alone' = [alone EXCEPT ![r] = {Scripts[j][1]}]
    /\ UNCHANGED <<layers, pc, found, turn, mishaps>>

\* r has executed the last statement of script s
Over(r, s) == script[r] = s /\ pc[r] = Len(Statements[s]) + 1

\* the op succeeded: the next op of the job starts its script
NextScript(r) ==
    /\ script[r] # "none" /\ Over(r, script[r])
    /\ LET S == Scripts[job[r]]
           i == CHOOSE k \in DOMAIN S : S[k] = script[r]
       IN IF i = Len(S)
          THEN Stop(r)
          ELSE /\ script' = [script EXCEPT ![r] = S[i + 1]]
               /\ pc' = [pc EXCEPT ![r] = 1]
               /\ alone' = [alone EXCEPT ![r] = @ \union {S[i + 1]}]
               /\ UNCHANGED <<job, month, found>>
    /\ UNCHANGED <<layers, turn, starts, mishaps>>

\* a statement fails or the process is killed: the job goes no further
Die(r) ==
    /\ mishaps < MaxMishaps /\ script[r] # "none"
    /\ mishaps' = mishaps + 1
    /\ Stop(r)
    /\ UNCHANGED <<layers, turn, starts>>

Execute(r) ==
    \/ Truncate(r) \/ Put(r) \/ Copy(r) \/ CopyUpload(r) \/ Verify(r)
    \/ InsertSilver(r) \/ InsertGold(r) \/ DeleteTotals(r) \/ InsertTotals(r)
    \/ Select(r) \/ Flag(r) \/ FlagsDone(r)

Next ==
    \E r \in Runs :
      \/ \E j \in Jobs, m \in Months : Start(r, j, m)
      \/ Execute(r) \/ NextScript(r) \/ Die(r)

Spec == Init /\ [][Next]_vars
-----------------------------------------------------------------------------
(* Properties.  All but the type invariant speak of a run that has reached *)
(* the end of a script with nobody else at work since some script's start, *)
(* whatever dead or overlapping runs left in the tables before that.       *)

BronzeHas(t, x) == bronze[t][x] = 1

\* no earlier overlap has left a row in Bronze twice
NoDoubles == \A t \in BronzeTables : \A x \in BronzeRows[t] : bronze[t][x] <= 1

\* S is what the counts B stand for, each once
Exactly(B, S) == \A x \in DOMAIN B : B[x] = IF x \in S THEN 1 ELSE 0

\* "Idempotent. Truncates and reloads Silver": run_silver leaves a row for what
\* Bronze holds, no row twice and none of an earlier run or another month.
SilverFollowsBronze ==
    \A r \in Runs : Over(r, "silver") /\ "silver" \in alone[r] /\ NoDoubles =>
      \A m \in Months :
        LET here(S) == IF m = month[r] THEN S ELSE {}
            insured == {p \in Policies : BronzeHas("terms", p)}
            known == {p \in insured : BronzeHas("policy", p)}
            claimed == {c \in Claims : BronzeHas("claim", c)}
        IN /\ Exactly(silver["premium_staging"][m], here(known))
           /\ Exactly(silver["claim_state"][m], here(claimed))
           /\ Exactly(silver["loss_staging"][m],
                      here({c \in claimed : PolicyOf[c] \in insured}))
           /\ Exactly(silver["cancellation_staging"][m],
                      here({n \in Notices : BronzeHas("job", n) /\ PolicyOf[n] \in known}))

\* The control totals of Section 29 are those of the records of the month, in one
\* row, also when Silver or Bronze hold rows twice (gold_aggregates).
TotalsMatchRecords ==
    \A r \in Runs : Over(r, "gold") /\ "gold" \in alone[r] =>
      LET m == month[r] IN
      /\ Len(totals[m]) = 1
      /\ totals[m][1].premium = Total(silver["premium_staging"][m])
      /\ totals[m][1].loss = Total(silver["loss_staging"][m])
      /\ totals[m][1].notices =
           Cardinality({g \in Combinations : gold["cancellation_records"][m][g] > 0})
      /\ totals[m][1].recipients = Total(JoinedNotices(m))

\* "Idempotent reload": a full job that is alone from its Bronze load on leaves one
\* record for each policy, claim and combination of notices, the combination with
\* its number of notices, and their totals (load_bronze, run_silver, run_gold).
RunRebuilds ==
    \A r \in Runs : Over(r, "gold") /\ "load" \in alone[r] =>
      LET m == month[r] IN
      /\ Exactly(gold["premium_records"][m], Policies)
      /\ Exactly(gold["loss_records"][m], Claims)
      /\ Exactly(gold["cancellation_records"][m], Combinations)
      /\ \A g \in Combinations :
           recipients[m][g] = Cardinality({n \in Notices : Combination[n] = g})
      /\ totals[m] = <<[premium    |-> Cardinality(Policies),
                        loss       |-> Cardinality(Claims),
                        notices    |-> Cardinality(Combinations),
                        recipients |-> Cardinality(Notices)]>>

\* A job that is alone from the load of its upload on brings the uploaded policies to
\* Gold and no others, whatever GW_PC_POLICY held before (upload_to_gold_job).
UploadReplaces ==
    \A r \in Runs : Over(r, "gold") /\ "upload" \in alone[r] /\ NoDoubles =>
      Exactly(gold["premium_records"][month[r]],
              {p \in Uploaded : BronzeHas("terms", p)})

\* A detection that is alone flags each freeze claim and each cluster of Bronze once,
\* and nothing that an earlier or a broken-off detection found (detect_anomalies).
FlagsFollowBronze ==
    \A r \in Runs : Over(r, "anomalies") /\ "anomalies" \in alone[r] /\ NoDoubles =>
      Exactly(flags,
        {c \in Freeze : BronzeHas("claim", c)} \union
        {x \in {"hail_cluster"} :
           Cardinality({c \in Hail : BronzeHas("claim", c)}) > MaxCluster})
=============================================================================
