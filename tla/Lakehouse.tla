----------------------------- MODULE Lakehouse -----------------------------
(***************************************************************************)
(* The DAG geospatial-lakehouse (book/chapter8/dags/dag.py), the Spark     *)
(* jobs it submits (dags/apps) and the DDL it runs (dags/sql): one run a   *)
(* day, one run at a time, two tasks at a time.                            *)
(*                                                                         *)
(* Every table but nl_shape is partitioned by the processing date, and     *)
(* INSERT OVERWRITE in dynamic mode replaces the partition of the day and  *)
(* no other; every reader reads the table whole. What a row says is left   *)
(* out, the number of rows is kept where an assertion of the code counts   *)
(* them. The order in which Airflow queues ready tasks is left open.       *)
(***************************************************************************)
EXTENDS Naturals, FiniteSets

CONSTANTS LastDay,      \* bound: the runs are those of days 1..LastDay
          BuildingRows, \* rows the buildings extract of a day may have
          MinBuildings, \* the test of the buildings wants more rows than this,
          MaxBuildings, \* and fewer than this
          Slots,        \* concurrency of the DAG
          MaxFaults     \* bound: how many tasks may die for no reason of ours

ASSUME LakehouseAssumption ==
    /\ LastDay \in Nat \ {0}
    /\ BuildingRows \subseteq Nat /\ BuildingRows # {}
    /\ MinBuildings \in Nat /\ MaxBuildings \in Nat
    /\ Slots \in Nat \ {0}
    /\ MaxFaults \in Nat

Days == 1..LastDay

\* The DDL tasks and what each creates: a database or a table in it.
Creates == [create_catalog                 |-> "stg",
            create_catalog_prod            |-> "prod",
            nl_shape_ddl                   |-> "nl_shape",
            nl_flood_ddl                   |-> "nl_flood_map",
            nl_road_risk_score_ddl         |-> "nl_road_risk_score",
            nl_transportation_ddl          |-> "nl_transportation",
            nl_transportation_hex_bins_ddl |-> "nl_transportation_hex_bins",
            nl_buildings_ddl               |-> "nl_buildings",
            nl_road_risk_score_ddl_prod    |-> "prod.nl_road_risk_score"]

\* The Spark jobs and the tables each reads.
Reads == [nl_shape                |-> {},
          nl_buildings            |-> {"nl_shape"},
          nl_buildings_test       |-> {"nl_buildings"},
          nl_flood_map            |-> {"nl_shape"},
          nl_transportation       |-> {"nl_shape"},
          nl_hex_grids            |-> {"nl_transportation"},
          nl_risk_score           |-> {"nl_transportation_hex_bins",
                                       "nl_buildings", "nl_flood_map"},
          nl_risk_score_test      |-> {"nl_road_risk_score"},
          nl_road_risk_score_prod |-> {"nl_road_risk_score"}]

\* The table each job overwrites; the tests write none.
Writes == [nl_shape                |-> "nl_shape",
           nl_buildings            |-> "nl_buildings",
           nl_flood_map            |-> "nl_flood_map",
           nl_transportation       |-> "nl_transportation",
           nl_hex_grids            |-> "nl_transportation_hex_bins",
           nl_risk_score           |-> "nl_road_risk_score",
           nl_road_risk_score_prod |-> "prod.nl_road_risk_score"]

Ddls == DOMAIN Creates
Jobs == DOMAIN Reads
Tasks == Ddls \cup Jobs
Objects == {Creates[t] : t \in Ddls}
Partitioned == {Writes[t] : t \in DOMAIN Writes} \ {"nl_shape"}

StagingDdls == {"nl_shape_ddl", "nl_flood_ddl", "nl_road_risk_score_ddl",
                "nl_transportation_ddl", "nl_transportation_hex_bins_ddl"}

DdlEdges == ({"create_catalog"} \X StagingDdls) \cup (StagingDdls \X {"nl_shape"})

BuildingEdges == {<<"nl_shape", "nl_buildings_ddl">>,
                  <<"nl_buildings_ddl", "nl_buildings">>,
                  <<"nl_buildings", "nl_buildings_test">>}

\* Mutant: the flood map does not wait for the table it writes.
FloodEdgesWithoutTable == {"nl_shape_ddl"} \X {"nl_flood_map"}

FloodEdges == {"nl_shape_ddl", "nl_flood_ddl"} \X {"nl_flood_map"}

RoadEdges ==
    ({"nl_shape_ddl", "nl_transportation_ddl"} \X {"nl_transportation"})
    \cup ({"nl_transportation", "nl_transportation_hex_bins_ddl"} \X {"nl_hex_grids"})

\* Mutant: the score does not wait for the hexagons.
ScoreEdgesWithoutHexagons ==
    ({"nl_road_risk_score_ddl", "nl_buildings_test", "nl_flood_map"} \X {"nl_risk_score"})
    \cup {<<"nl_risk_score", "nl_risk_score_test">>}

ScoreEdges ==
    ({"nl_road_risk_score_ddl", "nl_buildings_test", "nl_flood_map", "nl_hex_grids"}
     \X {"nl_risk_score"})
    \cup {<<"nl_risk_score", "nl_risk_score_test">>}

\* Mutant: production waits for the score, and not for its test.
ProdEdgesAroundTheTest ==
    {"create_catalog_prod", "nl_risk_score", "nl_road_risk_score_ddl_prod"}
    \X {"nl_road_risk_score_prod"}

ProdEdges == {"create_catalog_prod", "nl_risk_score_test", "nl_road_risk_score_ddl_prod"}
             \X {"nl_road_risk_score_prod"}

\* The order of the tasks, the edges inside the two task groups included.
Edges == DdlEdges \cup BuildingEdges \cup FloodEdges \cup RoadEdges \cup ScoreEdges \cup ProdEdges

Upstream == [t \in Tasks |-> {u \in Tasks : <<u, t>> \in Edges}]

\* Where a table or a database has to be for a task to run.
Needs(t) ==
    IF t \in Ddls
    THEN CASE t \in {"create_catalog", "create_catalog_prod"} -> {}
           [] t = "nl_road_risk_score_ddl_prod"               -> {"prod"}
           [] OTHER                                           -> {"stg"}
    ELSE Reads[t] \cup (IF t \in DOMAIN Writes THEN {Writes[t]} ELSE {})

VARIABLES
    day,     \* the day of the last run, 0 before the first
    outcome, \* of the run of each day
    status,  \* of the tasks of the last run
    out,     \* the rows a running job has computed and not yet written
    exists,  \* databases and tables of the catalog
    shape,   \* the day whose shape nl_shape holds, 0 if it is empty
    rows,    \* rows of each partition of the other tables
    faults   \* how many more tasks may die

data == <<exists, shape, rows>>
vars == <<day, outcome, status, out, data, faults>>

TypeOK ==
    /\ day \in 0..LastDay
    /\ outcome \in [Days -> {"none", "running", "success", "failed"}]
    /\ status \in [Tasks -> {"none", "running", "success", "failed", "upstream_failed"}]
    /\ out \in [Jobs -> Nat]
    /\ exists \subseteq Objects
    /\ shape \in Nat
    /\ rows \in [Partitioned -> [Days -> Nat]]
    /\ faults \in 0..MaxFaults

Init ==
    /\ day = 0
    /\ outcome = [d \in Days |-> "none"]
    /\ status = [t \in Tasks |-> "none"]
    /\ out = [t \in Jobs |-> 0]
    /\ exists = {}
    /\ shape = 0
    /\ rows = [p \in Partitioned |-> [d \in Days |-> 0]]
    /\ faults = MaxFaults
-----------------------------------------------------------------------------
(* The runs.                                                               *)

Active == day # 0 /\ outcome[day] = "running"

\* One run at a time. Days are those with a run: without catchup, an interval
\* that has passed before the run of an earlier one ended gets none.
StartRun(d) ==
    /\ ~Active
    /\ d = day + 1
    /\ day' = d
    /\ outcome' = [outcome EXCEPT ![d] = "running"]
    /\ status' = [t \in Tasks |-> "none"]
    /\ UNCHANGED <<out, data, faults>>

\* The tasks that can no longer run because of one whose status is in bad.
Doomed(bad) ==
    {t \in Tasks : status[t] = "none" /\ \E u \in Upstream[t] : status[u] \in bad}

MarkAs(tasks, s) ==
    /\ Active
    /\ tasks # {}
    /\ status' = [t \in Tasks |-> IF t \in tasks THEN s ELSE status[t]]
    /\ UNCHANGED <<day, outcome, out, data, faults>>

\* Mutant: a task is not marked because of one that was only marked itself.
MarkUpstreamFailedOnce == MarkAs(Doomed({"failed"}), "upstream_failed")

\* Mutant: the tasks after a failed one are left as skipped.
MarkUpstreamSkipped == MarkAs(Doomed({"failed", "upstream_failed"}), "skipped")

\* A pass of the scheduler over the tasks.
MarkUpstreamFailed == MarkAs(Doomed({"failed", "upstream_failed"}), "upstream_failed")

Ended(t) == status[t] \in {"success", "failed", "upstream_failed"}

\* The last task of the DAG decides: every other one precedes it.
EndRun ==
    /\ Active
    /\ \A t \in Tasks : Ended(t)
    /\ outcome' = [outcome EXCEPT ![day] =
                     IF status["nl_road_risk_score_prod"] = "success"
                     THEN "success" ELSE "failed"]
    /\ UNCHANGED <<day, status, out, data, faults>>
-----------------------------------------------------------------------------
(* The tasks: a job reads its tables when it starts and writes at its end. *)

\* The number of rows of a table, from the rows of each partition.
RowCount(partitions) == Cardinality(UNION {{d} \X (1..partitions[d]) : d \in Days})

Total(p) == RowCount(rows[p])

BuildingsOutput == IF shape = 0 THEN {0} ELSE BuildingRows
FloodOutput == {IF shape = 0 THEN 0 ELSE 1}
TransportationOutput == {IF shape = 0 THEN 0 ELSE 1}
HexOutput == {IF Total("nl_transportation") = 0 THEN 0 ELSE 1}

\* At most a score for each hexagon, those of the earlier days included; with
\* no flood map to normalise, any number of them may be 0.
ScoreOutput ==
    {n \in 0..LastDay : /\ n <= Total("nl_transportation_hex_bins")
                        /\ \/ Total("nl_flood_map") = 0
                           \/ n = Total("nl_transportation_hex_bins")}

\* The rows that a job which starts now computes for its day.
Output(t) ==
    CASE t = "nl_shape"          -> {day}
      [] t = "nl_buildings"      -> BuildingsOutput
      [] t = "nl_flood_map"      -> FloodOutput
      [] t = "nl_transportation" -> TransportationOutput
      [] t = "nl_hex_grids"      -> HexOutput
      [] t = "nl_risk_score"     -> ScoreOutput
      [] OTHER                   -> {0}

\* Upstream done, and a slot free.
Ready(t) ==
    /\ Active
    /\ status[t] = "none"
    /\ \A u \in Upstream[t] : status[u] = "success"
    /\ Cardinality({j \in Jobs : status[j] = "running"}) < Slots

Start(t) ==
    /\ Ready(t)
    /\ status' = [status EXCEPT ![t] = "running"]
    /\ \E n \in Output(t) : out' = [out EXCEPT ![t] = n]
    /\ UNCHANGED <<day, outcome, data, faults>>

\* Mutant: the tests count the rows of the day.
PassesToday(t) ==
    /\ t = "nl_buildings_test"  => /\ rows["nl_buildings"][day] > MinBuildings
                                   /\ rows["nl_buildings"][day] < MaxBuildings
    /\ t = "nl_risk_score_test" => rows["nl_road_risk_score"][day] >= 1

\* The assertions of the two tests count the table, not the day: so and so
\* many buildings (300 000 to 400 000), and the scores of one day.
BuildingsPass == Total("nl_buildings") > MinBuildings /\ Total("nl_buildings") < MaxBuildings
ScorePasses == Total("nl_road_risk_score") = 1

Passes(t) ==
    /\ t = "nl_buildings_test" => BuildingsPass
    /\ t = "nl_risk_score_test" => ScorePasses

\* INSERT OVERWRITE: a partition without a new row keeps the old ones.
Overwritten(old, new) == [d \in Days |-> IF new[d] = 0 THEN old[d] ELSE new[d]]

Commit(t) ==
    /\ UNCHANGED exists
    /\ CASE t = "nl_shape" ->
              shape' = out[t] /\ UNCHANGED rows
         [] t = "nl_road_risk_score_prod" ->
              /\ rows' = [rows EXCEPT ![Writes[t]] = Overwritten(@, rows["nl_road_risk_score"])]
              /\ UNCHANGED shape
         [] t \in DOMAIN Writes \ {"nl_shape", "nl_road_risk_score_prod"} ->
              /\ rows' = [rows EXCEPT ![Writes[t]][day] = IF out[t] = 0 THEN @ ELSE out[t]]
              /\ UNCHANGED shape
         [] OTHER -> UNCHANGED <<shape, rows>>

Ends(t, s) ==
    /\ Active
    /\ status[t] = "running"
    /\ status' = [status EXCEPT ![t] = s]
    /\ out' = [out EXCEPT ![t] = 0]
    /\ UNCHANGED <<day, outcome>>

Succeed(t) ==
    /\ Needs(t) \subseteq exists /\ Passes(t)
    /\ Ends(t, "success")
    /\ Commit(t)
    /\ UNCHANGED faults

\* A table is missing, or an assertion does not hold.
Refuse(t) ==
    /\ ~(Needs(t) \subseteq exists /\ Passes(t))
    /\ Ends(t, "failed")
    /\ UNCHANGED <<data, faults>>

\* The job dies: before its statement has committed, or after.
Die(t) ==
    /\ faults > 0
    /\ faults' = faults - 1
    /\ Ends(t, "failed")
    /\ UNCHANGED data \/ (Needs(t) \subseteq exists /\ Commit(t))

\* Mutant: the DDL has no IF NOT EXISTS.
MayRefuseExisting(t) == ~(Needs(t) \subseteq exists) \/ Creates[t] \in exists

\* Whether a table can be made in a database that was not created is up to the
\* catalog; IF NOT EXISTS makes the rest of the DDL repeatable.
MayRefuse(t) == ~(Needs(t) \subseteq exists)

\* A DDL task reads no table and commits once, so that it takes one step.
RunDdl(t) ==
    /\ Ready(t)
    /\ \/ /\ status' = [status EXCEPT ![t] = "success"]
          /\ exists' = exists \cup {Creates[t]}
          /\ UNCHANGED faults
       \/ /\ MayRefuse(t)
          /\ status' = [status EXCEPT ![t] = "failed"]
          /\ UNCHANGED <<exists, faults>>
       \/ /\ faults > 0
          /\ faults' = faults - 1
          /\ status' = [status EXCEPT ![t] = "failed"]
          /\ exists' \in {exists, exists \cup {Creates[t]}}
    /\ UNCHANGED <<day, outcome, out, shape, rows>>

\* What goes on in a run that has been started.
RunStep ==
    \/ MarkUpstreamFailed
    \/ EndRun
    \/ \E t \in Ddls : RunDdl(t)
    \/ \E t \in Jobs : Start(t) \/ Succeed(t) \/ Refuse(t) \/ Die(t)

Next == RunStep \/ \E d \in Days : StartRun(d)

Spec == Init /\ [][Next]_vars
-----------------------------------------------------------------------------
(* Properties.                                                             *)

\* The two jobs that read nl_shape without waiting for this run to fill it.
ReadsOldShape(t, table) ==
    table = "nl_shape" /\ t \in {"nl_flood_map", "nl_transportation"}

\* A job reads what this run has written, in every table but nl_shape: there
\* the flood map and the transportation may find the shape of an earlier run,
\* or none, or have it replaced while they run (dag.py:176-180).
InputsOfThisRun ==
    \A t \in Jobs : status[t] = "running" =>
        \A table \in Reads[t] : \/ ReadsOldShape(t, table)
                                \/ \E u \in DOMAIN Writes :
                                      Writes[u] = table /\ status[u] = "success"

\* Whatever order the tasks run in, in whichever run, a job finds the tables
\* that it reads and writes.
TablesExist == \A t \in Jobs : status[t] = "running" => Needs(t) \subseteq exists

\* Production never holds anything but a table the risk score test has passed
\* whole, whichever jobs of whichever runs died on the way.
PublishedPassed ==
    \/ \A d \in Days : rows["prod.nl_road_risk_score"][d] = 0
    \/ Total("prod.nl_road_risk_score") = 1

\* No run succeeds after one that has: its buildings come on top of theirs,
\* and the assertion on their number counts both (nl_buildings_test.py:16-20),
\* as long as a day's extract is no smaller than the accepted range is wide.
SucceedsOnce ==
    \A d, e \in Days : outcome[d] = "success" /\ outcome[e] = "success" => d = e

\* As long as no task has died, only the tests fail, and the DDL of production,
\* which is not ordered after the creation of its database (dag.py:204): that
\* in the first run only, for the database is there afterwards.
FaultFreeFailures ==
    faults = MaxFaults => \A t \in Tasks : status[t] = "failed" =>
        \/ t \in {"nl_buildings_test", "nl_risk_score_test"}
        \/ /\ t = "nl_road_risk_score_ddl_prod"
           /\ \A d \in Days : d < day => outcome[d] = "none"

\* A run can always go on until it ends, whatever has failed in it. Every step
\* takes a task further, so that it does end and leave its place to the next
\* (max_active_runs=1).
NeverStuck == Active => ENABLED RunStep
=============================================================================
