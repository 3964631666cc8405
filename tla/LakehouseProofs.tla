-------------------------- MODULE LakehouseProofs --------------------------
(***************************************************************************)
(* For any number of days, of slots and of jobs that die: what the edges   *)
(* of the DAG guarantee a job that starts, that only what has passed the   *)
(* test reaches production, that one run succeeds and no other after it,   *)
(* and that a run goes on until it ends. The edges give the invariant: a   *)
(* task that has been started has only tasks before it that have succeeded.*)
(***************************************************************************)
EXTENDS Lakehouse, FiniteSetTheorems, TLAPS

\* The names, so that no later step has to look into the records.
LEMMA TaskNames ==
    /\ Ddls = {"create_catalog", "create_catalog_prod", "nl_shape_ddl", "nl_flood_ddl",
               "nl_road_risk_score_ddl", "nl_transportation_ddl",
               "nl_transportation_hex_bins_ddl", "nl_buildings_ddl",
               "nl_road_risk_score_ddl_prod"}
    /\ Jobs = {"nl_shape", "nl_buildings", "nl_buildings_test", "nl_flood_map",
               "nl_transportation", "nl_hex_grids", "nl_risk_score", "nl_risk_score_test",
               "nl_road_risk_score_prod"}
    /\ DOMAIN Writes = Jobs \ {"nl_buildings_test", "nl_risk_score_test"}
<1>1. Ddls = {"create_catalog", "create_catalog_prod", "nl_shape_ddl", "nl_flood_ddl",
               "nl_road_risk_score_ddl", "nl_transportation_ddl",
               "nl_transportation_hex_bins_ddl", "nl_buildings_ddl",
               "nl_road_risk_score_ddl_prod"}
  BY DEF Ddls, Creates
<1>2. Jobs = {"nl_shape", "nl_buildings", "nl_buildings_test", "nl_flood_map",
               "nl_transportation", "nl_hex_grids", "nl_risk_score", "nl_risk_score_test",
               "nl_road_risk_score_prod"}
  BY DEF Jobs, Reads
<1>3. DOMAIN Writes = Jobs \ {"nl_buildings_test", "nl_risk_score_test"}
  BY <1>2 DEF Writes
<1> QED BY <1>1, <1>2, <1>3

\* Which job writes which of the tables the proofs look at.
LEMMA Tables ==
    /\ Writes["nl_risk_score"] = "nl_road_risk_score"
    /\ Writes["nl_road_risk_score_prod"] = "prod.nl_road_risk_score"
    /\ \A t \in DOMAIN Writes \ {"nl_shape"} : Writes[t] \in Partitioned
    /\ \A t \in DOMAIN Writes : /\ Writes[t] = "nl_road_risk_score" => t = "nl_risk_score"
                                /\ Writes[t] = "prod.nl_road_risk_score"
                                      => t = "nl_road_risk_score_prod"
<1>1. Writes["nl_risk_score"] = "nl_road_risk_score"
  BY DEF Writes
<1>2. Writes["nl_road_risk_score_prod"] = "prod.nl_road_risk_score"
  BY DEF Writes
<1>3. \A t \in DOMAIN Writes \ {"nl_shape"} : Writes[t] # "nl_shape"
  BY TaskNames DEF Writes
<1>4. \A t \in DOMAIN Writes \ {"nl_shape"} : Writes[t] \in Partitioned
  BY <1>3 DEF Partitioned
<1>5. \A t \in DOMAIN Writes : /\ Writes[t] = "nl_road_risk_score" => t = "nl_risk_score"
                               /\ Writes[t] = "prod.nl_road_risk_score"
                                     => t = "nl_road_risk_score_prod"
  BY TaskNames DEF Writes
<1> QED BY <1>1, <1>2, <1>4, <1>5

\* What a job writes keeps the types.
LEMMA CommitType ==
  ASSUME TypeOK, Active, NEW t \in Jobs, Commit(t)
  PROVE  /\ exists' \subseteq Objects
         /\ shape' \in Nat
         /\ rows' \in [Partitioned -> [Days -> Nat]]
<1> USE DEF TypeOK
<1>1. day \in Days
  BY DEF Active, Days
<1>2. exists' \subseteq Objects
  BY DEF Commit
<1>3. CASE t = "nl_shape"
  BY <1>2, <1>3 DEF Commit
<1>4. CASE t = "nl_road_risk_score_prod"
  <2>1. Writes[t] \in Partitioned /\ "nl_road_risk_score" \in Partitioned
    BY <1>4, TaskNames, Tables
  <2>2. Overwritten(rows[Writes[t]], rows["nl_road_risk_score"]) \in [Days -> Nat]
    BY <2>1 DEF Overwritten
  <2>3. /\ rows' = [rows EXCEPT ![Writes[t]] =
                       Overwritten(rows[Writes[t]], rows["nl_road_risk_score"])]
        /\ shape' = shape
    BY <1>4 DEF Commit
  <2> QED BY <1>2, <2>1, <2>2, <2>3
<1>5. CASE t \in DOMAIN Writes \ {"nl_shape", "nl_road_risk_score_prod"}
  <2>1. Writes[t] \in Partitioned
    BY <1>5, Tables
  <2>2. /\ rows' = [rows EXCEPT ![Writes[t]][day] =
                       IF out[t] = 0 THEN rows[Writes[t]][day] ELSE out[t]]
        /\ shape' = shape
    BY <1>5 DEF Commit
  <2> QED BY <1>1, <1>2, <2>1, <2>2
<1>6. CASE t \notin DOMAIN Writes
  <2>1. t # "nl_shape" /\ t # "nl_road_risk_score_prod"
    BY <1>6, TaskNames
  <2>2. shape' = shape /\ rows' = rows
    BY <1>6, <2>1 DEF Commit
  <2> QED BY <1>2, <2>2
<1> QED BY <1>3, <1>4, <1>5, <1>6

\* Every variable keeps its type.
THEOREM TypeCorrect == Spec => []TypeOK
<1>1. Init => TypeOK
  BY LakehouseAssumption DEF Init, TypeOK
<1>2. TypeOK /\ [Next]_vars => TypeOK'
  <2> SUFFICES ASSUME TypeOK, [Next]_vars PROVE TypeOK'
    OBVIOUS
  <2> USE LakehouseAssumption DEF TypeOK
  <2>1. ASSUME NEW d \in Days, StartRun(d) PROVE TypeOK'
    BY <2>1 DEF StartRun, data, Days
  <2>2. CASE MarkUpstreamFailed
    BY <2>2 DEF MarkUpstreamFailed, MarkAs, data
  <2>3. CASE EndRun
    BY <2>3 DEF EndRun, data, Active
  <2>4. ASSUME NEW t \in Ddls, RunDdl(t) PROVE TypeOK'
    <3>1. t \in Tasks /\ Creates[t] \in Objects
      BY DEF Tasks, Objects
    <3> QED BY <2>4, <3>1 DEF RunDdl
  <2>5. ASSUME NEW t \in Jobs, Start(t) PROVE TypeOK'
    <3>1. t \in Tasks
      BY DEF Tasks
    <3>2. Output(t) \subseteq Nat
      BY DEF Output, BuildingsOutput, FloodOutput, TransportationOutput, HexOutput, ScoreOutput
    <3> QED BY <2>5, <3>1, <3>2 DEF Start, data
  <2>6. ASSUME NEW t \in Jobs, NEW s \in {"success", "failed"}, Ends(t, s)
        PROVE  /\ day' \in 0..LastDay
               /\ outcome' \in [Days -> {"none", "running", "success", "failed"}]
               /\ status' \in [Tasks -> {"none", "running", "success", "failed",
                                         "upstream_failed"}]
               /\ out' \in [Jobs -> Nat]
    BY <2>6 DEF Ends, Tasks
  <2>7. ASSUME NEW t \in Jobs, Succeed(t) PROVE TypeOK'
    BY <2>6, <2>7, CommitType DEF Succeed, Ends
  <2>8. ASSUME NEW t \in Jobs, Refuse(t) PROVE TypeOK'
    BY <2>6, <2>8 DEF Refuse, data
  <2>9. ASSUME NEW t \in Jobs, Die(t) PROVE TypeOK'
    <3>1. Active /\ Ends(t, "failed") /\ faults' \in 0..MaxFaults
      BY <2>9 DEF Die, Ends
    <3>2. CASE UNCHANGED data
      BY <2>6, <3>1, <3>2 DEF data
    <3>3. CASE Commit(t)
      BY <2>6, <3>1, <3>3, CommitType
    <3> QED BY <2>9, <3>2, <3>3 DEF Die
  <2>10. CASE UNCHANGED vars
    BY <2>10 DEF vars, data
  <2> QED
    BY <2>1, <2>2, <2>3, <2>4, <2>5, <2>7, <2>8, <2>9, <2>10 DEF Next, RunStep
<1> QED BY <1>1, <1>2, PTL DEF Spec
-----------------------------------------------------------------------------
(* What the edges give.                                                    *)

\* A task that has been started comes after nothing but successes.
AfterSuccess ==
    \A t \in Tasks : status[t] \in {"running", "success", "failed"} =>
        \A u \in Upstream[t] : status[u] = "success"

\* What a DDL task of this run has created is there.
Created == \A t \in Ddls : status[t] = "success" => Creates[t] \in exists

OrderInv == TypeOK /\ AfterSuccess /\ Created

\* The paths of the DAG that the properties need.
LEMMA Paths ==
    /\ Upstream["create_catalog_prod"] = {}
    /\ \A t \in StagingDdls : "create_catalog" \in Upstream[t]
    /\ StagingDdls \subseteq Upstream["nl_shape"]
    /\ "nl_shape" \in Upstream["nl_buildings_ddl"]
    /\ "nl_buildings_ddl" \in Upstream["nl_buildings"]
    /\ "nl_buildings" \in Upstream["nl_buildings_test"]
    /\ {"nl_shape_ddl", "nl_flood_ddl"} \subseteq Upstream["nl_flood_map"]
    /\ {"nl_shape_ddl", "nl_transportation_ddl"} \subseteq Upstream["nl_transportation"]
    /\ {"nl_transportation", "nl_transportation_hex_bins_ddl"} \subseteq Upstream["nl_hex_grids"]
    /\ {"nl_road_risk_score_ddl", "nl_buildings_test", "nl_flood_map", "nl_hex_grids"}
          \subseteq Upstream["nl_risk_score"]
    /\ "nl_risk_score" \in Upstream["nl_risk_score_test"]
    /\ {"nl_risk_score_test", "nl_road_risk_score_ddl_prod"}
          \subseteq Upstream["nl_road_risk_score_prod"]
<1> USE TaskNames DEF Upstream, Tasks
<1>1. Upstream["create_catalog_prod"] = {}
  BY DEF Edges, DdlEdges, BuildingEdges, FloodEdges, RoadEdges, ScoreEdges, ProdEdges, StagingDdls
<1>2. /\ \A t \in StagingDdls : "create_catalog" \in Upstream[t]
      /\ StagingDdls \subseteq Upstream["nl_shape"]
  BY DEF Edges, DdlEdges, StagingDdls
<1>3. /\ "nl_shape" \in Upstream["nl_buildings_ddl"]
      /\ "nl_buildings_ddl" \in Upstream["nl_buildings"]
      /\ "nl_buildings" \in Upstream["nl_buildings_test"]
  BY DEF Edges, BuildingEdges
<1>4. {"nl_shape_ddl", "nl_flood_ddl"} \subseteq Upstream["nl_flood_map"]
  BY DEF Edges, FloodEdges
<1>5. /\ {"nl_shape_ddl", "nl_transportation_ddl"} \subseteq Upstream["nl_transportation"]
      /\ {"nl_transportation", "nl_transportation_hex_bins_ddl"} \subseteq Upstream["nl_hex_grids"]
  BY DEF Edges, RoadEdges
<1>6. /\ {"nl_road_risk_score_ddl", "nl_buildings_test", "nl_flood_map", "nl_hex_grids"}
            \subseteq Upstream["nl_risk_score"]
      /\ "nl_risk_score" \in Upstream["nl_risk_score_test"]
  BY DEF Edges, ScoreEdges
<1>7. {"nl_risk_score_test", "nl_road_risk_score_ddl_prod"}
          \subseteq Upstream["nl_road_risk_score_prod"]
  BY DEF Edges, ProdEdges
<1> QED BY <1>1, <1>2, <1>3, <1>4, <1>5, <1>6, <1>7

\* One task goes from a state in which it may to another: the tasks before a
\* started one, which have succeeded, are none of those that can move.
LEMMA OneTaskMoves ==
  ASSUME OrderInv, NEW t \in Tasks, NEW s \in {"running", "success", "failed"},
         \/ status[t] = "running"
         \/ status[t] = "none" /\ \A u \in Upstream[t] : status[u] = "success",
         status' = [status EXCEPT ![t] = s]
  PROVE  AfterSuccess'
<1> SUFFICES ASSUME NEW x \in Tasks, status'[x] \in {"running", "success", "failed"},
                    NEW u \in Upstream[x]
             PROVE  status'[u] = "success"
  BY DEF AfterSuccess
<1>1. status[u] = "success"
  BY DEF OrderInv, TypeOK, AfterSuccess
<1>2. u # t /\ u \in Tasks
  BY <1>1 DEF Upstream
<1> QED BY <1>1, <1>2 DEF OrderInv, TypeOK

\* The order of the tasks holds in every run, whatever dies.
THEOREM OrderKept == Spec => []OrderInv
<1>1. Init => OrderInv
  <2> SUFFICES ASSUME Init PROVE OrderInv
    OBVIOUS
  <2>1. TypeOK
    BY LakehouseAssumption DEF Init, TypeOK
  <2>2. \A t \in Tasks : status[t] = "none"
    BY DEF Init
  <2> QED BY <2>1, <2>2 DEF OrderInv, AfterSuccess, Created, Tasks
<1>2. OrderInv /\ TypeOK' /\ [Next]_vars => OrderInv'
  <2> SUFFICES ASSUME OrderInv, TypeOK', [Next]_vars PROVE AfterSuccess' /\ Created'
    BY DEF OrderInv
  <2> USE DEF OrderInv, TypeOK
  <2>1. ASSUME NEW d \in Days, StartRun(d) PROVE AfterSuccess' /\ Created'
    BY <2>1 DEF StartRun, AfterSuccess, Created, Tasks
  <2>2. CASE MarkUpstreamFailed
    <3>1. status' = [t \in Tasks |-> IF t \in Doomed({"failed", "upstream_failed"})
                                     THEN "upstream_failed" ELSE status[t]]
          /\ exists' = exists
      BY <2>2 DEF MarkUpstreamFailed, MarkAs, data
    <3>2. \A t \in Doomed({"failed", "upstream_failed"}) : status[t] = "none"
      BY DEF Doomed
    <3>3. \A t \in Tasks : \A u \in Upstream[t] : u \in Tasks
      BY DEF Upstream
    <3>4. AfterSuccess'
      BY <3>1, <3>2, <3>3 DEF AfterSuccess
    <3> QED BY <3>1, <3>4 DEF Created, Tasks
  <2>3. CASE EndRun
    BY <2>3 DEF EndRun, data, AfterSuccess, Created
  <2>4. ASSUME NEW t \in Ddls, RunDdl(t) PROVE AfterSuccess' /\ Created'
    <3>1. t \in Tasks /\ exists \subseteq exists' /\ t \notin Jobs
      BY <2>4, TaskNames DEF RunDdl, Tasks
    <3>2. PICK s \in {"success", "failed"} : /\ status' = [status EXCEPT ![t] = s]
                                             /\ s = "success" => Creates[t] \in exists'
      BY <2>4 DEF RunDdl
    <3>3. status[t] = "none" /\ \A u \in Upstream[t] : status[u] = "success"
      BY <2>4 DEF RunDdl, Ready
    <3>4. AfterSuccess'
      BY <3>1, <3>2, <3>3, OneTaskMoves
    <3>5. Created'
      BY <3>1, <3>2 DEF Created, Tasks
    <3> QED BY <3>4, <3>5
  <2>5. ASSUME NEW t \in Jobs, NEW s \in {"running", "success", "failed"},
               \/ status[t] = "running"
               \/ status[t] = "none" /\ \A u \in Upstream[t] : status[u] = "success",
               status' = [status EXCEPT ![t] = s], exists' = exists
        PROVE  AfterSuccess' /\ Created'
    <3>1. t \in Tasks /\ t \notin Ddls
      BY TaskNames DEF Tasks
    <3>2. AfterSuccess'
      BY <2>5, <3>1, OneTaskMoves
    <3>3. Created'
      BY <2>5, <3>1 DEF Created, Tasks
    <3> QED BY <3>2, <3>3
  <2>6. ASSUME NEW t \in Jobs, Start(t) PROVE AfterSuccess' /\ Created'
    BY <2>5, <2>6 DEF Start, Ready, data
  <2>7. ASSUME NEW t \in Jobs, Succeed(t) \/ Refuse(t) \/ Die(t)
        PROVE  AfterSuccess' /\ Created'
    <3>1. exists' = exists
      BY <2>7 DEF Succeed, Refuse, Die, Commit, data
    <3>2. PICK s \in {"success", "failed"} : Ends(t, s)
      BY <2>7 DEF Succeed, Refuse, Die
    <3> QED BY <2>5, <3>1, <3>2 DEF Ends
  <2>8. CASE UNCHANGED vars
    BY <2>8 DEF vars, data, AfterSuccess, Created
  <2> QED BY <2>1, <2>2, <2>3, <2>4, <2>6, <2>7, <2>8 DEF Next, RunStep
<1> QED BY <1>1, <1>2, TypeCorrect, PTL DEF Spec

\* A job that runs, and every task on a path to it.
LEMMA InputsInOrder == OrderInv => InputsOfThisRun
<1> SUFFICES ASSUME OrderInv, NEW t \in Jobs, status[t] = "running",
                    NEW table \in Reads[t], ~ReadsOldShape(t, table)
             PROVE  \E u \in DOMAIN Writes : Writes[u] = table /\ status[u] = "success"
  BY DEF InputsOfThisRun
<1> USE TaskNames, Paths DEF OrderInv, AfterSuccess, Tasks
<1>1. CASE t = "nl_buildings"
  BY <1>1 DEF Reads, Writes
<1>2. CASE t = "nl_buildings_test"
  BY <1>2 DEF Reads, Writes
<1>3. CASE t = "nl_hex_grids"
  BY <1>3 DEF Reads, Writes
<1>4. CASE t = "nl_risk_score"
  <2>1. /\ status["nl_flood_map"] = "success" /\ status["nl_hex_grids"] = "success"
        /\ status["nl_buildings_test"] = "success"
    BY <1>4
  <2>2. status["nl_buildings"] = "success"
    BY <2>1
  <2> QED BY <1>4, <2>1, <2>2 DEF Reads, Writes
<1>5. CASE t = "nl_risk_score_test"
  BY <1>5 DEF Reads, Writes
<1>6. CASE t = "nl_road_risk_score_prod"
  <2>1. status["nl_risk_score_test"] = "success"
    BY <1>6
  <2>2. status["nl_risk_score"] = "success"
    BY <2>1
  <2> QED BY <1>6, <2>2 DEF Reads, Writes
<1>7. CASE t \in {"nl_shape", "nl_flood_map", "nl_transportation"}
  BY <1>7 DEF Reads, ReadsOldShape
<1> QED BY <1>1, <1>2, <1>3, <1>4, <1>5, <1>6, <1>7

\* A job reads what this run has written, in every table but nl_shape.
THEOREM InputsCorrect == Spec => []InputsOfThisRun
BY OrderKept, InputsInOrder, PTL

\* The DDL tasks before each job, directly or not, make all it needs.
LEMMA TablesInOrder == OrderInv => TablesExist
<1> SUFFICES ASSUME OrderInv, NEW t \in Jobs, status[t] = "running"
             PROVE  Needs(t) \subseteq exists
  BY DEF TablesExist
<1> USE TaskNames, Paths DEF OrderInv, AfterSuccess, Tasks
<1>a. ASSUME NEW d \in Ddls, status[d] = "success" PROVE Creates[d] \in exists
  BY <1>a DEF Created
<1>b. Needs(t) = Reads[t] \cup (IF t \in DOMAIN Writes THEN {Writes[t]} ELSE {})
  BY DEF Needs
<1>1. status["nl_shape"] \in {"running", "success"} => "nl_shape" \in exists
  BY <1>a DEF StagingDdls, Creates
<1>2. status["nl_buildings"] \in {"running", "success"}
        => "nl_buildings" \in exists /\ "nl_shape" \in exists
  <2> SUFFICES ASSUME status["nl_buildings"] \in {"running", "success"}
               PROVE  "nl_buildings" \in exists /\ "nl_shape" \in exists
    OBVIOUS
  <2>1. status["nl_buildings_ddl"] = "success"
    OBVIOUS
  <2>2. status["nl_shape"] = "success"
    BY <2>1
  <2> QED BY <1>1, <1>a, <2>1, <2>2 DEF Creates
<1>3. status["nl_flood_map"] \in {"running", "success"}
        => "nl_flood_map" \in exists /\ "nl_shape" \in exists
  BY <1>a DEF Creates
<1>4. status["nl_transportation"] \in {"running", "success"}
        => "nl_transportation" \in exists /\ "nl_shape" \in exists
  BY <1>a DEF Creates
<1>5. status["nl_hex_grids"] \in {"running", "success"}
        => "nl_transportation_hex_bins" \in exists /\ "nl_transportation" \in exists
  BY <1>4, <1>a DEF Creates
<1>6. status["nl_buildings_test"] \in {"running", "success"} => "nl_buildings" \in exists
  BY <1>2
<1>7. status["nl_risk_score"] \in {"running", "success"}
        => {"nl_road_risk_score", "nl_buildings", "nl_flood_map",
            "nl_transportation_hex_bins"} \subseteq exists
  <2> SUFFICES ASSUME status["nl_risk_score"] \in {"running", "success"}
               PROVE  {"nl_road_risk_score", "nl_buildings", "nl_flood_map",
                       "nl_transportation_hex_bins"} \subseteq exists
    OBVIOUS
  <2>1. \A d \in {"nl_road_risk_score_ddl", "nl_buildings_test", "nl_flood_map",
                   "nl_hex_grids"} : status[d] = "success"
    OBVIOUS
  <2>2. "nl_road_risk_score" \in exists
    BY <1>a, <2>1 DEF Creates
  <2> QED BY <1>3, <1>5, <1>6, <2>1, <2>2
<1>8. status["nl_risk_score_test"] \in {"running", "success"} => "nl_road_risk_score" \in exists
  BY <1>7
<1>9. status["nl_road_risk_score_prod"] = "running"
        => {"nl_road_risk_score", "prod.nl_road_risk_score"} \subseteq exists
  BY <1>8, <1>a DEF Creates
<1> QED BY <1>b, <1>1, <1>2, <1>3, <1>4, <1>5, <1>6, <1>7, <1>8, <1>9 DEF Reads, Writes

\* A job finds the tables that it reads and writes.
THEOREM TablesCorrect == Spec => []TablesExist
BY OrderKept, TablesInOrder, PTL
-----------------------------------------------------------------------------
(* What production holds.                                                  *)

score == rows["nl_road_risk_score"]
prod == rows["prod.nl_road_risk_score"]

\* Production holds days of the staging table, which has none later than the
\* last run's, and that day only once the job that publishes it has ended.
PublishInv ==
    /\ \A d \in Days : (score[d] # 0 => d <= day) /\ (prod[d] # 0 => prod[d] = score[d])
    /\ status["nl_road_risk_score_prod"] \notin {"success", "failed"}
          => \A d \in Days : d = day /\ Active => prod[d] = 0
    /\ status["nl_risk_score_test"] = "success" => Total("nl_road_risk_score") = 1
    /\ PublishedPassed

\* What a job that writes does to the two tables.
LEMMA CommitScores ==
  ASSUME TypeOK, Active, NEW t \in Jobs, Commit(t)
  PROVE  /\ t \notin {"nl_risk_score", "nl_road_risk_score_prod"}
               => score' = score /\ prod' = prod
         /\ t = "nl_risk_score"
               => prod' = prod /\ \A d \in Days : d # day => score'[d] = score[d]
         /\ t = "nl_road_risk_score_prod"
               => score' = score /\ prod' = Overwritten(prod, score)
<1> USE DEF TypeOK
<1>1. CASE t \notin DOMAIN Writes \/ t = "nl_shape"
  BY <1>1, TaskNames DEF Commit, score, prod
<1>2. CASE t = "nl_road_risk_score_prod"
  <2>1. "nl_road_risk_score" \in Partitioned /\ "prod.nl_road_risk_score" \in Partitioned
    BY TaskNames, Tables
  <2>2. rows' = [rows EXCEPT !["prod.nl_road_risk_score"] =
                    Overwritten(rows["prod.nl_road_risk_score"], rows["nl_road_risk_score"])]
    BY <1>2, Tables DEF Commit
  <2> QED BY <1>2, <2>1, <2>2 DEF score, prod
<1>3. CASE t \in DOMAIN Writes \ {"nl_shape", "nl_road_risk_score_prod"}
  <2>1. /\ "nl_road_risk_score" \in Partitioned /\ "prod.nl_road_risk_score" \in Partitioned
        /\ Writes[t] \in Partitioned
        /\ Writes[t] # "prod.nl_road_risk_score"
        /\ t # "nl_risk_score" => Writes[t] # "nl_road_risk_score"
        /\ t = "nl_risk_score" => Writes[t] = "nl_road_risk_score"
    BY <1>3, TaskNames, Tables
  <2>2. rows' = [rows EXCEPT ![Writes[t]][day] =
                    IF out[t] = 0 THEN rows[Writes[t]][day] ELSE out[t]]
    BY <1>3 DEF Commit
  <2> QED BY <1>3, <2>1, <2>2 DEF score, prod
<1> QED BY <1>1, <1>2, <1>3

\* A job that ends, having written or not.
LEMMA EndKeepsPublished ==
  ASSUME OrderInv, PublishInv, NEW t \in Jobs, NEW s \in {"success", "failed"}, Ends(t, s),
         UNCHANGED data \/ Commit(t),
         s = "success" => Passes(t)
  PROVE  PublishInv'
<1> USE TaskNames DEF OrderInv, TypeOK
<1>1. /\ Active /\ day' = day /\ Active' /\ day \in Days
      /\ status[t] = "running" /\ status' = [status EXCEPT ![t] = s] /\ t \in Tasks
  BY DEF Ends, Active, Days, Tasks
<1>2. prod \in [Days -> Nat] /\ score \in [Days -> Nat]
  BY Tables DEF prod, score
<1>3. CASE score' = score /\ prod' = prod
  <2>1. rows'["nl_road_risk_score"] = rows["nl_road_risk_score"]
        /\ rows'["prod.nl_road_risk_score"] = rows["prod.nl_road_risk_score"]
    BY <1>3 DEF score, prod
  <2>2. Total("nl_road_risk_score")' = Total("nl_road_risk_score")
        /\ Total("prod.nl_road_risk_score")' = Total("prod.nl_road_risk_score")
    BY <2>1 DEF Total
  <2>3. PublishedPassed'
    BY <2>1, <2>2 DEF PublishedPassed, PublishInv
  <2>4. status'["nl_risk_score_test"] = "success" => Total("nl_road_risk_score")' = 1
    BY <1>1, <2>2 DEF PublishInv, Passes, ScorePasses
  <2> QED BY <1>1, <1>3, <2>3, <2>4 DEF PublishInv
<1>4. CASE t = "nl_risk_score" /\ Commit(t)
  <2>1. prod' = prod /\ \A d \in Days : d # day => score'[d] = score[d]
    BY <1>1, <1>4, CommitScores
  <2>2. status["nl_risk_score_test"] \notin {"running", "success", "failed"}
    BY <1>1, <1>4, Paths DEF AfterSuccess, Tasks
  <2>3. status["nl_road_risk_score_prod"] \notin {"running", "success", "failed"}
    BY <2>2, Paths DEF AfterSuccess, Tasks
  <2>4. prod[day] = 0
    BY <1>1, <2>3 DEF PublishInv
  <2>5. PublishedPassed'
    <3>1. rows'["prod.nl_road_risk_score"] = rows["prod.nl_road_risk_score"]
      BY <2>1 DEF prod
    <3>2. Total("prod.nl_road_risk_score")' = Total("prod.nl_road_risk_score")
      BY <3>1 DEF Total
    <3> QED BY <3>1, <3>2 DEF PublishedPassed, PublishInv
  <2>6. status'["nl_risk_score_test"] # "success"
    BY <1>1, <1>4, <2>2
  <2> QED BY <1>1, <1>2, <2>1, <2>4, <2>5, <2>6 DEF PublishInv
<1>5. CASE t = "nl_road_risk_score_prod" /\ Commit(t)
  <2>1. score' = score /\ prod' = Overwritten(prod, score)
    BY <1>1, <1>5, CommitScores
  <2>2. status["nl_risk_score_test"] = "success"
    BY <1>1, <1>5, Paths DEF AfterSuccess, Tasks
  <2>3. Total("nl_road_risk_score") = 1
    BY <2>2 DEF PublishInv
  <2>4. \A d \in Days : score[d] = 0 => prod[d] = 0
    BY <1>2 DEF PublishInv
  <2>5. prod' = score
    BY <1>2, <2>1, <2>4 DEF Overwritten
  <2>6. rows'["prod.nl_road_risk_score"] = rows["nl_road_risk_score"]
        /\ rows'["nl_road_risk_score"] = rows["nl_road_risk_score"]
    BY <2>1, <2>5 DEF prod, score
  <2>7. Total("prod.nl_road_risk_score")' = 1 /\ Total("nl_road_risk_score")' = 1
    BY <2>3, <2>6 DEF Total
  <2>8. status'["nl_road_risk_score_prod"] \in {"success", "failed"}
    BY <1>1, <1>5
  <2> QED BY <1>1, <2>1, <2>5, <2>7, <2>8 DEF PublishInv, PublishedPassed
<1> QED BY <1>1, <1>3, <1>4, <1>5, CommitScores DEF data, score, prod

\* Nothing but a table that has passed the risk score test gets to production.
THEOREM PublishedCorrect == Spec => []PublishedPassed
<1>1. Init => PublishInv
  <2> SUFFICES ASSUME Init PROVE PublishInv
    OBVIOUS
  <2>1. \A d \in Days : prod[d] = 0 /\ score[d] = 0
    BY TaskNames, Tables DEF Init, prod, score
  <2>2. status["nl_risk_score_test"] = "none"
    BY TaskNames DEF Init, Tasks
  <2> QED BY <2>1, <2>2 DEF PublishInv, PublishedPassed, prod
<1>2. OrderInv /\ PublishInv /\ [Next]_vars => PublishInv'
  <2> SUFFICES ASSUME OrderInv, PublishInv, [Next]_vars PROVE PublishInv'
    OBVIOUS
  <2> USE TaskNames DEF OrderInv, TypeOK
  <2>a. prod \in [Days -> Nat] /\ score \in [Days -> Nat]
    BY Tables DEF prod, score
  <2>b. ASSUME rows' = rows
        PROVE  /\ prod' = prod /\ score' = score
               /\ Total("nl_road_risk_score")' = Total("nl_road_risk_score")
               /\ PublishedPassed'
    <3>1. Total("nl_road_risk_score")' = Total("nl_road_risk_score")
          /\ Total("prod.nl_road_risk_score")' = Total("prod.nl_road_risk_score")
      BY <2>b DEF Total
    <3>2. PublishedPassed'
      BY <2>b, <3>1 DEF PublishInv, PublishedPassed
    <3> QED BY <2>b, <3>1, <3>2 DEF prod, score
  <2>1. ASSUME NEW d \in Days, StartRun(d) PROVE PublishInv'
    <3>1. rows' = rows /\ day' = day + 1 /\ day' \in Days
      BY <2>1 DEF StartRun, data
    <3>2. prod[day'] = 0
      BY <2>a, <3>1 DEF PublishInv, Days
    <3>3. status'["nl_risk_score_test"] = "none"
      BY <2>1 DEF StartRun, Tasks
    <3>4. \A e \in Days : e <= day => e <= day'
      BY <3>1 DEF Days
    <3> QED BY <2>b, <3>1, <3>2, <3>3, <3>4 DEF PublishInv
  <2>2. ASSUME UNCHANGED <<day, outcome, rows>>,
               \A t \in {"nl_road_risk_score_prod", "nl_risk_score_test"} :
                  status'[t] \in {"success", "failed"} => status'[t] = status[t],
               \A t \in {"nl_road_risk_score_prod", "nl_risk_score_test"} :
                  status[t] \in {"success", "failed"} => status'[t] = status[t]
        PROVE  PublishInv'
    <3>1. Active' = Active
      BY <2>2 DEF Active
    <3> QED BY <2>2, <2>b, <3>1 DEF PublishInv
  <2>3. CASE MarkUpstreamFailed
    BY <2>2, <2>3, Tables DEF MarkUpstreamFailed, MarkAs, Doomed, data, Tasks
  <2>4. CASE EndRun
    <3>1. /\ Active /\ rows' = rows /\ day' = day /\ status' = status
      BY <2>4 DEF EndRun, data
    <3> QED BY <2>b, <3>1 DEF PublishInv
  <2>5. ASSUME NEW t \in Ddls, RunDdl(t) PROVE PublishInv'
    <3>1. UNCHANGED <<day, outcome, rows>> /\ t \in Tasks
      BY <2>5 DEF RunDdl, Tasks
    <3>2. \E s \in {"success", "failed"} : status' = [status EXCEPT ![t] = s]
      BY <2>5 DEF RunDdl
    <3> QED BY <2>2, <3>1, <3>2 DEF Tasks
  <2>6. ASSUME NEW t \in Jobs, Start(t) PROVE PublishInv'
    <3>1. /\ UNCHANGED <<day, outcome, rows>> /\ t \in Tasks
          /\ status[t] = "none" /\ status' = [status EXCEPT ![t] = "running"]
      BY <2>6 DEF Start, Ready, data, Tasks
    <3> QED BY <2>2, <3>1 DEF Tasks
  <2>7. ASSUME NEW t \in Jobs, Succeed(t) PROVE PublishInv'
    BY <2>7, EndKeepsPublished DEF Succeed
  <2>8. ASSUME NEW t \in Jobs, Refuse(t) PROVE PublishInv'
    BY <2>8, EndKeepsPublished DEF Refuse
  <2>9. ASSUME NEW t \in Jobs, Die(t) PROVE PublishInv'
    <3>1. Ends(t, "failed") /\ (UNCHANGED data \/ Commit(t))
      BY <2>9 DEF Die
    <3> QED BY <3>1, EndKeepsPublished
  <2>10. CASE UNCHANGED vars
    BY <2>2, <2>10, TaskNames DEF vars, data, Tasks
  <2> QED
    BY <2>1, <2>3, <2>4, <2>5, <2>6, <2>7, <2>8, <2>9, <2>10 DEF Next, RunStep
<1>3. PublishInv => PublishedPassed
  BY DEF PublishInv
<1> QED BY <1>1, <1>2, <1>3, OrderKept, PTL DEF Spec
-----------------------------------------------------------------------------
(* What fails of itself.                                                   *)

\* The database of production is there from the second run on, for the task
\* that makes it waits for nothing and a run ends when all its tasks have.
FaultInv ==
    /\ FaultFreeFailures
    /\ faults = MaxFaults /\ day > 1 => "prod" \in exists
    /\ day # 0 /\ ~Active => \A t \in Tasks : Ended(t)
    /\ status["create_catalog_prod"] # "upstream_failed"

\* A DDL task other than that of production finds its database.
LEMMA DatabaseInOrder ==
  ASSUME OrderInv, NEW t \in Ddls, \A u \in Upstream[t] : status[u] = "success",
         t # "nl_road_risk_score_ddl_prod"
  PROVE  Needs(t) \subseteq exists
<1> USE TaskNames, Paths DEF OrderInv, Tasks
<1>1. status["create_catalog"] = "success" => "stg" \in exists
  BY DEF Created, Creates
<1>2. CASE t \in {"create_catalog", "create_catalog_prod"}
  BY <1>2 DEF Needs
<1>3. CASE t \in StagingDdls
  BY <1>1, <1>3 DEF Needs, StagingDdls
<1>4. CASE t = "nl_buildings_ddl"
  <2>1. status["nl_shape"] = "success"
    BY <1>4
  <2>2. status["nl_shape_ddl"] = "success"
    BY <2>1 DEF AfterSuccess, StagingDdls
  <2>3. status["create_catalog"] = "success"
    BY <2>2 DEF AfterSuccess, StagingDdls
  <2> QED BY <1>1, <1>4, <2>3 DEF Needs
<1> QED BY <1>2, <1>3, <1>4 DEF StagingDdls

\* The failures of a step are those of the run already, or may be.
LEMMA FailuresKept ==
  ASSUME FaultInv, UNCHANGED <<day, outcome>>, faults' = faults \/ faults' # MaxFaults,
         exists \subseteq exists',
         \A t \in Tasks : status'[t] = "failed" =>
             \/ status[t] = "failed"
             \/ faults' # MaxFaults
             \/ t \in {"nl_buildings_test", "nl_risk_score_test"}
             \/ /\ t = "nl_road_risk_score_ddl_prod"
                /\ \A d \in Days : d < day => outcome[d] = "none"
  PROVE  /\ FaultFreeFailures'
         /\ faults' = MaxFaults /\ day' > 1 => "prod" \in exists'
BY DEF FaultInv, FaultFreeFailures

\* The DDL of production in the first run, and the tests, are all that fails
\* as long as no task dies.
THEOREM FailuresCorrect == Spec => []FaultFreeFailures
<1>1. Init => FaultInv
  BY TaskNames DEF Init, FaultInv, FaultFreeFailures, Tasks
<1>2. OrderInv /\ FaultInv /\ [Next]_vars => FaultInv'
  <2> SUFFICES ASSUME OrderInv, FaultInv, [Next]_vars PROVE FaultInv'
    OBVIOUS
  <2> USE TaskNames DEF OrderInv, TypeOK
  <2>a. "create_catalog_prod" \in Tasks
    BY DEF Tasks
  <2>b. faults = MaxFaults /\ day # 0 /\ ~Active => "prod" \in exists
    <3> SUFFICES ASSUME faults = MaxFaults, day # 0, ~Active PROVE "prod" \in exists
      OBVIOUS
    <3>1. status["create_catalog_prod"] \in {"success", "failed"}
      BY <2>a DEF FaultInv, Ended
    <3>2. status["create_catalog_prod"] # "failed"
      BY <2>a DEF FaultInv, FaultFreeFailures
    <3> QED BY <3>1, <3>2 DEF Created, Creates
  <2>1. ASSUME NEW d \in Days, StartRun(d) PROVE FaultInv'
    <3>1. /\ ~Active /\ day' = day + 1 /\ day' = d /\ exists' = exists /\ faults' = faults
          /\ status' = [t \in Tasks |-> "none"]
          /\ outcome' = [outcome EXCEPT ![d] = "running"]
      BY <2>1 DEF StartRun, data
    <3>2. FaultFreeFailures'
      BY <3>1 DEF FaultFreeFailures
    <3>3. faults' = MaxFaults /\ day' > 1 => "prod" \in exists'
      BY <2>b, <3>1
    <3>4. Active'
      BY <3>1 DEF Active, Days
    <3> QED BY <2>a, <3>1, <3>2, <3>3, <3>4 DEF FaultInv
  <2>2. CASE MarkUpstreamFailed
    <3>1. /\ Active /\ UNCHANGED <<day, outcome, exists, faults>>
          /\ status' = [t \in Tasks |-> IF t \in Doomed({"failed", "upstream_failed"})
                                        THEN "upstream_failed" ELSE status[t]]
      BY <2>2 DEF MarkUpstreamFailed, MarkAs, data
    <3>2. "create_catalog_prod" \notin Doomed({"failed", "upstream_failed"})
      BY Paths DEF Doomed
    <3>3. Active'
      BY <3>1 DEF Active
    <3>4. \A t \in Tasks : status'[t] = "failed" => status[t] = "failed"
      BY <3>1
    <3>5. exists \subseteq exists' /\ faults' = faults
      BY <3>1
    <3>6. /\ FaultFreeFailures'
          /\ faults' = MaxFaults /\ day' > 1 => "prod" \in exists'
      BY ONLY FaultInv, <3>1, <3>4, <3>5, FailuresKept
    <3> QED BY <2>a, <3>1, <3>2, <3>3, <3>6 DEF FaultInv
  <2>3. CASE EndRun
    <3>1. /\ day' = day /\ status' = status /\ exists' = exists /\ faults' = faults
          /\ \A t \in Tasks : Ended(t) /\ Ended(t)'
          /\ \A d \in Days : d < day => outcome'[d] = outcome[d]
      BY <2>3 DEF EndRun, data, Ended, Active, Days
    <3> QED BY <3>1 DEF FaultInv, FaultFreeFailures
  <2>4. ASSUME NEW t \in Tasks, NEW s \in {"running", "success", "failed"},
               Active, UNCHANGED <<day, outcome>>, status' = [status EXCEPT ![t] = s],
               exists \subseteq exists', faults' \in {faults, faults - 1},
               s = "failed" => \/ faults' = faults - 1
                               \/ t \in {"nl_buildings_test", "nl_risk_score_test"}
                               \/ (t = "nl_road_risk_score_ddl_prod" /\ "prod" \notin exists)
        PROVE  FaultInv'
    <3>1. faults' = faults \/ faults' # MaxFaults
      BY <2>4, LakehouseAssumption
    <3>2. faults' = faults - 1 => faults' # MaxFaults
      BY LakehouseAssumption
    <3>3. faults' = MaxFaults /\ "prod" \notin exists
             => \A d \in Days : d < day => outcome[d] = "none"
      BY <3>1 DEF FaultInv, Days
    <3>4. \A x \in Tasks : status'[x] = "failed" => status[x] = "failed" \/ (x = t /\ s = "failed")
      BY <2>4
    <3>5. /\ FaultFreeFailures'
          /\ faults' = MaxFaults /\ day' > 1 => "prod" \in exists'
      <4>1. \A x \in Tasks : status'[x] = "failed" =>
               \/ status[x] = "failed"
               \/ faults' # MaxFaults
               \/ x \in {"nl_buildings_test", "nl_risk_score_test"}
               \/ /\ x = "nl_road_risk_score_ddl_prod"
                  /\ \A d \in Days : d < day => outcome[d] = "none"
        BY <2>4, <3>2, <3>3, <3>4
      <4> QED BY ONLY FaultInv, <2>4, <3>1, <4>1, FailuresKept
    <3>6. Active'
      BY <2>4 DEF Active
    <3> QED BY <2>4, <2>a, <3>5, <3>6 DEF FaultInv
  <2>5. ASSUME NEW t \in Ddls, RunDdl(t) PROVE FaultInv'
    <3>1. /\ t \in Tasks /\ Active /\ UNCHANGED <<day, outcome>>
          /\ exists \subseteq exists'
          /\ \A u \in Upstream[t] : status[u] = "success"
      BY <2>5 DEF RunDdl, Ready, Tasks
    <3>2. PICK s \in {"success", "failed"} :
             /\ status' = [status EXCEPT ![t] = s]
             /\ s = "failed" => faults' = faults - 1 \/ (faults' = faults /\ MayRefuse(t))
             /\ s = "success" => faults' = faults
      BY <2>5 DEF RunDdl
    <3>3. MayRefuse(t) => t = "nl_road_risk_score_ddl_prod" /\ "prod" \notin exists
      BY <3>1, DatabaseInOrder DEF MayRefuse, Needs
    <3> QED BY <2>4, <3>1, <3>2, <3>3
  <2>6. ASSUME NEW t \in Jobs, Start(t) PROVE FaultInv'
    <3>1. /\ t \in Tasks /\ Active /\ UNCHANGED <<day, outcome, exists, faults>>
          /\ status' = [status EXCEPT ![t] = "running"]
      BY <2>6 DEF Start, Ready, data, Tasks
    <3> QED BY <2>4, <3>1
  <2>7. ASSUME NEW t \in Jobs, Succeed(t) PROVE FaultInv'
    <3>1. /\ t \in Tasks /\ Active /\ UNCHANGED <<day, outcome, exists, faults>>
          /\ status' = [status EXCEPT ![t] = "success"]
      BY <2>7 DEF Succeed, Ends, Commit, Tasks
    <3> QED BY <2>4, <3>1
  <2>8. ASSUME NEW t \in Jobs, Refuse(t) PROVE FaultInv'
    <3>1. /\ t \in Tasks /\ Active /\ UNCHANGED <<day, outcome, exists, faults>>
          /\ status' = [status EXCEPT ![t] = "failed"]
      BY <2>8 DEF Refuse, Ends, data, Tasks
    <3>2. Needs(t) \subseteq exists
      BY <2>8, TablesInOrder DEF Refuse, Ends, TablesExist
    <3>3. t \in {"nl_buildings_test", "nl_risk_score_test"}
      BY <2>8, <3>2 DEF Refuse, Passes
    <3> QED BY <2>4, <3>1, <3>3
  <2>9. ASSUME NEW t \in Jobs, Die(t) PROVE FaultInv'
    <3>1. /\ t \in Tasks /\ Active /\ UNCHANGED <<day, outcome, exists>>
          /\ status' = [status EXCEPT ![t] = "failed"] /\ faults' = faults - 1
      BY <2>9 DEF Die, Ends, Commit, data, Tasks
    <3> QED BY <2>4, <3>1
  <2>10. CASE UNCHANGED vars
    BY <2>10 DEF vars, data, FaultInv, FaultFreeFailures, Active, Ended
  <2> QED
    BY <2>1, <2>2, <2>3, <2>5, <2>6, <2>7, <2>8, <2>9, <2>10 DEF Next, RunStep
<1>3. FaultInv => FaultFreeFailures
  BY DEF FaultInv
<1> QED BY <1>1, <1>2, <1>3, OrderKept, PTL DEF Spec
-----------------------------------------------------------------------------
(* How often a run can succeed.                                            *)

\* The rows of a partition.
LEMMA PartitionRows ==
  ASSUME NEW d, NEW k \in Nat
  PROVE  IsFiniteSet({d} \X (1..k)) /\ Cardinality({d} \X (1..k)) = k
<1>1. IsFiniteSet({d}) /\ Cardinality({d}) = 1
  BY FS_Singleton
<1>2. 1 \in Int /\ k \in Int
  OBVIOUS
<1>3. IsFiniteSet(1..k) /\ Cardinality(1..k) = (IF 1 > k THEN 0 ELSE k - 1 + 1)
  BY ONLY <1>2, FS_Interval, Zenon
<1>4. Cardinality(1..k) = k
  BY <1>3
<1>5. /\ IsFiniteSet({d} \X (1..k))
      /\ Cardinality({d} \X (1..k)) = Cardinality({d}) * Cardinality(1..k)
  BY <1>1, <1>3, FS_Product
<1> QED BY <1>1, <1>4, <1>5

\* A table has finitely many rows.
LEMMA RowsFinite ==
  ASSUME NEW f \in [Days -> Nat]
  PROVE  /\ IsFiniteSet(UNION {{d} \X (1..f[d]) : d \in Days})
         /\ RowCount(f) \in Nat
<1> DEFINE part == [d \in Days |-> {d} \X (1..f[d])]
<1>1. IsFiniteSet(Days)
  BY FS_Interval, LakehouseAssumption DEF Days
<1>2. IsFiniteSet({part[d] : d \in Days})
  <2>1. part \in Surjection(Days, {part[d] : d \in Days})
    BY DEF Surjection
  <2> QED BY <1>1, <2>1, FS_Surjection
<1>3. {part[d] : d \in Days} = {{d} \X (1..f[d]) : d \in Days}
  OBVIOUS
<1>4. ASSUME NEW d \in Days PROVE IsFiniteSet({d} \X (1..f[d]))
  <2>1. f[d] \in Nat
    OBVIOUS
  <2> QED BY ONLY <2>1, PartitionRows
<1>5. IsFiniteSet(UNION {{d} \X (1..f[d]) : d \in Days})
  BY ONLY <1>2, <1>3, <1>4, FS_UNION
<1> QED BY <1>5, FS_CardinalityType DEF RowCount

\* The rows of a table with a partition that was empty and now has n rows.
LEMMA RowsAdded ==
  ASSUME NEW f \in [Days -> Nat], NEW e \in Days, f[e] = 0, NEW n \in Nat
  PROVE  RowCount([f EXCEPT ![e] = n]) = RowCount(f) + n
<1> DEFINE g == [f EXCEPT ![e] = n]
           all == UNION {{d} \X (1..f[d]) : d \in Days}
           added == {e} \X (1..n)
<1>1. IsFiniteSet(all) /\ Cardinality(all) \in Nat
  BY RowsFinite DEF RowCount
<1>2. IsFiniteSet(added) /\ Cardinality(added) = n
  BY PartitionRows
<1>3. UNION {{d} \X (1..g[d]) : d \in Days} = all \cup added
  <2>1. ASSUME NEW d \in Days PROVE {d} \X (1..g[d]) \subseteq all \cup added
    BY <2>1
  <2>2. ASSUME NEW d \in Days PROVE {d} \X (1..f[d]) \subseteq {d} \X (1..g[d])
    BY <2>2
  <2>3. added = {e} \X (1..g[e])
    OBVIOUS
  <2> QED BY <2>1, <2>2, <2>3
<1>4. all \cap added = {}
  <2>1. ASSUME NEW d \in Days PROVE ({d} \X (1..f[d])) \cap added = {}
    BY <2>1
  <2> QED BY <2>1
<1>5. Cardinality(all \cap added) = 0
  BY <1>4, FS_EmptySet
<1>6. Cardinality(all \cup added)
         = Cardinality(all) + Cardinality(added) - Cardinality(all \cap added)
  BY <1>1, <1>2, FS_Union
<1>7. Cardinality(all \cup added) = Cardinality(all) + n
  BY <1>1, <1>2, <1>5, <1>6
<1> QED BY <1>3, <1>7 DEF RowCount

\* The buildings are partitioned, and one job writes them.
LEMMA BuildingsTable ==
    /\ "nl_buildings" \in Partitioned
    /\ \A t \in DOMAIN Writes : Writes[t] = "nl_buildings" <=> t = "nl_buildings"
<1>1. Writes["nl_buildings"] = "nl_buildings"
  BY DEF Writes
<1>2. "nl_buildings" \in Partitioned
  BY <1>1, TaskNames, Tables
<1>3. \A t \in DOMAIN Writes : Writes[t] = "nl_buildings" <=> t = "nl_buildings"
  BY TaskNames DEF Writes
<1> QED BY <1>2, <1>3

\* So are the hexagons.
LEMMA HexTable ==
    /\ "nl_transportation_hex_bins" \in Partitioned
    /\ \A t \in DOMAIN Writes : Writes[t] = "nl_transportation_hex_bins" => t = "nl_hex_grids"
<1>1. Writes["nl_hex_grids"] = "nl_transportation_hex_bins"
  BY DEF Writes
<1>2. "nl_transportation_hex_bins" \in Partitioned
  BY <1>1, TaskNames, Tables
<1>3. \A t \in DOMAIN Writes : Writes[t] = "nl_transportation_hex_bins" => t = "nl_hex_grids"
  BY TaskNames DEF Writes
<1> QED BY <1>2, <1>3

buildings == rows["nl_buildings"]

\* The buildings of a day are there from the run of that day on, and are added
\* once. They are the day's extract, so that a run which comes after one that
\* succeeded has too many of them from the moment it has written its own.
OnceInv ==
    /\ \A d \in Days : d > day => buildings[d] = 0 /\ outcome[d] = "none"
    /\ Active /\ status["nl_buildings"] \notin {"success", "failed"} => buildings[day] = 0
    /\ status["nl_shape"] = "running" => out["nl_shape"] # 0
    /\ status["nl_shape"] = "success" => shape # 0
    /\ status["nl_buildings"] = "running" => out["nl_buildings"] \in BuildingRows
    /\ \A d \in Days : outcome[d] = "success" => Total("nl_buildings") > MinBuildings
    /\ \A d \in Days : d < day /\ outcome[d] = "success" /\ status["nl_buildings"] = "success"
          => Total("nl_buildings") >= MaxBuildings
    /\ status["nl_buildings_test"] = "success" => BuildingsPass
    /\ SucceedsOnce

\* What a job that writes does to a table of the staging database.
LEMMA CommitTable ==
  ASSUME TypeOK, Active, NEW t \in Jobs, Commit(t),
         NEW p \in Partitioned, p # "prod.nl_road_risk_score"
  PROVE  \/ rows'[p] = rows[p] /\ (t \in DOMAIN Writes => Writes[t] # p)
         \/ /\ t \in DOMAIN Writes /\ Writes[t] = p
            /\ rows'[p] = [rows[p] EXCEPT ![day] = IF out[t] = 0 THEN @ ELSE out[t]]
<1> USE DEF TypeOK
<1>1. CASE t \notin DOMAIN Writes \/ t = "nl_shape"
  BY <1>1, TaskNames DEF Commit, Partitioned, Writes
<1>2. CASE t = "nl_road_risk_score_prod"
  BY <1>2, Tables DEF Commit
<1>3. CASE t \in DOMAIN Writes \ {"nl_shape", "nl_road_risk_score_prod"}
  <2>1. Writes[t] \in Partitioned
    BY <1>3, Tables
  <2>2. rows' = [rows EXCEPT ![Writes[t]][day] =
                    IF out[t] = 0 THEN rows[Writes[t]][day] ELSE out[t]]
    BY <1>3 DEF Commit
  <2> QED BY <1>3, <2>1, <2>2
<1> QED BY <1>1, <1>2, <1>3

\* What a job that writes does to the buildings.
LEMMA CommitBuildings ==
  ASSUME TypeOK, Active, NEW t \in Jobs, Commit(t)
  PROVE  /\ t # "nl_buildings" => buildings' = buildings
         /\ t = "nl_buildings" =>
               buildings' = [buildings EXCEPT ![day] = IF out[t] = 0 THEN @ ELSE out[t]]
BY CommitTable, BuildingsTable, TaskNames DEF buildings

\* The extract of a day is at least as large as the accepted range is wide.
ExtractsFill == \A n \in BuildingRows : MinBuildings + n + 1 >= MaxBuildings

\* A step that leaves the days, the outcomes and the buildings alone.
LEMMA BuildingsKept ==
  ASSUME OnceInv, UNCHANGED <<day, outcome, buildings>>,
         status'["nl_buildings"] \notin {"success", "failed"}
            => status["nl_buildings"] \notin {"success", "failed"},
         status'["nl_buildings"] = "success" => status["nl_buildings"] = "success",
         status'["nl_buildings"] = "running" => out'["nl_buildings"] \in BuildingRows,
         status'["nl_shape"] = "running" => out'["nl_shape"] # 0,
         status'["nl_shape"] = "success" => shape' # 0,
         status'["nl_buildings_test"] = "success" => BuildingsPass
  PROVE  OnceInv'
<1>1. Active' = Active
  BY DEF Active
<1>2. Total("nl_buildings")' = Total("nl_buildings")
  BY DEF Total, buildings
<1>3. BuildingsPass' = BuildingsPass
  BY <1>2 DEF BuildingsPass
<1>4. SucceedsOnce'
  BY DEF OnceInv, SucceedsOnce
<1> QED BY <1>1, <1>2, <1>3, <1>4 DEF OnceInv

\* The job of the buildings ends, and has written.
LEMMA BuildingsWritten ==
  ASSUME ExtractsFill, OrderInv, OnceInv, NEW s \in {"success", "failed"},
         Ends("nl_buildings", s), Commit("nl_buildings")
  PROVE  OnceInv'
<1> DEFINE n == out["nl_buildings"]
<1> USE TaskNames DEF OrderInv, TypeOK
<1>1. /\ Active /\ Active' /\ day \in Days /\ UNCHANGED <<day, outcome, shape>>
      /\ status["nl_buildings"] = "running" /\ n \in BuildingRows /\ n \in Nat
      /\ status' = [status EXCEPT !["nl_buildings"] = s] /\ "nl_buildings" \in Tasks
  BY DEF Ends, Active, Days, OnceInv, Tasks, Commit
<1>2. buildings \in [Days -> Nat] /\ buildings[day] = 0
  BY <1>1, BuildingsTable DEF buildings, OnceInv
<1>3. buildings' = [buildings EXCEPT ![day] = n]
  BY <1>1, <1>2, CommitBuildings
<1>4. /\ Total("nl_buildings")' = Total("nl_buildings") + n
      /\ Total("nl_buildings") \in Nat
  <2>1. RowCount([buildings EXCEPT ![day] = n]) = RowCount(buildings) + n
    BY <1>1, <1>2, RowsAdded
  <2>2. RowCount(buildings) \in Nat
    BY <1>2, RowsFinite
  <2>3. /\ Total("nl_buildings") = RowCount(buildings)
        /\ Total("nl_buildings")' = RowCount(buildings')
    BY DEF Total, buildings
  <2> QED BY <1>3, <2>1, <2>2, <2>3
<1>5. \A d \in Days : d > day => buildings'[d] = 0 /\ outcome'[d] = "none"
  BY <1>1, <1>2, <1>3 DEF OnceInv, Days
<1>6. \A d \in Days : outcome[d] = "success" => /\ Total("nl_buildings")' > MinBuildings
                                                /\ Total("nl_buildings")' >= MaxBuildings
  BY <1>1, <1>4, LakehouseAssumption DEF OnceInv, ExtractsFill
<1>7. status'["nl_buildings_test"] # "success"
  BY <1>1, Paths DEF AfterSuccess, Tasks
<1>8. status'["nl_buildings"] \in {"success", "failed"} /\ status'["nl_shape"] = status["nl_shape"]
      /\ out'["nl_shape"] = out["nl_shape"]
  BY <1>1 DEF Ends
<1>9. SucceedsOnce'
  BY <1>1 DEF OnceInv, SucceedsOnce
<1> QED BY <1>1, <1>5, <1>6, <1>7, <1>8, <1>9 DEF OnceInv

\* A job that ends, having written or not.
LEMMA EndKeepsOnce ==
  ASSUME ExtractsFill, OrderInv, OnceInv, NEW t \in Jobs, NEW s \in {"success", "failed"},
         Ends(t, s), UNCHANGED data \/ Commit(t),
         s = "success" => Passes(t) /\ Commit(t)
  PROVE  OnceInv'
<1> USE TaskNames DEF OrderInv, TypeOK
<1>1. /\ Active /\ day \in Days /\ UNCHANGED <<day, outcome>>
      /\ status[t] = "running" /\ status' = [status EXCEPT ![t] = s] /\ t \in Tasks
      /\ out' = [out EXCEPT ![t] = 0]
  BY DEF Ends, Active, Days, Tasks
<1>2. CASE t = "nl_buildings" /\ Commit(t)
  BY <1>2, BuildingsWritten
<1>3. CASE t = "nl_buildings" /\ UNCHANGED data /\ s = "failed"
  BY <1>1, <1>3, BuildingsKept DEF OnceInv, data, buildings
<1>4. CASE t # "nl_buildings"
  <2>1. buildings' = buildings
    BY <1>1, <1>4, CommitBuildings DEF data, buildings
  <2>2. /\ status'["nl_shape"] = "running" => out'["nl_shape"] # 0
        /\ status'["nl_shape"] = "success" => shape' # 0
    <3>1. CASE t = "nl_shape"
      BY <1>1, <3>1 DEF OnceInv, Commit
    <3>2. CASE t # "nl_shape"
      BY <1>1, <3>2 DEF OnceInv, Commit, data
    <3> QED BY <3>1, <3>2
  <2>3. status'["nl_buildings_test"] = "success" => BuildingsPass
    BY <1>1 DEF OnceInv, Passes
  <2>4. status'["nl_buildings"] = status["nl_buildings"]
        /\ out'["nl_buildings"] = out["nl_buildings"]
    BY <1>1, <1>4
  <2> QED BY <1>1, <2>1, <2>2, <2>3, <2>4, BuildingsKept DEF OnceInv
<1> QED BY <1>2, <1>3, <1>4

\* Once a run has succeeded no other does, over any number of days and deaths.
THEOREM SuccessIsFinal ==
  ASSUME ExtractsFill
  PROVE  Spec => []SucceedsOnce
<1>1. Init => OnceInv
  <2> SUFFICES ASSUME Init PROVE OnceInv
    OBVIOUS
  <2>1. \A t \in Tasks : status[t] = "none"
    BY DEF Init
  <2>2. \A d \in Days : buildings[d] = 0 /\ outcome[d] = "none"
    BY BuildingsTable DEF Init, buildings
  <2> QED BY <2>1, <2>2, TaskNames DEF Init, OnceInv, SucceedsOnce, Active, Tasks
<1>2. OrderInv /\ OnceInv /\ [Next]_vars => OnceInv'
  <2> SUFFICES ASSUME OrderInv, OnceInv, [Next]_vars PROVE OnceInv'
    OBVIOUS
  <2> USE TaskNames DEF OrderInv, TypeOK
  <2>a. ASSUME UNCHANGED <<day, outcome, shape, rows, out>>,
               \A t \in {"nl_shape", "nl_buildings", "nl_buildings_test"} :
                  \/ status'[t] = status[t]
                  \/ status[t] = "none" /\ status'[t] = "failed"
                  \/ status[t] = "none" /\ status'[t] = "upstream_failed"
        PROVE  OnceInv'
    BY <2>a, BuildingsKept DEF OnceInv, buildings
  <2>1. ASSUME NEW d \in Days, StartRun(d) PROVE OnceInv'
    <3>1. /\ ~Active /\ day' = day + 1 /\ day' = d /\ UNCHANGED <<rows, buildings>>
          /\ \A t \in Tasks : status'[t] = "none"
          /\ outcome' = [outcome EXCEPT ![d] = "running"]
      BY <2>1 DEF StartRun, data, buildings
    <3>2. Total("nl_buildings")' = Total("nl_buildings")
      BY <3>1 DEF Total
    <3>3. \A e \in Days : outcome'[e] = "success" <=> outcome[e] = "success"
      BY <3>1 DEF OnceInv, Days
    <3>4. SucceedsOnce'
      BY <3>3 DEF OnceInv, SucceedsOnce
    <3>5. \A e \in Days : e > day' => buildings'[e] = 0 /\ outcome'[e] = "none"
      BY <3>1 DEF OnceInv, Days
    <3>6. buildings'[day'] = 0
      BY <3>1 DEF OnceInv, Days
    <3> QED BY <3>1, <3>2, <3>3, <3>4, <3>5, <3>6 DEF OnceInv, Tasks
  <2>2. CASE MarkUpstreamFailed
    BY <2>a, <2>2 DEF MarkUpstreamFailed, MarkAs, Doomed, data, Tasks
  <2>3. CASE EndRun
    <3>1. /\ Active /\ day \in Days /\ UNCHANGED <<day, status, shape, out, rows, buildings>>
          /\ outcome' = [outcome EXCEPT ![day] =
                            IF status["nl_road_risk_score_prod"] = "success"
                            THEN "success" ELSE "failed"]
      BY <2>3 DEF EndRun, data, Active, Days, buildings
    <3>2. Total("nl_buildings")' = Total("nl_buildings")
      BY <3>1 DEF Total
    <3>3. \A d \in Days : d # day => outcome'[d] = outcome[d]
      BY <3>1
    <3>4. ~Active'
      BY <3>1 DEF Active
    <3>5. CASE status["nl_road_risk_score_prod"] = "success"
      <4>1. status["nl_buildings_test"] = "success" /\ status["nl_buildings"] = "success"
        <5>1. status["nl_risk_score_test"] = "success"
          BY <3>5, Paths DEF AfterSuccess, Tasks
        <5>2. status["nl_risk_score"] = "success"
          BY <5>1, Paths DEF AfterSuccess, Tasks
        <5>3. status["nl_buildings_test"] = "success"
          BY <5>2, Paths DEF AfterSuccess, Tasks
        <5> QED BY <5>3, Paths DEF AfterSuccess, Tasks
      <4>2. Total("nl_buildings") > MinBuildings /\ Total("nl_buildings") < MaxBuildings
        BY <4>1 DEF OnceInv, BuildingsPass
      <4>3. Total("nl_buildings") \in Nat
        BY BuildingsTable, RowsFinite DEF Total
      <4>4. \A d \in Days : d < day => outcome[d] # "success"
        BY <4>1, <4>2, <4>3, LakehouseAssumption DEF OnceInv
      <4>5. \A d \in Days : outcome'[d] = "success" => d = day
        BY <3>1, <3>3, <4>4 DEF OnceInv, Days
      <4> QED BY <3>1, <3>2, <3>3, <3>4, <4>2, <4>5 DEF OnceInv, SucceedsOnce, BuildingsPass
    <3>6. CASE status["nl_road_risk_score_prod"] # "success"
      <4>1. \A d \in Days : outcome'[d] = "success" => outcome[d] = "success"
        BY <3>1, <3>6
      <4> QED BY <3>1, <3>2, <3>3, <3>4, <4>1 DEF OnceInv, SucceedsOnce, BuildingsPass
    <3> QED BY <3>5, <3>6
  <2>4. ASSUME NEW t \in Ddls, RunDdl(t) PROVE OnceInv'
    <3>1. UNCHANGED <<day, outcome, shape, rows, out>> /\ t \in Tasks
      BY <2>4 DEF RunDdl, Tasks
    <3>2. \E s \in {"success", "failed"} : status' = [status EXCEPT ![t] = s]
      BY <2>4 DEF RunDdl
    <3> QED BY <2>a, <3>1, <3>2 DEF Tasks
  <2>5. ASSUME NEW t \in Jobs, Start(t) PROVE OnceInv'
    <3>1. /\ UNCHANGED <<day, outcome, shape, buildings>> /\ t \in Tasks
          /\ status[t] = "none" /\ status' = [status EXCEPT ![t] = "running"]
          /\ \A u \in Upstream[t] : status[u] = "success"
      BY <2>5 DEF Start, Ready, data, Tasks, buildings
    <3>2. t = "nl_buildings" => out'[t] \in BuildingRows
      <4> SUFFICES ASSUME t = "nl_buildings" PROVE out'[t] \in BuildingRows
        OBVIOUS
      <4>1. status["nl_buildings_ddl"] = "success"
        BY <3>1, Paths
      <4>2. status["nl_shape"] = "success"
        BY <4>1, Paths DEF AfterSuccess, Tasks
      <4>3. Output(t) = BuildingRows
        BY <4>2 DEF OnceInv, Output, BuildingsOutput
      <4> QED BY <2>5, <4>3 DEF Start
    <3>3. t # "nl_buildings" => out'["nl_buildings"] = out["nl_buildings"]
      BY <2>5 DEF Start
    <3>4. /\ t = "nl_shape" => out'["nl_shape"] # 0
          /\ t # "nl_shape" => out'["nl_shape"] = out["nl_shape"]
      BY <2>5 DEF Start, Ready, Active, Output
    <3> QED BY <3>1, <3>2, <3>3, <3>4, BuildingsKept DEF OnceInv, Tasks
  <2>6. ASSUME NEW t \in Jobs, Succeed(t) PROVE OnceInv'
    BY <2>6, EndKeepsOnce DEF Succeed
  <2>7. ASSUME NEW t \in Jobs, Refuse(t) PROVE OnceInv'
    BY <2>7, EndKeepsOnce DEF Refuse
  <2>8. ASSUME NEW t \in Jobs, Die(t) PROVE OnceInv'
    <3>1. Ends(t, "failed") /\ (UNCHANGED data \/ Commit(t))
      BY <2>8 DEF Die
    <3> QED BY <3>1, EndKeepsOnce
  <2>9. CASE UNCHANGED vars
    BY <2>a, <2>9 DEF vars, data
  <2> QED
    BY <2>1, <2>2, <2>3, <2>4, <2>5, <2>6, <2>7, <2>8, <2>9 DEF Next, RunStep
<1>3. OnceInv => SucceedsOnce
  BY DEF OnceInv
<1> QED BY <1>1, <1>2, <1>3, OrderKept, PTL DEF Spec
-----------------------------------------------------------------------------
(* That a run goes on, and ends.                                           *)

\* A task comes after those of a lower rank.
Rank == [t \in Tasks |->
    CASE t \in StagingDdls        -> 1
      [] t = "nl_shape"           -> 2
      [] t = "nl_flood_map"       -> 2
      [] t = "nl_transportation"  -> 2
      [] t = "nl_buildings_ddl"   -> 3
      [] t = "nl_hex_grids"       -> 3
      [] t = "nl_buildings"       -> 4
      [] t = "nl_buildings_test"  -> 5
      [] t = "nl_risk_score"      -> 6
      [] t = "nl_risk_score_test" -> 7
      [] t = "nl_road_risk_score_prod" -> 8
      [] OTHER -> 0]

\* The graph has no cycle.
LEMMA Acyclic ==
    /\ Rank \in [Tasks -> Nat]
    /\ \A t \in Tasks : \A u \in Upstream[t] : Rank[u] < Rank[t]
<1> USE TaskNames DEF Rank, Tasks, StagingDdls
<1>1. Rank \in [Tasks -> Nat]
  OBVIOUS
<1>2. \A e \in DdlEdges : e[1] \in Tasks /\ e[2] \in Tasks => Rank[e[1]] < Rank[e[2]]
  BY DEF DdlEdges
<1>3. \A e \in BuildingEdges : Rank[e[1]] < Rank[e[2]]
  BY DEF BuildingEdges
<1>4. \A e \in FloodEdges : Rank[e[1]] < Rank[e[2]]
  BY DEF FloodEdges
<1>5. \A e \in RoadEdges : Rank[e[1]] < Rank[e[2]]
  BY DEF RoadEdges
<1>6. \A e \in ScoreEdges : Rank[e[1]] < Rank[e[2]]
  BY DEF ScoreEdges
<1>7. \A e \in ProdEdges : Rank[e[1]] < Rank[e[2]]
  BY DEF ProdEdges
<1>8. ASSUME NEW t \in Tasks, NEW u \in Upstream[t] PROVE Rank[u] < Rank[t]
  <2>1. <<u, t>> \in Edges /\ u \in Tasks
    BY DEF Upstream
  <2>2. \A e \in Edges : e[1] \in Tasks /\ e[2] \in Tasks => Rank[e[1]] < Rank[e[2]]
    BY ONLY <1>2, <1>3, <1>4, <1>5, <1>6, <1>7 DEF Edges
  <2>3. <<u, t>>[1] = u /\ <<u, t>>[2] = t
    OBVIOUS
  <2> QED BY ONLY <2>1, <2>2, <2>3, t \in Tasks
<1> QED BY <1>1, <1>8

\* What a run that is not at its end can do next: mark tasks, end a job, or
\* start a task for which a slot is free, a job with some outcome.
CanGoOn ==
    \/ \A t \in Tasks : Ended(t)
    \/ Doomed({"failed", "upstream_failed"}) # {}
    \/ \E t \in Jobs : status[t] = "running"
    \/ \E t \in Tasks : Ready(t) /\ (t \in Jobs => Output(t) # {})

\* DDL tasks take no time, and no day has more than one row of hexagons.
GoOnInv ==
    /\ \A t \in Ddls : status[t] # "running"
    /\ out["nl_hex_grids"] <= 1
    /\ \A d \in Days : rows["nl_transportation_hex_bins"][d] <= 1

\* With no running job and no task to mark, the first task that has not been
\* started has only successes before it.
LEMMA FirstIsReady ==
  ASSUME TypeOK, GoOnInv, Active, Doomed({"failed", "upstream_failed"}) = {},
         \A t \in Jobs : status[t] # "running"
  PROVE  \/ \A t \in Tasks : Ended(t)
         \/ \E t \in Tasks : Ready(t)
<1> SUFFICES ASSUME \A t \in Tasks : ~Ready(t) PROVE \A t \in Tasks : status[t] # "none"
  BY DEF TypeOK, GoOnInv, Ended, Tasks
<1>1. Cardinality({j \in Jobs : status[j] = "running"}) < Slots
  <2>1. {j \in Jobs : status[j] = "running"} = {}
    OBVIOUS
  <2> QED BY <2>1, FS_EmptySet, LakehouseAssumption
<1>2. ASSUME NEW t \in Tasks, \A u \in Upstream[t] : status[u] # "none"
      PROVE  status[t] # "none"
  <2> SUFFICES ASSUME status[t] = "none" PROVE FALSE
    OBVIOUS
  <2>1. PICK u \in Upstream[t] : status[u] # "success"
    BY <1>1 DEF Ready
  <2>2. u \in Tasks /\ status[u] \in {"failed", "upstream_failed"}
    BY <1>2, <2>1 DEF Upstream, TypeOK, GoOnInv, Tasks
  <2> QED BY <2>1, <2>2 DEF Doomed
<1>3. ASSUME NEW k \in Nat, \A t \in Tasks : Rank[t] < k => status[t] # "none"
      PROVE  \A t \in Tasks : Rank[t] < k + 1 => status[t] # "none"
  <2> SUFFICES ASSUME NEW t \in Tasks, Rank[t] < k + 1 PROVE status[t] # "none"
    OBVIOUS
  <2>1. \A u \in Upstream[t] : u \in Tasks /\ Rank[u] \in Nat /\ Rank[u] < k
    BY Acyclic DEF Upstream
  <2> QED BY <1>2, <1>3, <2>1
<1>4. \A t \in Tasks : Rank[t] < 0 => status[t] # "none"
  BY Acyclic
<1>5. \A t \in Tasks : Rank[t] < 3 => status[t] # "none"
  <2>1. \A t \in Tasks : Rank[t] < 1 => status[t] # "none"
    BY <1>3, <1>4
  <2>2. \A t \in Tasks : Rank[t] < 2 => status[t] # "none"
    BY <1>3, <2>1
  <2> QED BY <1>3, <2>2
<1>6. \A t \in Tasks : Rank[t] < 6 => status[t] # "none"
  <2>1. \A t \in Tasks : Rank[t] < 4 => status[t] # "none"
    BY <1>3, <1>5
  <2>2. \A t \in Tasks : Rank[t] < 5 => status[t] # "none"
    BY <1>3, <2>1
  <2> QED BY <1>3, <2>2
<1>7. \A t \in Tasks : Rank[t] < 9 => status[t] # "none"
  <2>1. \A t \in Tasks : Rank[t] < 7 => status[t] # "none"
    BY <1>3, <1>6
  <2>2. \A t \in Tasks : Rank[t] < 8 => status[t] # "none"
    BY <1>3, <2>1
  <2> QED BY <1>3, <2>2
<1>8. \A t \in Tasks : Rank[t] < 9
  BY TaskNames DEF Rank
<1> QED BY <1>7, <1>8

\* A table with no more than a row a day has no more rows than there are days.
LEMMA RowADay ==
  ASSUME NEW f \in [Days -> Nat], \A d \in Days : f[d] <= 1
  PROVE  RowCount(f) <= LastDay
<1> DEFINE all == UNION {{d} \X (1..f[d]) : d \in Days}
<1>1. all \in SUBSET (Days \X (1..1))
  <2>1. ASSUME NEW d \in Days PROVE {d} \X (1..f[d]) \subseteq Days \X (1..1)
    BY <2>1
  <2> QED BY <2>1
<1>2. IsFiniteSet(Days) /\ Cardinality(Days) = LastDay
  <2>1. IsFiniteSet(1..LastDay) /\ Cardinality(1..LastDay) = (IF 1 > LastDay THEN 0 ELSE LastDay - 1 + 1)
    <3>1. 1 \in Int /\ LastDay \in Int
      BY LakehouseAssumption
    <3> QED BY ONLY <3>1, FS_Interval, Zenon
  <2> QED BY <2>1, LakehouseAssumption DEF Days
<1>3. IsFiniteSet(1..1) /\ Cardinality(1..1) = 1
  <2>1. 1..1 = {1}
    OBVIOUS
  <2> QED BY <2>1, FS_Singleton
<1>4. IsFiniteSet(Days \X (1..1)) /\ Cardinality(Days \X (1..1)) = Cardinality(Days) * Cardinality(1..1)
  BY <1>2, <1>3, FS_Product
<1>5. Cardinality(all) <= Cardinality(Days \X (1..1))
  BY <1>1, <1>4, FS_Subset
<1> QED BY <1>2, <1>3, <1>4, <1>5, LakehouseAssumption DEF RowCount

\* A job that starts computes something.
LEMMA SomeOutput ==
  ASSUME TypeOK, GoOnInv, NEW t \in Jobs
  PROVE  Output(t) # {}
<1> USE TaskNames DEF TypeOK
<1>1. CASE t = "nl_buildings"
  BY <1>1, LakehouseAssumption DEF Output, BuildingsOutput
<1>2. CASE t = "nl_risk_score"
  <2>1. rows["nl_transportation_hex_bins"] \in [Days -> Nat]
    BY HexTable
  <2>2. /\ Total("nl_transportation_hex_bins") \in Nat
        /\ Total("nl_transportation_hex_bins") <= LastDay
    BY <2>1, RowsFinite, RowADay DEF Total, GoOnInv
  <2>3. Total("nl_transportation_hex_bins") \in ScoreOutput
    BY <2>2, LakehouseAssumption DEF ScoreOutput
  <2> QED BY <1>2, <2>3 DEF Output
<1>3. CASE t \notin {"nl_buildings", "nl_risk_score"}
  BY <1>3 DEF Output, FloodOutput, TransportationOutput, HexOutput
<1> QED BY <1>1, <1>2, <1>3

\* Whatever has failed in it, a run that has not ended has a step to take: the
\* guards say of every state what NeverStuck says with ENABLED.
THEOREM RunGoesOn == Spec => [](Active => CanGoOn)
<1>1. Init => GoOnInv
  <2> SUFFICES ASSUME Init PROVE GoOnInv
    OBVIOUS
  <2> QED BY TaskNames, HexTable DEF Init, GoOnInv, Tasks
<1>2. TypeOK /\ GoOnInv /\ [Next]_vars => GoOnInv'
  <2> SUFFICES ASSUME TypeOK, GoOnInv, [Next]_vars PROVE GoOnInv'
    OBVIOUS
  <2> USE TaskNames DEF TypeOK
  <2>a. ASSUME UNCHANGED <<out, rows>>, \A t \in Ddls : status'[t] # "running" PROVE GoOnInv'
    BY <2>a DEF GoOnInv
  <2>1. ASSUME NEW d \in Days, StartRun(d) PROVE GoOnInv'
    BY <2>1, <2>a DEF StartRun, data, Tasks
  <2>2. CASE MarkUpstreamFailed
    BY <2>2, <2>a DEF MarkUpstreamFailed, MarkAs, data, Tasks, GoOnInv
  <2>3. CASE EndRun
    BY <2>3, <2>a DEF EndRun, data, GoOnInv
  <2>4. ASSUME NEW t \in Ddls, RunDdl(t) PROVE GoOnInv'
    <3>1. \E s \in {"success", "failed"} : status' = [status EXCEPT ![t] = s]
      BY <2>4 DEF RunDdl
    <3>2. \A u \in Ddls : status'[u] # "running"
      BY <3>1 DEF GoOnInv, Tasks
    <3> QED BY <2>4, <2>a, <3>2 DEF RunDdl
  <2>5. ASSUME NEW t \in Jobs, Start(t) PROVE GoOnInv'
    <3>1. /\ rows' = rows /\ status' = [status EXCEPT ![t] = "running"]
          /\ \E n \in Output(t) : out' = [out EXCEPT ![t] = n]
      BY <2>5 DEF Start, data
    <3>2. t = "nl_hex_grids" => \A n \in Output(t) : n <= 1
      BY DEF Output, HexOutput
    <3>3. out'["nl_hex_grids"] <= 1
      BY <3>1, <3>2 DEF GoOnInv
    <3>4. \A u \in Ddls : status'[u] # "running"
      BY <3>1 DEF GoOnInv, Tasks
    <3> QED BY <3>1, <3>3, <3>4 DEF GoOnInv
  <2>6. ASSUME NEW t \in Jobs, Succeed(t) \/ Refuse(t) \/ Die(t) PROVE GoOnInv'
    <3>1. PICK s \in {"success", "failed"} : Ends(t, s)
      BY <2>6 DEF Succeed, Refuse, Die
    <3>2. /\ \A u \in Ddls : status'[u] # "running"
          /\ out'["nl_hex_grids"] <= 1
      BY <3>1 DEF Ends, GoOnInv, Tasks
    <3>3. rows' = rows \/ (Active /\ Commit(t))
      BY <2>6, <3>1 DEF Succeed, Refuse, Die, Ends, data
    <3>4. \A d \in Days : rows'["nl_transportation_hex_bins"][d] <= 1
      <4>1. CASE rows' = rows
        BY <4>1 DEF GoOnInv
      <4>2. CASE Active /\ Commit(t)
        <5>1. \/ rows'["nl_transportation_hex_bins"] = rows["nl_transportation_hex_bins"]
              \/ /\ t = "nl_hex_grids"
                 /\ rows'["nl_transportation_hex_bins"] =
                      [rows["nl_transportation_hex_bins"] EXCEPT
                          ![day] = IF out[t] = 0 THEN @ ELSE out[t]]
          BY <4>2, HexTable, CommitTable
        <5>2. rows["nl_transportation_hex_bins"] \in [Days -> Nat]
          BY HexTable
        <5> QED BY <5>1, <5>2 DEF GoOnInv
      <4> QED BY <3>3, <4>1, <4>2
    <3> QED BY <3>2, <3>4 DEF GoOnInv
  <2>7. CASE UNCHANGED vars
    BY <2>7, <2>a DEF vars, data, GoOnInv
  <2> QED
    BY <2>1, <2>2, <2>3, <2>4, <2>5, <2>6, <2>7 DEF Next, RunStep
<1>3. TypeOK /\ GoOnInv => (Active => CanGoOn)
  BY FirstIsReady, SomeOutput DEF CanGoOn
<1> QED BY <1>1, <1>2, <1>3, TypeCorrect, PTL DEF Spec

\* How far a task is.
Stage(s) == CASE s = "none" -> 0 [] s = "running" -> 1 [] OTHER -> 2

\* A step takes one task further and none back, or ends the run.
Advances ==
    \/ Active /\ ~Active'
    \/ /\ \A t \in Tasks : Stage(status[t]) <= Stage(status'[t])
       /\ \E t \in Tasks : Stage(status[t]) < Stage(status'[t])

\* A run takes no more than two steps for each task, and one: it has an end.
THEOREM RunAdvances == Spec => [][RunStep => Advances]_vars
<1>1. TypeOK /\ [Next]_vars => [RunStep => Advances]_vars
  <2> SUFFICES ASSUME TypeOK, RunStep PROVE Advances
    OBVIOUS
  <2> USE TaskNames DEF TypeOK
  <2>a. ASSUME NEW t \in Tasks, NEW s \in {"running", "success", "failed"},
               status' = [status EXCEPT ![t] = s],
               status[t] = "none" \/ (status[t] = "running" /\ s # "running")
        PROVE  Advances
    <3>1. \A u \in Tasks : status'[u] = IF u = t THEN s ELSE status[u]
      BY <2>a
    <3>2. \A u \in Tasks : Stage(status[u]) <= Stage(status'[u])
      BY <2>a, <3>1 DEF Stage
    <3>3. Stage(status[t]) < Stage(status'[t])
      BY <2>a, <3>1 DEF Stage
    <3> QED BY <3>2, <3>3 DEF Advances
  <2>1. CASE MarkUpstreamFailed
    <3>1. PICK t \in Tasks : t \in Doomed({"failed", "upstream_failed"})
      BY <2>1 DEF MarkUpstreamFailed, MarkAs, Doomed
    <3>2. \A u \in Tasks : /\ status'[u] = status[u] \/ status[u] = "none"
                           /\ status'[t] = "upstream_failed" /\ status[t] = "none"
      BY <2>1, <3>1 DEF MarkUpstreamFailed, MarkAs, Doomed
    <3> QED BY <3>1, <3>2 DEF Advances, Stage
  <2>2. CASE EndRun
    BY <2>2 DEF EndRun, Active, Advances, Days
  <2>3. ASSUME NEW t \in Ddls, RunDdl(t) PROVE Advances
    <3>1. t \in Tasks /\ status[t] = "none"
      BY <2>3 DEF RunDdl, Ready, Tasks
    <3>2. PICK s \in {"success", "failed"} : status' = [status EXCEPT ![t] = s]
      BY <2>3 DEF RunDdl
    <3> QED BY <2>a, <3>1, <3>2
  <2>4. ASSUME NEW t \in Jobs, Start(t) PROVE Advances
    <3>1. t \in Tasks /\ status[t] = "none" /\ status' = [status EXCEPT ![t] = "running"]
      BY <2>4 DEF Start, Ready, Tasks
    <3> QED BY <2>a, <3>1
  <2>5. ASSUME NEW t \in Jobs, Succeed(t) \/ Refuse(t) \/ Die(t) PROVE Advances
    <3>1. PICK s \in {"success", "failed"} : Ends(t, s)
      BY <2>5 DEF Succeed, Refuse, Die
    <3>2. t \in Tasks /\ status[t] = "running" /\ status' = [status EXCEPT ![t] = s]
      BY <3>1 DEF Ends, Tasks
    <3> QED BY <2>a, <3>2
  <2> QED BY <2>1, <2>2, <2>3, <2>4, <2>5 DEF RunStep
<1> QED BY <1>1, TypeCorrect, PTL DEF Spec
=============================================================================
