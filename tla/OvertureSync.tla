---------------------------- MODULE OvertureSync ----------------------------
(***************************************************************************)
(* The DAG sync-overture-transportation-data (book/chapter6/dags): a       *)
(* sensor waits for the release of the day, a Spark job sorts it into the  *)
(* processed bucket. One run at a time, each depending on the one before;  *)
(* the container of MinIO uploads the releases meanwhile, file by file.    *)
(*                                                                         *)
(* Time passes in ticks of 8 hours: the run of day d is due at 08:00 of    *)
(* the day after, the sensor pokes every 2 seconds, that is in every tick, *)
(* and gives up after 24 hours.                                            *)
(***************************************************************************)
EXTENDS Naturals

CONSTANTS LastDay,   \* bound: the runs are those of days 1..LastDay
          Releases,  \* the days that have a release among the sources
          Files,     \* the number of files of a release
          MaxFaults  \* bound: how many tasks may die for no reason of ours

ASSUME OvertureAssumption ==
    /\ LastDay \in Nat \ {0}
    /\ Releases \subseteq 1..LastDay
    /\ Files \in Nat \ {0}
    /\ MaxFaults \in Nat

Days == 1..LastDay

Midnight(d) == 3 * d
Due(d) == Midnight(d + 1) + 1
Horizon == Due(LastDay) + 3 \* bound: by then a sensor of the last run has poked for a day
Timeout == 3

VARIABLES
    now,       \* the tick
    bucket,    \* MinIO: whether the bucket exists
    uploaded,  \* MinIO: how many files of each release are there
    suffixed,  \* releases whose directory is named by more than the date
    day,       \* the day of the last run, 0 before the first
    sensor,    \* wait_for_overture_data of each run
    since,     \* when the sensor of the last run started
    poked,     \* whether it has poked in this tick
    spark,     \* spark_submit of each run
    read,      \* how many files the Spark job has found
    processed, \* how many files of each day are in the processed bucket
    faults     \* how many more tasks may die

minio == <<bucket, uploaded, suffixed>>
vars == <<now, minio, day, sensor, since, poked, spark, read, processed, faults>>

TypeOK ==
    /\ now \in 0..Horizon
    /\ bucket \in BOOLEAN
    /\ uploaded \in [Releases -> 0..Files]
    /\ suffixed \subseteq Releases
    /\ day \in 0..LastDay
    /\ sensor \in [Days -> {"none", "poking", "success", "skipped", "failed"}]
    /\ since \in 0..Horizon
    /\ poked \in BOOLEAN
    /\ spark \in [Days -> {"none", "running", "success", "skipped", "failed", "upstream_failed"}]
    /\ read \in 0..Files
    /\ processed \in [Days -> 0..Files]
    /\ faults \in 0..MaxFaults

\* Airflow is started on any day, beside a MinIO that is starting or long up.
Init ==
    /\ now \in 0..Horizon
    /\ \/ bucket = FALSE /\ uploaded = [r \in Releases |-> 0]
       \/ bucket = TRUE /\ uploaded = [r \in Releases |-> Files]
    /\ suffixed \in SUBSET Releases
    /\ day = 0
    /\ sensor = [d \in Days |-> "none"]
    /\ since = 0
    /\ poked = FALSE
    /\ spark = [d \in Days |-> "none"]
    /\ read = 0
    /\ processed = [d \in Days |-> 0]
    /\ faults = MaxFaults
-----------------------------------------------------------------------------
(* MinIO and the clock.                                                    *)

MakeBucket ==
    /\ ~bucket
    /\ bucket' = TRUE
    /\ UNCHANGED <<now, uploaded, suffixed, day, sensor, since, poked, spark, read,
                   processed, faults>>

Upload(r) ==
    /\ bucket
    /\ uploaded[r] < Files
    /\ uploaded' = [uploaded EXCEPT ![r] = @ + 1]
    /\ UNCHANGED <<now, bucket, suffixed, day, sensor, since, poked, spark, read,
                   processed, faults>>

Waiting == day # 0 /\ sensor[day] = "poking"

\* 8 hours pass: a sensor that waits has poked meanwhile.
Tick ==
    /\ now < Horizon
    /\ Waiting => poked
    /\ now' = now + 1
    /\ poked' = FALSE
    /\ UNCHANGED <<minio, day, sensor, since, spark, read, processed, faults>>
-----------------------------------------------------------------------------
(* The runs: depends_on_past, catchup and max_active_runs=1.               *)

Over(d) == spark[d] \in {"success", "skipped", "failed", "upstream_failed"}

StartRun(d) ==
    /\ d = day + 1
    /\ now >= Due(d)
    /\ day # 0 => Over(day)
    /\ day' = d
    /\ UNCHANGED <<now, minio, sensor, since, poked, spark, read, processed, faults>>

Past == {"success", "skipped"}

\* Mutant: a task does not depend on the run before.
DependsOnNothing(status, d) == TRUE

\* The same task of the run before has succeeded or was skipped.
DependsOnPast(status, d) == d > 1 => status[d - 1] \in Past

StartSensor(d) ==
    /\ d = day
    /\ sensor[d] = "none"
    /\ DependsOnPast(sensor, d)
    /\ sensor' = [sensor EXCEPT ![d] = "poking"]
    /\ since' = now
    /\ poked' = FALSE
    /\ UNCHANGED <<now, minio, day, spark, read, processed, faults>>
-----------------------------------------------------------------------------
(* The sensor.                                                             *)

Listed == {r \in Releases : uploaded[r] > 0}

SensorEnds(d, s) ==
    /\ d = day
    /\ sensor[d] = "poking"
    /\ sensor' = [sensor EXCEPT ![d] = s]
    /\ UNCHANGED <<now, minio, day, since, poked, spark, read, processed>>

\* Without a bucket the listing fails, without a release poke does.
PokeNothing(d) == Listed = {} /\ SensorEnds(d, "failed") /\ UNCHANGED faults

PokeFinds(d) == d \in Listed /\ SensorEnds(d, "success") /\ UNCHANGED faults

\* Mutant: a release may come two days late.
PastTwoDays(d) == now >= Midnight(d + 3)

\* Yesterday is later than the day of the run.
PastDay(d) == now >= Midnight(d + 2)

\* Mutant: a later release is looked for before that of the day.
PokeSkipsFirst(d) ==
    /\ Listed # {}
    /\ (\E r \in Listed : r > d) \/ (d \notin Listed /\ PastDay(d))
    /\ SensorEnds(d, "skipped")
    /\ UNCHANGED faults

\* There is a later release, or the day is past.
PokeSkips(d) ==
    /\ Listed # {}
    /\ d \notin Listed
    /\ (\E r \in Listed : r > d) \/ PastDay(d)
    /\ SensorEnds(d, "skipped")
    /\ UNCHANGED faults

\* Mutant: the sensor leaves its slot between two pokes, mode="reschedule".
PokeRescheduled(d) ==
    /\ Listed # {}
    /\ d \notin Listed /\ ~(\E r \in Listed : r > d) /\ ~PastDay(d)
    /\ SensorEnds(d, "up_for_reschedule")
    /\ UNCHANGED faults

\* Nothing yet: the sensor sleeps, unless it has been waiting for too long.
PokeAgain(d) ==
    /\ Listed # {}
    /\ d \notin Listed /\ ~(\E r \in Listed : r > d) /\ ~PastDay(d)
    /\ \/ /\ now - since > Timeout
          /\ SensorEnds(d, "failed")
          /\ UNCHANGED faults
       \/ /\ now - since <= Timeout
          /\ d = day /\ sensor[d] = "poking"
          /\ ~poked
          /\ poked' = TRUE
          /\ UNCHANGED <<now, minio, day, sensor, since, spark, read, processed, faults>>

SensorDies(d) ==
    /\ faults > 0
    /\ faults' = faults - 1
    /\ SensorEnds(d, "failed")
-----------------------------------------------------------------------------
(* The Spark job.                                                          *)

SparkTo(d, s) == spark' = [spark EXCEPT ![d] = s]

\* Airflow hands the end of the sensor down.
HandDown(d) ==
    /\ d = day
    /\ spark[d] = "none"
    /\ \/ sensor[d] = "skipped" /\ SparkTo(d, "skipped")
       \/ sensor[d] = "failed" /\ SparkTo(d, "upstream_failed")
    /\ UNCHANGED <<now, minio, day, sensor, since, poked, read, processed, faults>>

\* The job lists the directory of the date, which a suffixed release is not in.
StartSpark(d) ==
    /\ d = day
    /\ spark[d] = "none"
    /\ sensor[d] = "success"
    /\ DependsOnPast(spark, d)
    /\ IF d \in suffixed
       THEN SparkTo(d, "failed") /\ UNCHANGED read
       ELSE SparkTo(d, "running") /\ read' = uploaded[d]
    /\ UNCHANGED <<now, minio, day, sensor, since, poked, processed, faults>>

FinishSpark(d) ==
    /\ d = day
    /\ spark[d] = "running"
    /\ SparkTo(d, "success")
    /\ processed' = [processed EXCEPT ![d] = read]
    /\ read' = 0
    /\ UNCHANGED <<now, minio, day, sensor, since, poked, faults>>

\* It dies before its output is committed, or after.
SparkDies(d) ==
    /\ faults > 0
    /\ faults' = faults - 1
    /\ d = day
    /\ spark[d] = "running"
    /\ SparkTo(d, "failed")
    /\ \E n \in {0, read} : processed' = [processed EXCEPT ![d] = n]
    /\ read' = 0
    /\ UNCHANGED <<now, minio, day, sensor, since, poked>>

Poke(d) == PokeNothing(d) \/ PokeFinds(d) \/ PokeSkips(d) \/ PokeAgain(d)
AirflowStep(d) ==
    StartRun(d) \/ StartSensor(d) \/ Poke(d) \/ HandDown(d) \/ StartSpark(d) \/ FinishSpark(d)
MinioStep == MakeBucket \/ \E r \in Releases : Upload(r)

Next ==
    \/ Tick
    \/ MinioStep
    \/ \E d \in Days : AirflowStep(d) \/ SensorDies(d) \/ SparkDies(d)

Spec == Init /\ [][Next]_vars

\* The clock, the upload and the scheduler go on; no task has to die.
FairSpec ==
    /\ Spec
    /\ WF_vars(Tick)
    /\ WF_vars(MinioStep)
    /\ WF_vars(\E d \in Days : AirflowStep(d))
-----------------------------------------------------------------------------
(* Properties.                                                             *)

\* A sensor that failed, be it because MinIO had not uploaded anything yet, is
\* the end: no later task ever starts (depends_on_past, overture.py:14).
SensorFailureIsFinal ==
    \A d, e \in Days : sensor[d] = "failed" /\ d < e
        => sensor[e] = "none" /\ spark[e] = "none" /\ day <= d + 1

\* After a Spark job that failed, the next day decides. If that day was skipped,
\* the jobs after it may run: to be skipped is as good as to have succeeded. If it
\* has a release, its sensor succeeds, its job waits for the failed one for ever,
\* and with one run at a time (overture.py:13, 14) no later run ever starts.
NextDayDecides ==
    \A d, e \in Days : spark[d] = "failed" /\ d < e =>
        /\ spark[e] \in {"running", "success", "failed"} => spark[d + 1] = "skipped"
        /\ sensor[d + 1] = "success" => spark[e] = "none" /\ day = d + 1

\* A sensor gives a day up long before its timeout of 24 hours.
WaitIsBounded == Waiting => now - since <= 2

\* If the releases are all there before the first run, under the names of their
\* dates, and no task dies, then each of them is processed whole.
UploadedIsSynced ==
    (day = 0 /\ suffixed = {} /\ faults = MaxFaults /\ \A r \in Releases : uploaded[r] = Files)
        ~> ((\A r \in Releases : processed[r] = Files) \/ faults < MaxFaults)
=============================================================================
