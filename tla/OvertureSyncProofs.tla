------------------------- MODULE OvertureSyncProofs -------------------------
(***************************************************************************)
(* For any number of days, releases and files, and of tasks that die: what *)
(* a failed sensor and a failed job do to the later runs, and how long a   *)
(* sensor waits. Only the last run moves, those after it have not begun:   *)
(* with that, depends_on_past relates each day to the one before, and a    *)
(* day that is past bounds the wait.                                       *)
(***************************************************************************)
EXTENDS OvertureSync, TLAPS

\* The clock is a number, and the bounds of the days are.
LEMMA Numbers ==
    /\ Horizon \in Nat /\ LastDay \in Nat
    /\ \A d \in Days : d \in Nat /\ d > 0 /\ d <= LastDay
    /\ \A d, e \in Nat : d < e => Midnight(d) + 3 <= Midnight(e)
    /\ \A d \in Nat : Midnight(d) \in Nat /\ Due(d) = Midnight(d) + 4
BY OvertureAssumption DEF Horizon, Due, Midnight, Days

\* The job of a day reads a release that is one.
TypeInv == TypeOK /\ \A d \in Days : sensor[d] = "success" => d \in Releases

\* Every variable keeps its type.
THEOREM TypeCorrect == Spec => []TypeOK
<1> USE OvertureAssumption DEF TypeInv, TypeOK
<1>0. Horizon \in Nat
  BY Numbers
<1>1. Init => TypeInv
  <2> SUFFICES ASSUME Init PROVE TypeInv
    OBVIOUS
  <2>1. bucket \in BOOLEAN /\ poked \in BOOLEAN
    BY Zenon DEF Init
  <2>2. uploaded \in [Releases -> 0..Files]
    <3>1. uploaded = [r \in Releases |-> 0] \/ uploaded = [r \in Releases |-> Files]
      BY Zenon DEF Init
    <3> QED BY <3>1
  <2>3. /\ now \in 0..Horizon /\ day = 0 /\ since = 0 /\ read = 0 /\ faults = MaxFaults
        /\ suffixed \subseteq Releases
        /\ sensor = [d \in Days |-> "none"] /\ spark = [d \in Days |-> "none"]
        /\ processed = [d \in Days |-> 0]
    BY Zenon DEF Init
  <2> QED BY <1>0, <2>1, <2>2, <2>3
<1>2. TypeInv /\ [Next]_vars => TypeInv'
  <2> SUFFICES ASSUME TypeInv, [Next]_vars PROVE TypeInv'
    OBVIOUS
  <2>1. CASE Tick
    <3>1. now < Horizon /\ now' = now + 1 /\ poked' = FALSE
      BY Zenon, <2>1 DEF Tick
    <3>2. UNCHANGED <<bucket, uploaded, suffixed, day, sensor, since, spark, read,
                      processed, faults>>
      BY <2>1 DEF Tick, minio
    <3>3. now' \in 0..Horizon
      BY <1>0, <3>1
    <3>4. poked' \in BOOLEAN
      BY Zenon, <3>1
    <3> QED BY <3>2, <3>3, <3>4
  <2>2. CASE MakeBucket
    BY <2>2 DEF MakeBucket
  <2>3. ASSUME NEW r \in Releases, Upload(r) PROVE TypeInv'
    BY <2>3 DEF Upload
  <2>4. ASSUME NEW d \in Days, StartRun(d) PROVE TypeInv'
    BY <2>4 DEF StartRun, minio, Days
  <2>5. ASSUME NEW d \in Days, StartSensor(d) PROVE TypeInv'
    BY <2>5 DEF StartSensor, minio
  <2>6. ASSUME NEW d \in Days, NEW s \in {"success", "skipped", "failed"}, SensorEnds(d, s),
               s = "success" => d \in Releases, faults' \in 0..MaxFaults
        PROVE  TypeInv'
    BY <2>6 DEF SensorEnds, minio
  <2>7. ASSUME NEW d \in Days, Poke(d) PROVE TypeInv'
    <3>1. CASE PokeFinds(d)
      BY <2>6, <3>1 DEF PokeFinds, Listed
    <3>2. CASE PokeNothing(d) \/ PokeSkips(d)
      BY <2>6, <3>2 DEF PokeNothing, PokeSkips
    <3>3. CASE SensorEnds(d, "failed") /\ UNCHANGED faults
      BY <2>6, <3>3
    <3>4. CASE poked' = TRUE /\ UNCHANGED <<now, minio, day, sensor, since, spark, read,
                                            processed, faults>>
      BY <3>4 DEF minio
    <3> QED
      BY <2>7, <3>1, <3>2, <3>3, <3>4 DEF Poke, PokeAgain
  <2>8. ASSUME NEW d \in Days, SensorDies(d) PROVE TypeInv'
    BY <2>6, <2>8 DEF SensorDies
  <2>9. ASSUME NEW d \in Days, HandDown(d) PROVE TypeInv'
    BY <2>9 DEF HandDown, SparkTo, minio
  <2>10. ASSUME NEW d \in Days, StartSpark(d) PROVE TypeInv'
    <3>1. CASE d \in suffixed
      BY <2>10, <3>1 DEF StartSpark, SparkTo, minio
    <3>2. CASE d \notin suffixed
      <4>1. d \in Releases
        BY <2>10 DEF StartSpark
      <4> QED BY <2>10, <3>2, <4>1 DEF StartSpark, SparkTo, minio
    <3> QED BY <3>1, <3>2
  <2>11. ASSUME NEW d \in Days, FinishSpark(d) PROVE TypeInv'
    BY <2>11 DEF FinishSpark, SparkTo, minio
  <2>12. ASSUME NEW d \in Days, SparkDies(d) PROVE TypeInv'
    BY <2>12 DEF SparkDies, SparkTo, minio
  <2>13. CASE UNCHANGED vars
    BY <2>13 DEF vars, minio
  <2> QED
    BY <2>1, <2>2, <2>3, <2>4, <2>5, <2>7, <2>8, <2>9, <2>10, <2>11, <2>12, <2>13
    DEF Next, AirflowStep, MinioStep
<1>3. TypeInv => TypeOK
  OBVIOUS
<1> QED BY <1>1, <1>2, <1>3, PTL DEF Spec
-----------------------------------------------------------------------------
(* What one run does to the later ones.                                    *)

\* The runs before the last one are over, those after it have not begun. A job
\* waits for the end of its sensor, and fails with it.
InOrder ==
    \A d \in Days : /\ d < day => Over(d)
                    /\ d > day => sensor[d] = "none"
                    /\ sensor[d] \in {"none", "poking"} => spark[d] = "none"
                    /\ spark[d] = "upstream_failed" => sensor[d] = "failed"

PastInv == TypeOK /\ InOrder /\ SensorFailureIsFinal /\ NextDayDecides

\* The sensor of the last run starts, or ends.
LEMMA SensorMoves ==
  ASSUME PastInv, NEW d \in Days, d = day, UNCHANGED <<day, spark>>,
         NEW s \in {"poking", "success", "skipped", "failed"},
         \/ sensor[d] = "poking"
         \/ sensor[d] = "none" /\ DependsOnPast(sensor, d),
         sensor' = [sensor EXCEPT ![d] = s]
  PROVE  InOrder' /\ SensorFailureIsFinal' /\ NextDayDecides'
<1> USE Numbers DEF PastInv, TypeOK
<1>1. InOrder'
  BY DEF InOrder, Over
<1>2. NextDayDecides'
  <2> SUFFICES ASSUME NEW x \in Days, NEW e \in Days, spark[x] = "failed", x < e,
                      sensor'[x + 1] = "success", sensor[x + 1] # "success"
               PROVE  spark[e] = "none" /\ day = x + 1
    BY DEF NextDayDecides
  <2>1. x + 1 \in Days
    BY DEF Days
  <2>2. day = x + 1
    BY <2>1
  <2>3. sensor[e] \in {"none", "poking"}
    BY <2>2 DEF InOrder
  <2> QED BY <2>2, <2>3 DEF InOrder
<1>3. SensorFailureIsFinal'
  <2> SUFFICES ASSUME NEW x \in Days, NEW e \in Days, sensor'[x] = "failed", x < e
               PROVE  sensor'[e] = "none" /\ spark[e] = "none" /\ day <= x + 1
    BY DEF SensorFailureIsFinal
  <2>1. CASE x = d
    <3>1. e # d /\ e > day
      BY <2>1
    <3> QED BY <2>1, <3>1 DEF InOrder
  <2>2. CASE x # d
    <3>1. sensor[x] = "failed"
      BY <2>2
    <3>2. sensor[e] = "none" /\ spark[e] = "none" /\ day <= x + 1
      BY <3>1 DEF SensorFailureIsFinal
    <3>3. e # d
      <4> SUFFICES ASSUME e = d PROVE FALSE
        OBVIOUS
      <4>1. d > 1 /\ x = d - 1
        BY <3>2
      <4> QED BY <3>1, <3>2, <4>1 DEF DependsOnPast, Past
    <3> QED BY <3>2, <3>3
  <2> QED BY <2>1, <2>2
<1> QED BY <1>1, <1>2, <1>3

\* The job of the last run starts, or ends: if it depends on the run before and a
\* job before that failed, the run after the failed one is over without its job
\* having run, and so was skipped.
LEMMA SparkMoves ==
  ASSUME PastInv, NEW r \in Days, r = day, UNCHANGED <<day, sensor>>,
         NEW s \in {"running", "success", "skipped", "failed", "upstream_failed"},
         sensor[r] \notin {"none", "poking"}, spark[r] \in {"none", "running"},
         s = "skipped" => sensor[r] = "skipped", s = "upstream_failed" => sensor[r] = "failed",
         s \in {"running", "success", "failed"} => spark[r] = "running" \/ DependsOnPast(spark, r),
         spark' = [spark EXCEPT ![r] = s]
  PROVE  InOrder' /\ SensorFailureIsFinal' /\ NextDayDecides'
<1> USE Numbers DEF PastInv, TypeOK
<1>1. InOrder'
  BY DEF InOrder, Over
<1>2. SensorFailureIsFinal'
  BY DEF SensorFailureIsFinal
<1>3. ASSUME NEW x \in Days, NEW e \in Days, spark'[x] = "failed", x < e
      PROVE  /\ spark'[e] \in {"running", "success", "failed"} => spark'[x + 1] = "skipped"
             /\ sensor[x + 1] = "success" => spark'[e] = "none" /\ day = x + 1
  <2>1. x + 1 \in Days /\ x + 1 <= e
    BY <1>3 DEF Days
  <2>2. CASE x = r
    <3>1. sensor[x + 1] = "none" /\ spark[e] = "none" /\ e # r
      BY <1>3, <2>1, <2>2 DEF InOrder
    <3> QED BY <3>1
  <2>3. CASE x # r
    <3>1. spark[x] = "failed"
      BY <1>3, <2>3
    <3>2. CASE e # r
      <4>1. spark'[e] = spark[e]
        BY <3>2
      <4>2. x + 1 # r \/ spark[e] = "none"
        BY <1>3, <2>1, <3>2 DEF InOrder
      <4> QED BY <1>3, <2>1, <3>1, <4>1, <4>2 DEF NextDayDecides
    <3>3. CASE e = r
      <4>1. sensor[x + 1] = "success" => s \notin {"skipped", "upstream_failed"}
                                         /\ spark[r] = "none" /\ r = x + 1
        BY <1>3, <3>1, <3>3 DEF NextDayDecides
      <4>2. ASSUME s \in {"running", "success", "failed"}
            PROVE  spark[x + 1] = "skipped" /\ x + 1 # r
        <5>1. CASE spark[r] = "running"
          BY <1>3, <3>1, <3>3, <5>1 DEF NextDayDecides
        <5>2. CASE spark[r] # "running"
          <6>1. r > 1 /\ r - 1 \in Days /\ spark[r - 1] \in Past
            BY <1>3, <3>3, <4>2, <5>2 DEF DependsOnPast, Days
          <6>2. x < r - 1 /\ x + 1 < day
            BY <1>3, <3>1, <3>3, <6>1 DEF Past
          <6>3. spark[x + 1] \in {"success", "skipped", "failed", "upstream_failed"}
            BY <2>1, <6>2 DEF InOrder, Over
          <6>4. spark[x + 1] \notin {"success", "failed"}
            BY <2>1, <3>1 DEF NextDayDecides
          <6>5. CASE spark[x + 1] = "upstream_failed"
            <7>1. sensor[x + 1] = "failed"
              BY <2>1, <6>5 DEF InOrder
            <7>2. r <= x + 2
              BY <2>1, <3>3, <6>2, <7>1 DEF SensorFailureIsFinal
            <7>3. r - 1 = x + 1
              BY <6>2, <7>2
            <7> QED BY <6>1, <6>5, <7>3 DEF Past
          <6> QED BY <6>2, <6>3, <6>4, <6>5
        <5> QED BY <5>1, <5>2
      <4>3. spark'[r] = s /\ (x + 1 # r => spark'[x + 1] = spark[x + 1])
        BY <2>1
      <4> QED BY <3>3, <4>1, <4>2, <4>3
    <3> QED BY <3>2, <3>3
  <2> QED BY <2>2, <2>3
<1>4. NextDayDecides'
  BY ONLY <1>3, UNCHANGED <<day, sensor>> DEF NextDayDecides
<1> QED BY <1>1, <1>2, <1>4

\* The order of the runs, and what it leads to.
LEMMA PastKept == Spec => []PastInv
<1>1. Init => InOrder /\ SensorFailureIsFinal /\ NextDayDecides
  BY Numbers DEF Init, InOrder, Over, SensorFailureIsFinal, NextDayDecides
<1>2. PastInv /\ [Next]_vars => InOrder' /\ SensorFailureIsFinal' /\ NextDayDecides'
  <2> SUFFICES ASSUME PastInv, [Next]_vars
               PROVE  InOrder' /\ SensorFailureIsFinal' /\ NextDayDecides'
    OBVIOUS
  <2>1. CASE UNCHANGED <<day, sensor, spark>>
    BY <2>1 DEF PastInv, InOrder, Over, SensorFailureIsFinal, NextDayDecides
  <2>2. CASE Tick \/ MakeBucket \/ \E r \in Releases : Upload(r)
    BY <2>1, <2>2 DEF Tick, MakeBucket, Upload
  <2>3. ASSUME NEW d \in Days, StartRun(d)
        PROVE  InOrder' /\ SensorFailureIsFinal' /\ NextDayDecides'
    <3>1. d = day + 1 /\ day' = d /\ (day # 0 => Over(day)) /\ sensor' = sensor /\ spark' = spark
      BY <2>3 DEF StartRun
    <3>2. InOrder'
      <4>1. ASSUME NEW x \in Days, x < d PROVE Over(x)
        <5>1. x < day \/ x = day
          BY <3>1, <4>1, Numbers DEF PastInv, TypeOK
        <5> QED BY <3>1, <5>1, Numbers DEF PastInv, InOrder
      <4>2. ASSUME NEW x \in Days, x > d PROVE x > day
        BY <3>1, <4>2, Numbers DEF PastInv, TypeOK
      <4> QED BY <3>1, <4>1, <4>2 DEF PastInv, InOrder, Over
    <3>3. ASSUME NEW x \in Days, NEW e \in Days, sensor[x] = "failed", x < e
          PROVE  day + 1 <= x + 1
      <4>1. day <= x + 1 /\ day \in Nat /\ \A f \in Days : x < f => spark[f] = "none"
        BY <3>3 DEF SensorFailureIsFinal, PastInv, TypeOK
      <4>2. day = x + 1 => day \in Days /\ spark[day] = "none"
        BY <3>3, <4>1, Numbers DEF Days, PastInv, TypeOK
      <4>3. day # x + 1
        BY <3>1, <3>3, <4>2, Numbers DEF Over
      <4> QED BY <4>1, <4>3, Numbers
    <3>4. SensorFailureIsFinal'
      BY <3>1, <3>3 DEF PastInv, SensorFailureIsFinal
    <3>5. ASSUME NEW x \in Days, spark[x] = "failed", x + 1 \in Days
          PROVE  sensor[x + 1] # "success"
      <4> SUFFICES ASSUME sensor[x + 1] = "success" PROVE FALSE
        OBVIOUS
      <4>1. spark[x + 1] = "none" /\ day = x + 1
        BY <3>5, Numbers DEF PastInv, NextDayDecides
      <4> QED BY <3>1, <3>5, <4>1, Numbers DEF Over
    <3>6. NextDayDecides'
      <4>1. ASSUME NEW x \in Days, NEW e \in Days, x < e PROVE x + 1 \in Days
        BY <4>1, Numbers DEF Days
      <4> QED BY <3>1, <3>5, <4>1 DEF PastInv, NextDayDecides
    <3> QED BY <3>2, <3>4, <3>6
  <2>4. ASSUME NEW d \in Days, StartSensor(d)
        PROVE  InOrder' /\ SensorFailureIsFinal' /\ NextDayDecides'
    BY <2>4, SensorMoves DEF StartSensor
  <2>5. ASSUME NEW d \in Days, NEW s \in {"success", "skipped", "failed"}, SensorEnds(d, s)
        PROVE  InOrder' /\ SensorFailureIsFinal' /\ NextDayDecides'
    BY <2>5, SensorMoves DEF SensorEnds
  <2>6. ASSUME NEW d \in Days, Poke(d)
        PROVE  InOrder' /\ SensorFailureIsFinal' /\ NextDayDecides'
    BY <2>1, <2>5, <2>6 DEF Poke, PokeNothing, PokeFinds, PokeSkips, PokeAgain
  <2>7. ASSUME NEW d \in Days, SensorDies(d)
        PROVE  InOrder' /\ SensorFailureIsFinal' /\ NextDayDecides'
    BY <2>5, <2>7 DEF SensorDies
  <2>8. ASSUME NEW d \in Days, HandDown(d)
        PROVE  InOrder' /\ SensorFailureIsFinal' /\ NextDayDecides'
    BY <2>8, SparkMoves DEF HandDown, SparkTo
  <2>9. ASSUME NEW d \in Days, StartSpark(d)
        PROVE  InOrder' /\ SensorFailureIsFinal' /\ NextDayDecides'
    <3>1. PICK s \in {"running", "failed"} : spark' = [spark EXCEPT ![d] = s]
      BY <2>9 DEF StartSpark, SparkTo
    <3> QED BY <2>9, <3>1, SparkMoves DEF StartSpark
  <2>10. ASSUME NEW d \in Days, FinishSpark(d) \/ SparkDies(d)
         PROVE  InOrder' /\ SensorFailureIsFinal' /\ NextDayDecides'
    <3>1. PICK s \in {"success", "failed"} : spark' = [spark EXCEPT ![d] = s]
      BY <2>10 DEF FinishSpark, SparkDies, SparkTo
    <3>2. sensor[d] \notin {"none", "poking"}
      BY <2>10 DEF FinishSpark, SparkDies, PastInv, InOrder
    <3> QED BY <2>10, <3>1, <3>2, SparkMoves DEF FinishSpark, SparkDies
  <2>11. CASE UNCHANGED vars
    BY <2>1, <2>11 DEF vars
  <2> QED
    BY <2>2, <2>3, <2>4, <2>6, <2>7, <2>8, <2>9, <2>10, <2>11
    DEF Next, AirflowStep, MinioStep
<1> QED BY <1>1, <1>2, TypeCorrect, PTL DEF Spec, PastInv

\* After a sensor that failed no later task starts.
THEOREM SensorFailureCorrect == Spec => []SensorFailureIsFinal
<1>1. PastInv => SensorFailureIsFinal
  BY DEF PastInv
<1> QED BY <1>1, PastKept, PTL

\* After a failed job the next day decides: skipped, it lets the later jobs run;
\* with a release, it is the end.
THEOREM NextDayCorrect == Spec => []NextDayDecides
<1>1. PastInv => NextDayDecides
  BY DEF PastInv
<1> QED BY <1>1, PastKept, PTL
-----------------------------------------------------------------------------
(* How long a sensor waits.                                                *)

\* The sensor starts after the run is due; once it has poked without an end,
\* the day is not yet past, and it pokes in every tick.
WaitInv ==
    /\ day # 0 => now >= Due(day)
    /\ Waiting => /\ since >= Due(day) /\ since <= now /\ now <= since + 2
                  /\ poked => now < Midnight(day + 2)

\* A sensor gives a day up long before its timeout.
THEOREM WaitCorrect == Spec => []WaitIsBounded
<1>1. Init => WaitInv
  BY DEF Init, WaitInv, Waiting
<1>2. PastInv /\ WaitInv /\ [Next]_vars => WaitInv'
  <2> SUFFICES ASSUME PastInv, WaitInv, [Next]_vars PROVE WaitInv'
    OBVIOUS
  <2>a. now \in Nat /\ since \in Nat /\ day \in Nat /\ (day # 0 => day \in Days)
    BY Numbers DEF PastInv, TypeOK, Days
  <2>b. \A d \in Nat : Midnight(d) = 3 * d /\ Due(d) = 3 * d + 4
    BY DEF Midnight, Due
  <2>c. sensor \in [Days -> {"none", "poking", "success", "skipped", "failed"}]
    BY DEF PastInv, TypeOK
  <2>1. ASSUME UNCHANGED <<now, day, since>>, Waiting' => Waiting /\ poked' = poked
        PROVE  WaitInv'
    BY <2>1 DEF WaitInv
  <2>2. CASE Tick
    <3>1. /\ now' = now + 1 /\ poked' = FALSE /\ UNCHANGED <<day, sensor, since>>
          /\ Waiting => poked
      BY <2>2 DEF Tick
    <3>2. Waiting' = Waiting
      BY <3>1 DEF Waiting
    <3>3. Waiting => now < 3 * day + 6 /\ since >= 3 * day + 4 /\ since <= now
      BY <3>1, <2>a, <2>b DEF WaitInv
    <3>4. day # 0 => now >= 3 * day + 4
      BY <2>a, <2>b DEF WaitInv
    <3> QED BY <3>1, <3>2, <3>3, <3>4, <2>a, <2>b DEF WaitInv
  <2>3. CASE MakeBucket \/ \E r \in Releases : Upload(r)
    BY <2>1, <2>3 DEF MakeBucket, Upload, Waiting
  <2>4. ASSUME NEW d \in Days, StartRun(d) PROVE WaitInv'
    <3>1. day' = d /\ d = day + 1 /\ now' = now /\ now >= Due(d) /\ sensor' = sensor
      BY <2>4 DEF StartRun
    <3>2. ~Waiting'
      BY <3>1, <2>a DEF Waiting, PastInv, InOrder
    <3> QED BY <3>1, <3>2 DEF WaitInv
  <2>5. ASSUME NEW d \in Days, StartSensor(d) PROVE WaitInv'
    <3>1. d = day /\ day' = day /\ now' = now /\ since' = now /\ poked' = FALSE
      BY <2>5 DEF StartSensor
    <3>2. now >= Due(day)
      BY <3>1, Numbers DEF WaitInv
    <3> QED BY <3>1, <3>2, <2>a DEF WaitInv
  <2>6. ASSUME NEW d \in Days, NEW s \in {"success", "skipped", "failed"}, SensorEnds(d, s)
        PROVE  WaitInv'
    BY <2>1, <2>6, <2>c DEF SensorEnds, Waiting
  <2>7. ASSUME NEW d \in Days, Poke(d) PROVE WaitInv'
    <3>1. CASE PokeNothing(d) \/ PokeFinds(d) \/ PokeSkips(d)
      BY <2>6, <3>1 DEF PokeNothing, PokeFinds, PokeSkips
    <3>2. CASE PokeAgain(d) /\ SensorEnds(d, "failed")
      BY <2>6, <3>2
    <3>3. CASE PokeAgain(d) /\ ~SensorEnds(d, "failed")
      <4>1. /\ d = day /\ ~PastDay(d) /\ UNCHANGED <<now, day, sensor, since>>
        BY <3>3 DEF PokeAgain
      <4>2. now < Midnight(day + 2)
        BY <4>1, <2>a, <2>b DEF PastDay
      <4>3. Waiting' = Waiting
        BY <4>1 DEF Waiting
      <4> QED BY <4>1, <4>2, <4>3 DEF WaitInv
    <3> QED BY <2>7, <3>1, <3>2, <3>3 DEF Poke
  <2>8. ASSUME NEW d \in Days, SensorDies(d) PROVE WaitInv'
    BY <2>6, <2>8 DEF SensorDies
  <2>9. ASSUME NEW d \in Days, HandDown(d) \/ StartSpark(d) \/ FinishSpark(d) \/ SparkDies(d)
        PROVE  WaitInv'
    BY <2>1, <2>9 DEF HandDown, StartSpark, FinishSpark, SparkDies, Waiting
  <2>10. CASE UNCHANGED vars
    BY <2>1, <2>10 DEF vars, Waiting
  <2> QED
    BY <2>2, <2>3, <2>4, <2>5, <2>7, <2>8, <2>9, <2>10 DEF Next, AirflowStep, MinioStep
<1>3. TypeOK /\ WaitInv => WaitIsBounded
  BY DEF TypeOK, WaitInv, WaitIsBounded
<1> QED BY <1>1, <1>2, <1>3, TypeCorrect, PastKept, PTL DEF Spec
=============================================================================
