------------------------- MODULE ImageBuilderProofs -------------------------
(***************************************************************************)
(* What Build keeps for every set of images and every interleaving of its  *)
(* goroutines on the shared err.                                           *)
(***************************************************************************)
EXTENDS ImageBuilder, Naturals, TLAPS

\* Every variable keeps its type: one case per step of Build and goroutines.
THEOREM TypeCorrect == Spec => []TypeOK
<1>1. Init => TypeOK
  BY ImagesAssumption DEF Init, TypeOK, Errors, Statuses, Points
<1>2. TypeOK /\ [Next]_vars => TypeOK'
  <2> SUFFICES ASSUME TypeOK, [Next]_vars PROVE TypeOK'
    OBVIOUS
  <2> USE ImagesAssumption DEF TypeOK, Errors, Statuses, Points
  <2>1. CASE Caller
    <3>1. CASE CallBuild BY <3>1 DEF CallBuild
    <3>2. CASE Spawn BY <3>2 DEF Spawn
    <3>3. CASE Finish BY <3>3 DEF Finish
    <3>4. ASSUME NEW i \in Images, Register(i) PROVE TypeOK'
      BY <3>4 DEF Register
    <3> QED BY <2>1, <3>1, <3>2, <3>3, <3>4 DEF Caller
  <2>2. ASSUME NEW i \in Tagged, Worker(i) PROVE TypeOK'
    <3>1. CASE Exists(i) BY <3>1 DEF Exists, Goto
    <3>2. CASE CheckExists(i) BY <3>2 DEF CheckExists, Goto
    <3>3. CASE CheckNotFound(i) BY <3>3 DEF CheckNotFound, Goto
    <3>4. CASE BuildImage(i) BY <3>4 DEF BuildImage, Goto
    <3>5. CASE CheckBuild(i) BY <3>5 DEF CheckBuild, Goto
    <3>6. CASE Report(i) BY <3>6 DEF Report
    <3>7. CASE Return(i) BY <3>7 DEF Return, Goto
    <3>8. CASE Mark(i) BY <3>8 DEF Mark, Goto
    <3> QED BY <2>2, <3>1, <3>2, <3>3, <3>4, <3>5, <3>6, <3>7, <3>8 DEF Worker
  <2>3. CASE UNCHANGED vars BY <2>3 DEF vars, builderVars
  <2> QED BY <2>1, <2>2, <2>3 DEF Next
<1> QED BY <1>1, <1>2, PTL DEF Spec

-----------------------------------------------------------------------------
(* A failed build is never mistaken for a finished one.                    *)

\* The goroutines have not been started.
BeforeSpawn ==
    build \in {"idle", "register"} => \A i \in Tagged : pc[i] = "idle"

\* The status of an image is set by its own goroutine, as the last thing.
ReadyIsLast == \A i \in Tagged : BuildingImages[i] = "true" => pc[i] = "nil"

\* The errgroup holds an error exactly when some goroutine returned one.
GroupErrIsReturned == groupErr # "nil" <=> \E i \in Tagged : pc[i] = "error"

\* What Build returns is what the errgroup holds when all have returned.
BuildReportsGroup ==
    /\ build = "error" => groupErr # "nil"
    /\ build = "nil" => groupErr = "nil"
    /\ build \in {"nil", "error"} => \A i \in Tagged : pc[i] \in {"nil", "error"}

BuildInv == BeforeSpawn /\ ReadyIsLast /\ GroupErrIsReturned /\ BuildReportsGroup

\* BuildInv holds at first and is kept by every step.
LEMMA BuildInvariant == Spec => []BuildInv
<1>1. Init => BuildInv
  BY ImagesAssumption
  DEF Init, BuildInv, BeforeSpawn, ReadyIsLast, GroupErrIsReturned, BuildReportsGroup
<1>2. TypeOK /\ BuildInv /\ [Next]_vars => BuildInv'
  <2> SUFFICES ASSUME TypeOK, BuildInv, [Next]_vars PROVE BuildInv'
    OBVIOUS
  <2> USE ImagesAssumption DEF TypeOK, BuildInv, BeforeSpawn, ReadyIsLast,
                               GroupErrIsReturned, BuildReportsGroup
  <2>1. CASE Caller
    <3>1. CASE CallBuild BY <3>1 DEF CallBuild
    <3>2. CASE Spawn BY <3>2 DEF Spawn
    <3>3. CASE Finish BY <3>3 DEF Finish
    <3>4. ASSUME NEW i \in Images, Register(i) PROVE BuildInv'
      BY <3>4 DEF Register
    <3> QED BY <2>1, <3>1, <3>2, <3>3, <3>4 DEF Caller
  <2>2. ASSUME NEW i \in Tagged, Worker(i) PROVE BuildInv'
    <3>1. CASE Exists(i) BY <3>1 DEF Exists, Goto
    <3>2. CASE CheckExists(i) BY <3>2 DEF CheckExists, Goto
    <3>3. CASE CheckNotFound(i) BY <3>3 DEF CheckNotFound, Goto
    <3>4. CASE BuildImage(i) BY <3>4 DEF BuildImage, Goto
    <3>5. CASE CheckBuild(i) BY <3>5 DEF CheckBuild, Goto
    <3>6. CASE Report(i) BY <3>6 DEF Report
    <3>7. CASE Return(i) BY <3>7 DEF Return, Goto
    <3>8. CASE Mark(i) BY <3>8 DEF Mark, Goto
    <3> QED BY <2>2, <3>1, <3>2, <3>3, <3>4, <3>5, <3>6, <3>7, <3>8 DEF Worker
  <2>3. CASE UNCHANGED vars BY <2>3 DEF vars, builderVars
  <2> QED BY <2>1, <2>2, <2>3 DEF Next
<1> QED BY <1>1, <1>2, TypeCorrect, PTL DEF Spec

\* When Build returns an error, an image stays unready: the CLI's first wait
\* cannot end. For every number of images, whichever error the race returned.
THEOREM FailureBlocks == Spec => []FailedBuildBlocksReady
<1>1. BuildInv => FailedBuildBlocksReady
  BY DEF BuildInv, BuildReportsGroup, GroupErrIsReturned, ReadyIsLast,
         FailedBuildBlocksReady
<1> QED BY <1>1, BuildInvariant, PTL

-----------------------------------------------------------------------------
(* A goroutine that runs alone is right.                                   *)

\* While i is alone, err is what i itself wrote last.
AloneIsExact ==
    \A i \in Tagged : Alone(i) =>
        /\ pc[i] \in {"checkNotFound", "report", "return"} => err # "nil"
        /\ pc[i] = "checkBuild" /\ err = "nil" => i \in imageStore
        /\ pc[i] = "mark" => i \in imageStore
        /\ pc[i] = "nil" => BuildingImages[i] = "true" /\ i \in imageStore
        /\ process # "panicked"

\* A step of another goroutine than i ends i's being alone.
LEMMA OthersEndAlone ==
    ASSUME TypeOK, NEW i \in Tagged, NEW j \in Tagged, Worker(j), Alone(i)'
    PROVE  i = j /\ Alone(i)
<1> SUFFICES ASSUME i # j PROVE FALSE
  BY DEF TypeOK, Alone, Worker, Exists, CheckExists, CheckNotFound, BuildImage,
         CheckBuild, Report, Return, Mark, Goto
<1>1. pc'[j] \notin {"idle", "exists"}
  BY DEF TypeOK, Worker, Exists, CheckExists, CheckNotFound, BuildImage,
         CheckBuild, Report, Return, Mark, Goto
<1> QED BY <1>1 DEF Alone

\* AloneIsExact holds at first and is kept by every step.
LEMMA AloneInvariant == Spec => []AloneIsExact
<1>1. Init => AloneIsExact
  BY DEF Init, AloneIsExact
<1>2. TypeOK /\ AloneIsExact /\ [Next]_vars => AloneIsExact'
  <2> SUFFICES ASSUME TypeOK, AloneIsExact, [Next]_vars PROVE AloneIsExact'
    OBVIOUS
  <2> USE ImagesAssumption DEF TypeOK, AloneIsExact
  <2>1. CASE Caller
    <3>1. CASE CallBuild BY <3>1 DEF CallBuild, Alone
    <3>2. CASE Spawn BY <3>2 DEF Spawn
    <3>3. CASE Finish BY <3>3 DEF Finish, Alone
    <3>4. ASSUME NEW i \in Images, Register(i) PROVE AloneIsExact'
      BY <3>4 DEF Register, Alone
    <3> QED BY <2>1, <3>1, <3>2, <3>3, <3>4 DEF Caller
  <2>2. ASSUME NEW j \in Tagged, Worker(j) PROVE AloneIsExact'
    <3> SUFFICES ASSUME Alone(j), Alone(j)'
                 PROVE  /\ pc'[j] \in {"checkNotFound", "report", "return"}
                             => err' # "nil"
                        /\ pc'[j] = "checkBuild" /\ err' = "nil" => j \in imageStore'
                        /\ pc'[j] = "mark" => j \in imageStore'
                        /\ pc'[j] = "nil"
                             => BuildingImages'[j] = "true" /\ j \in imageStore'
                        /\ process' # "panicked"
      BY <2>2, OthersEndAlone
    <3>1. CASE Exists(j) BY <3>1 DEF Exists, Goto
    <3>2. CASE CheckExists(j) BY <3>2 DEF CheckExists, Goto
    <3>3. CASE CheckNotFound(j) BY <3>3 DEF CheckNotFound, Goto
    <3>4. CASE BuildImage(j) BY <3>4 DEF BuildImage, Goto
    <3>5. CASE CheckBuild(j) BY <3>5 DEF CheckBuild, Goto
    <3>6. CASE Report(j) BY <3>6 DEF Report
    <3>7. CASE Return(j) BY <3>7 DEF Return, Goto
    <3>8. CASE Mark(j) BY <3>8 DEF Mark, Goto
    <3> QED BY <2>2, <3>1, <3>2, <3>3, <3>4, <3>5, <3>6, <3>7, <3>8 DEF Worker
  <2>3. CASE UNCHANGED vars BY <2>3 DEF vars, builderVars, Alone
  <2> QED BY <2>1, <2>2, <2>3 DEF Next
<1> QED BY <1>1, <1>2, TypeCorrect, PTL DEF Spec

\* A failure passes for a success only if two goroutines were under way.
THEOREM RacesAlone == Spec => []OnlyRacesMaskErrors
<1>1. AloneIsExact => OnlyRacesMaskErrors
  BY DEF AloneIsExact, OnlyRacesMaskErrors
<1> QED BY <1>1, AloneInvariant, PTL

\* A goroutine that runs has every image registered around it, and Build
\* answers with all of them registered.
AllRegistered ==
    /\ \A i \in Tagged : pc[i] # "idle" => BuildingImages[i] # "absent"
    /\ build \in {"wait", "nil", "error"} => \A i \in Images : BuildingImages[i] # "absent"

\* AllRegistered holds at first and is kept by every step.
LEMMA RegisteredInvariant == Spec => []AllRegistered
<1>1. Init => AllRegistered
  BY DEF Init, AllRegistered
<1>2. TypeOK /\ BuildInv /\ AllRegistered /\ [Next]_vars => AllRegistered'
  <2> SUFFICES ASSUME TypeOK, BuildInv, AllRegistered, [Next]_vars PROVE AllRegistered'
    OBVIOUS
  <2> USE ImagesAssumption DEF TypeOK, AllRegistered
  <2>1. CASE Caller
    <3>1. CASE CallBuild BY <3>1 DEF CallBuild
    <3>2. CASE Spawn BY <3>2 DEF Spawn
    <3>3. CASE Finish BY <3>3 DEF Finish
    <3>4. ASSUME NEW i \in Images, Register(i) PROVE AllRegistered'
      BY <3>4 DEF Register
    <3> QED BY <2>1, <3>1, <3>2, <3>3, <3>4 DEF Caller
  <2>2. ASSUME NEW i \in Tagged, Worker(i) PROVE AllRegistered'
    <3>1. pc[i] # "idle" /\ UNCHANGED build
      BY <2>2 DEF Worker, Exists, CheckExists, CheckNotFound, BuildImage, CheckBuild,
                  Report, Return, Mark, Goto
    <3>2. \A j \in Tagged : pc'[j] # "idle" => pc[j] # "idle"
      BY <2>2, <3>1
      DEF Worker, Exists, CheckExists, CheckNotFound, BuildImage, CheckBuild,
          Report, Return, Mark, Goto
    <3>3. \A j \in Images : BuildingImages[j] # "absent" => BuildingImages'[j] # "absent"
      BY <2>2
      DEF Worker, Exists, CheckExists, CheckNotFound, BuildImage, CheckBuild,
          Report, Return, Mark, Goto
    <3> QED BY <3>1, <3>2, <3>3
  <2>3. CASE UNCHANGED vars BY <2>3 DEF vars, builderVars
  <2> QED BY <2>1, <2>2, <2>3 DEF Next
<1> QED BY <1>1, <1>2, TypeCorrect, BuildInvariant, PTL DEF Spec

\* What the command sees of Build.
Answered == IF build \in {"nil", "error"} THEN build ELSE "none"

\* A step that changes neither the map nor the result is a stutter of the board.
LEMMA BoardStutters ==
    UNCHANGED <<BuildingImages, Answered>> => [Board!Next]_(Board!vars)
BY DEF Answered, Board!vars

\* A goroutine touches the board only when it marks its own image, which was
\* not ready before, while Build still waits for it.
LEMMA WorkerKeepsBoard ==
    ASSUME TypeOK, BuildInv, AllRegistered, NEW i \in Tagged, Worker(i)
    PROVE  [Board!Next]_(Board!vars)
<1>1. CASE Mark(i)
  <2>1. Answered = "none" /\ Answered' = Answered
    BY <1>1 DEF Mark, Goto, BuildInv, BuildReportsGroup, Answered
  <2>2. BuildingImages[i] = "false"
    BY <1>1, ImagesAssumption
    DEF Mark, Goto, TypeOK, Statuses, BuildInv, ReadyIsLast, AllRegistered
  <2>3. Board!Mark(i)
    BY <1>1, <2>1, <2>2 DEF Mark, Goto, Board!Mark, Board!SetStatus, Answered
  <2> QED BY <2>3 DEF Board!Next
<1>2. CASE ~Mark(i)
  <2>1. UNCHANGED <<BuildingImages, build>>
    BY <1>2 DEF Worker, Exists, CheckExists, CheckNotFound, BuildImage, CheckBuild,
                Report, Return, Goto
  <2> QED BY <2>1, BoardStutters DEF Answered
<1> QED BY <1>1, <1>2

\* Build answers an error only if a goroutine has not marked its image, and nil
\* with all marked if there is one goroutine only.
LEMMA FinishKeepsBoard ==
    ASSUME TypeOK, BuildInv, AllRegistered, AloneIsExact, Finish
    PROVE  Board!Answer
<1>1. /\ Answered = "none" /\ UNCHANGED BuildingImages
      /\ \A i \in Images : BuildingImages[i] # "absent"
  BY DEF Finish, Answered, AllRegistered
<1>2. CASE groupErr = "nil"
  <2>1. Answered' = "nil"
    BY <1>2 DEF Finish, Answered
  <2>2. (\A i, j \in Tagged : i = j) => \A i \in Tagged : BuildingImages[i] = "true"
    <3> SUFFICES ASSUME \A i, j \in Tagged : i = j, NEW i \in Tagged
                 PROVE  BuildingImages[i] = "true"
      OBVIOUS
    <3>1. Alone(i)
      BY DEF Alone
    <3>2. pc[i] = "nil"
      BY <1>2 DEF Finish, BuildInv, GroupErrIsReturned
    <3> QED BY <3>1, <3>2 DEF AloneIsExact
  <2> QED BY <1>1, <2>1, <2>2 DEF Board!Answer, Board!AllReady, Answered
<1>3. CASE groupErr # "nil"
  <2>1. Answered' = "error"
    BY <1>3 DEF Finish, Answered
  <2>2. \E i \in Tagged : BuildingImages[i] # "true"
    BY <1>3 DEF BuildInv, GroupErrIsReturned, ReadyIsLast
  <2> QED BY <1>1, <2>1, <2>2 DEF Board!Answer, Board!AllReady, Answered
<1> QED BY <1>2, <1>3

\* Build implements StatusBoard, for every set of images and whatever the
\* goroutines read in err: nothing is marked twice, unregistered, or after the
\* answer; and as soon as only one image is built, the answer is exact.
THEOREM BoardCorrect == Spec => KeepsBoard
<1>1. Init => Board!Init
  BY DEF Init, Board!Init
<1>2. TypeOK /\ BuildInv /\ AllRegistered /\ AloneIsExact /\ [Next]_vars
      => [Board!Next]_(Board!vars)
  <2> SUFFICES ASSUME TypeOK, BuildInv, AllRegistered, AloneIsExact, [Next]_vars
               PROVE  [Board!Next]_(Board!vars)
    OBVIOUS
  <2>1. CASE CallBuild \/ Spawn
    BY <2>1, BoardStutters DEF CallBuild, Spawn, Answered
  <2>2. ASSUME NEW i \in Images, Register(i) PROVE Board!Next
    BY <2>2 DEF Register, Board!Next, Board!Register, Board!SetStatus
  <2>3. CASE Finish
    BY <2>3, FinishKeepsBoard DEF Board!Next
  <2>4. ASSUME NEW i \in Tagged, Worker(i) PROVE [Board!Next]_(Board!vars)
    BY <2>4, WorkerKeepsBoard
  <2>5. CASE UNCHANGED vars
    BY <2>5, BoardStutters DEF vars, builderVars, Answered
  <2> QED BY <2>1, <2>2, <2>3, <2>4, <2>5 DEF Next, Caller
<1> QED
  BY <1>1, <1>2, TypeCorrect, BuildInvariant, RegisteredInvariant, AloneInvariant, PTL
  DEF Spec, KeepsBoard, Board!Spec

\* A ready status is never taken back and a registered image never forgotten:
\* so it is on the board.
THEOREM ReadyStays == Spec => ReadySticks
<1> DEFINE Kept == \A i \in Images :
                     /\ BuildingImages[i] = "true" => BuildingImages'[i] = "true"
                     /\ BuildingImages'[i] = "absent" => BuildingImages[i] = "absent"
<1>1. TypeOK /\ [Board!Next]_(Board!vars) => [Kept]_vars
  BY ImagesAssumption
  DEF TypeOK, Board!Next, Board!vars, Board!Register, Board!Mark, Board!SetStatus, Board!Answer
<1> QED BY <1>1, TypeCorrect, BoardCorrect, PTL DEF KeepsBoard, Board!Spec, ReadySticks

\* A section with one image to build, as most sections of the book have, is
\* free of the race: Build's nil means that the image is built and marked.
THEOREM SoleImage ==
    ASSUME NEW i, Tagged = {i}
    PROVE  Spec => [](build = "nil" => BuildingImages[i] = "true" /\ i \in imageStore)
<1>1. BuildInv /\ AloneIsExact
        => (build = "nil" => BuildingImages[i] = "true" /\ i \in imageStore)
  BY DEF BuildInv, BuildReportsGroup, GroupErrIsReturned, AloneIsExact, Alone
<1> QED BY <1>1, BuildInvariant, AloneInvariant, PTL
-----------------------------------------------------------------------------
(* Build comes to an end.                                                  *)

\* After the goroutines have been started, none is left idle.
AllSpawned == build = "wait" => \A i \in Tagged : pc[i] # "idle"

\* The guards of the steps, without those that always hold together: one of
\* Register and Spawn, one of the outcomes of each call and of Report.
CanGoOn ==
    \/ build = "idle"
    \/ build = "register" /\ \E i \in Images : BuildingImages[i] = "absent"
    \/ build = "register" /\ \A i \in Images : BuildingImages[i] # "absent"
    \/ build = "wait" /\ \A i \in Tagged : pc[i] \in {"nil", "error"}
    \/ \E i \in Tagged : pc[i] \notin {"idle", "nil", "error"}

GoesOn == build \in {"nil", "error"} \/ CanGoOn

\* A Build that has not answered has a step to take, whatever the goroutines
\* read in err: no wait of its own can last for ever.
THEOREM BuildGoesOn == Spec => []GoesOn
<1>1. Init => AllSpawned
  BY DEF Init, AllSpawned
<1>2. TypeOK /\ AllSpawned /\ [Next]_vars => AllSpawned'
  <2> SUFFICES ASSUME TypeOK, AllSpawned, [Next]_vars PROVE AllSpawned'
    OBVIOUS
  <2> USE DEF TypeOK, AllSpawned
  <2>1. CASE Caller
    BY <2>1 DEF Caller, CallBuild, Spawn, Finish, Register
  <2>2. ASSUME NEW i \in Tagged, Worker(i) PROVE AllSpawned'
    BY <2>2 DEF Worker, Exists, CheckExists, CheckNotFound, BuildImage, CheckBuild,
                Report, Return, Mark, Goto
  <2>3. CASE UNCHANGED vars BY <2>3 DEF vars, builderVars
  <2> QED BY <2>1, <2>2, <2>3 DEF Next
<1>3. TypeOK /\ AllSpawned => GoesOn
  BY DEF TypeOK, AllSpawned, GoesOn, CanGoOn
<1> QED BY <1>1, <1>2, <1>3, TypeCorrect, PTL DEF Spec

\* How far a goroutine is, and how far Build itself is.
Place(p) ==
    CASE p = "idle" -> 0          [] p = "exists" -> 1 [] p = "checkExists" -> 2
      [] p = "checkNotFound" -> 3 [] p = "build" -> 4  [] p = "checkBuild" -> 5
      [] p = "report" -> 6        [] p \in {"return", "mark"} -> 7
      [] OTHER -> 8

Stage(b) == CASE b = "idle" -> 0 [] b = "register" -> 1 [] b = "wait" -> 2 [] OTHER -> 3

\* Every point of a goroutine but the first, in the order of the code.
LEMMA Places ==
    /\ Place("exists") = 1 /\ Place("checkExists") = 2 /\ Place("checkNotFound") = 3
    /\ Place("build") = 4 /\ Place("checkBuild") = 5 /\ Place("report") = 6
    /\ Place("return") = 7 /\ Place("mark") = 7
    /\ Place("nil") = 8 /\ Place("error") = 8
BY DEF Place

\* A step takes Build to its next stage, or registers one image more, or takes
\* one goroutine further and no other anywhere, or ends the process.
Advances ==
    \/ Stage(build) < Stage(build')
    \/ /\ build' = build
       /\ \E i \in Images :
             /\ BuildingImages[i] = "absent" /\ BuildingImages'[i] # "absent"
             /\ \A j \in Images \ {i} : BuildingImages'[j] = BuildingImages[j]
       /\ pc' = pc
    \/ /\ build' = build
       /\ \E i \in Tagged :
             /\ Place(pc[i]) < Place(pc'[i])
             /\ \A j \in Tagged \ {i} : pc'[j] = pc[j]
    \/ process = "up" /\ process' # "up"

\* Every step advances: the images are finitely many, so that Build cannot go
\* on for ever, and by BuildGoesOn it does not stop before it has answered.
THEOREM BuildAdvances == Spec => [][Advances]_vars
<1>1. TypeOK /\ [Next]_vars => [Advances]_vars
  <2> SUFFICES ASSUME TypeOK, Next PROVE Advances
    OBVIOUS
  <2> USE ImagesAssumption DEF TypeOK
  <2>1. CASE CallBuild \/ Spawn \/ Finish
    BY <2>1 DEF CallBuild, Spawn, Finish, Stage, Advances
  <2>2. ASSUME NEW i \in Images, Register(i) PROVE Advances
    BY <2>2 DEF Register, Advances
  <2>3. ASSUME NEW i \in Tagged, Worker(i) PROVE Advances
    <3>1. CASE process' # "up"
      BY <2>3, <3>1
      DEF Worker, Exists, CheckExists, CheckNotFound, BuildImage, CheckBuild, Report,
          Return, Mark, Goto, Advances
    <3>2. ASSUME NEW to \in Points, pc' = [pc EXCEPT ![i] = to], Place(pc[i]) < Place(to),
                 build' = build
          PROVE  Advances
      BY <3>2 DEF Advances
    <3>3. CASE Exists(i) BY Places, <3>2, <3>3 DEF Exists, Goto, Points
    <3>4. CASE CheckExists(i)
      <4>1. PICK to \in {"build", "checkNotFound"} : Goto(i, "checkExists", to)
        BY <3>4 DEF CheckExists
      <4>2. Place(pc[i]) < Place(to) /\ to \in Points
        BY Places, <4>1 DEF Goto, Points
      <4> QED BY <3>2, <3>4, <4>1, <4>2 DEF CheckExists, Goto
    <3>5. CASE CheckNotFound(i)
      <4>1. PICK to \in {"build", "report"} : Goto(i, "checkNotFound", to)
        BY <3>5 DEF CheckNotFound
      <4>2. Place(pc[i]) < Place(to) /\ to \in Points
        BY Places, <4>1 DEF Goto, Points
      <4> QED BY <3>2, <3>5, <4>1, <4>2 DEF CheckNotFound, Goto
    <3>6. CASE BuildImage(i) BY Places, <3>2, <3>6 DEF BuildImage, Goto, Points
    <3>7. CASE CheckBuild(i)
      <4>1. PICK to \in {"mark", "report"} : Goto(i, "checkBuild", to)
        BY <3>7 DEF CheckBuild
      <4>2. Place(pc[i]) < Place(to) /\ to \in Points
        BY Places, <4>1 DEF Goto, Points
      <4> QED BY <3>2, <3>7, <4>1, <4>2 DEF CheckBuild, Goto
    <3>8. CASE Report(i) /\ process' = "up"
      BY Places, <3>2, <3>8 DEF Report, Points
    <3>9. CASE Return(i)
      <4>1. PICK to \in {"nil", "error"} : Goto(i, "return", to)
        BY <3>9 DEF Return
      <4>2. Place(pc[i]) < Place(to) /\ to \in Points
        BY Places, <4>1 DEF Goto, Points
      <4> QED BY <3>2, <3>9, <4>1, <4>2 DEF Return, Goto
    <3>10. CASE Mark(i) BY Places, <3>2, <3>10 DEF Mark, Goto, Points
    <3> QED
      BY <2>3, <3>1, <3>3, <3>4, <3>5, <3>6, <3>7, <3>8, <3>9, <3>10 DEF Worker
  <2> QED BY <2>1, <2>2, <2>3 DEF Next, Caller
<1> QED BY <1>1, TypeCorrect, PTL DEF Spec
=============================================================================
