----------------------- MODULE ContainerRunnerProofs -----------------------
(***************************************************************************)
(* What RunContainers keeps for every set of images, whatever the daemon   *)
(* answers and whenever the containers exit.                               *)
(***************************************************************************)
EXTENDS ContainerRunner, Naturals, TLAPS

\* Every variable keeps its type: one case per step.
THEOREM TypeCorrect == Spec => []TypeOK
<1>1. Init => TypeOK
  <2> SUFFICES ASSUME Init PROVE TypeOK
    OBVIOUS
  <2> USE DEF Init, InitRun
  <2>1. runErr \in BOOLEAN /\ network \in BOOLEAN
    BY Zenon
  <2>2. StartingImages \in [Images -> Statuses] /\ rpc \in [Images -> Points]
    BY DEF Statuses, Points
  <2>3. /\ container \in [Containers -> {"none", "created", "running", "exited", "removed"}]
        /\ health \in [Images -> {"none", "starting", "healthy", "unhealthy"}]
    OBVIOUS
  <2>4. /\ run \in {"idle", "wait", "nil", "error"} /\ process \in {"up", "panicked", "exited"}
        /\ imageToConnect \in Terminals \cup {None} /\ OpenUrl \in WebUI \cup {None}
        /\ OpenTerminal \in Terminals \cup {None} /\ sawHealthy \subseteq Images
        /\ imageStore \subseteq Images
    OBVIOUS
  <2> QED BY <2>1, <2>2, <2>3, <2>4 DEF TypeOK
<1>2. TypeOK /\ [Next]_vars => TypeOK'
  <2> SUFFICES ASSUME TypeOK, [Next]_vars PROVE TypeOK'
    OBVIOUS
  <2> USE RunAssumption DEF TypeOK, Statuses, Points, dockerVars
  <2>1. CASE CallRun BY <2>1 DEF CallRun
  <2>2. CASE FinishRun BY <2>2 DEF FinishRun
  <2>3. ASSUME NEW i \in Images, Worker(i) PROVE TypeOK'
    <3>1. CASE Register(i) BY <3>1 DEF Register, Goto
    <3>2. CASE Create(i)
      <4>0. \/ rpc' = [rpc EXCEPT ![i] = "start"] /\ UNCHANGED runErr
            \/ rpc' = [rpc EXCEPT ![i] = "error"] /\ runErr' = TRUE
        BY ONLY <3>2 DEF Create, Goto, Fail
      <4>1. rpc' \in [Images -> Points] /\ runErr' \in BOOLEAN
        <5>1. rpc' \in [Images -> Points]
          BY <4>0
        <5>2. runErr' \in BOOLEAN
          BY <4>0, Zenon
        <5> QED BY <5>1, <5>2
      <4>2. container' \in [Containers ->
                             {"none", "created", "running", "exited", "removed"}]
        BY <3>2 DEF Create, Goto, Fail
      <4> QED BY <3>2, <4>1, <4>2, Zenon DEF Create, Goto, Fail
    <3>3. CASE Start(i)
      <4>1. /\ rpc' \in [Images -> Points]
            /\ runErr' \in BOOLEAN
        BY <3>3 DEF Start, Goto, Fail
      <4>2. container' \in [Containers ->
                             {"none", "created", "running", "exited", "removed"}]
        BY <3>3 DEF Start
      <4>3. health' \in [Images -> {"none", "starting", "healthy", "unhealthy"}]
        BY <3>3 DEF Start
      <4>4. process' \in {"up", "panicked", "exited"}
        BY <3>3 DEF Start
      <4> QED BY <3>3, <4>1, <4>2, <4>3, <4>4, Zenon DEF Start
    <3>4. CASE PollHealthy(i) BY <3>4 DEF PollHealthy, Goto
    <3>5. CASE PollFails(i) BY <3>5 DEF PollFails, Goto, Fail
    <3>6. CASE Timeout(i) BY <3>6 DEF Timeout, Goto
    <3>7. CASE Mark(i) BY <3>7 DEF Mark, Goto
    <3> QED BY <2>3, <3>1, <3>2, <3>3, <3>4, <3>5, <3>6, <3>7 DEF Worker
  <2>4. CASE Docker BY <2>4 DEF Docker, ProbeResult, ContainerExits, runVars
  <2>5. CASE UNCHANGED vars BY <2>5 DEF vars, runVars
  <2> QED BY <2>1, <2>2, <2>3, <2>4, <2>5 DEF Next, Caller
<1> QED BY <1>1, <1>2, PTL DEF Spec

-----------------------------------------------------------------------------
\* A status is the last thing a goroutine sets, and the first.
StatusFollowsGoroutine ==
    \A i \in Images :
        /\ StartingImages[i] = "true" <=> rpc[i] = "nil"
        /\ StartingImages[i] = "absent" <=> rpc[i] \in {"idle", "register"}

\* The errgroup knows exactly the failed goroutines, and so does the caller.
ResultIsGroup ==
    /\ runErr <=> \E i \in Images : rpc[i] = "error"
    /\ run \in {"nil", "error"} => AllReturned
    /\ run = "error" => runErr
    /\ run = "nil" => ~runErr

\* The goroutines start with the URL resolved.
UrlBeforeGoroutines ==
    /\ run = "idle" => \A i \in Images : rpc[i] = "idle"
    /\ run # "idle" /\ WebUI # {} => OpenUrl # None

\* The shared imageToConnect holds no container that has not been healthy.
ConnectsHealthy ==
    /\ \A i \in Images : rpc[i] = "healthy" => i \in sawHealthy
    /\ imageToConnect # None => imageToConnect \in sawHealthy
    /\ OpenTerminal # None => OpenTerminal \in sawHealthy /\ run = "nil"

RunInv ==
    /\ StatusFollowsGoroutine
    /\ ResultIsGroup
    /\ UrlBeforeGoroutines
    /\ ConnectsHealthy
    /\ OnlyFailuresLeaveCreated

\* RunInv holds at first and is kept by every step.
LEMMA RunInvariant == Spec => []RunInv
<1>1. Init => RunInv
  BY RunAssumption
  DEF Init, InitRun, RunInv, StatusFollowsGoroutine, ResultIsGroup, AllReturned,
      UrlBeforeGoroutines, ConnectsHealthy, OnlyFailuresLeaveCreated
<1>2. TypeOK /\ RunInv /\ [Next]_vars => RunInv'
  <2> SUFFICES ASSUME TypeOK, RunInv, [Next]_vars PROVE RunInv'
    OBVIOUS
  <2> USE RunAssumption
      DEF TypeOK, Points, RunInv, StatusFollowsGoroutine, ResultIsGroup, AllReturned,
          UrlBeforeGoroutines, ConnectsHealthy, OnlyFailuresLeaveCreated, dockerVars
  <2>1. CASE CallRun BY <2>1 DEF CallRun
  <2>2. CASE FinishRun BY <2>2 DEF FinishRun
  <2>3. ASSUME NEW i \in Images, Worker(i) PROVE RunInv'
    <3>1. CASE Register(i) BY <3>1 DEF Register, Goto
    <3>2. CASE Create(i) BY <3>2 DEF Create, Goto, Fail
    <3>3. CASE Start(i) BY <3>3 DEF Start, Goto, Fail
    <3>4. CASE PollHealthy(i) BY <3>4 DEF PollHealthy, Goto
    <3>5. CASE PollFails(i) BY <3>5 DEF PollFails, Goto, Fail
    <3>6. CASE Timeout(i) BY <3>6 DEF Timeout, Goto
    <3>7. CASE Mark(i) BY <3>7 DEF Mark, Goto
    <3> QED BY <2>3, <3>1, <3>2, <3>3, <3>4, <3>5, <3>6, <3>7 DEF Worker
  <2>4. CASE Docker BY <2>4 DEF Docker, ProbeResult, ContainerExits, runVars
  <2>5. CASE UNCHANGED vars BY <2>5 DEF vars, runVars
  <2> QED BY <2>1, <2>2, <2>3, <2>4, <2>5 DEF Next, Caller
<1> QED BY <1>1, <1>2, TypeCorrect, PTL DEF Spec

\* When RunContainers fails an image stays unready: the CLI's second wait, if
\* it has not ended by then, does not end.
THEOREM FailureBlocks == Spec => []FailedRunBlocksReady
<1>1. RunInv => FailedRunBlocksReady
  BY DEF RunInv, ResultIsGroup, StatusFollowsGoroutine, FailedRunBlocksReady
<1> QED BY <1>1, RunInvariant, PTL

\* When RunContainers returns nil every image is marked ready: its goroutines
\* share no err, unlike those of Build.
THEOREM NilMarksAll == Spec => []NilMeansAllStarted
<1>1. RunInv => NilMeansAllStarted
  BY DEF RunInv, ResultIsGroup, StatusFollowsGoroutine, AllReturned,
         NilMeansAllStarted, AllStarted
<1> QED BY <1>1, RunInvariant, PTL

\* A terminal is opened in a container that has been healthy, after all images
\* are ready, however many goroutines compete for imageToConnect.
THEOREM TerminalInHealthy == Spec => []TerminalIsHealthy
<1>1. RunInv => TerminalIsHealthy
  BY DEF RunInv, ConnectsHealthy, ResultIsGroup, StatusFollowsGoroutine,
         AllReturned, TerminalIsHealthy, AllStarted
<1> QED BY <1>1, RunInvariant, PTL

\* A container created and never started is a failed goroutine's.
THEOREM CreatedIsFailed == Spec => []OnlyFailuresLeaveCreated
<1>1. RunInv => OnlyFailuresLeaveCreated
  BY DEF RunInv
<1> QED BY <1>1, RunInvariant, PTL

\* Whoever sees a status finds the URL.
THEOREM UrlFirst == Spec => []UrlBeforeStatus
<1>1. RunInv => UrlBeforeStatus
  BY DEF RunInv, UrlBeforeGoroutines, StatusFollowsGoroutine, UrlBeforeStatus
<1> QED BY <1>1, RunInvariant, PTL

-----------------------------------------------------------------------------
(* What the command sees of RunContainers.                                 *)

Answered == IF run \in {"nil", "error"} THEN run ELSE "none"

\* A step that changes neither the map nor the result is a stutter of the board.
LEMMA BoardStutters ==
    UNCHANGED <<StartingImages, Answered>> => [Board!Next]_(Board!vars)
BY DEF Answered, Board!vars

\* A goroutine registers its image, and marks it once it has, while
\* RunContainers still waits for it.
LEMMA WorkerKeepsBoard ==
    ASSUME TypeOK, RunInv, NEW i \in Images, Worker(i)
    PROVE  [Board!Next]_(Board!vars)
<1>1. rpc[i] \notin {"nil", "error"} => Answered = "none"
  BY DEF RunInv, ResultIsGroup, AllReturned, Answered
<1>2. CASE Register(i)
  <2>1. Answered = "none" /\ Answered' = Answered
    BY <1>1, <1>2 DEF Register, Goto, Answered
  <2>2. Board!Register(i)
    BY <1>2, <2>1
    DEF Register, Goto, RunInv, StatusFollowsGoroutine, Board!Register, Board!SetStatus,
        Answered
  <2> QED BY <2>2 DEF Board!Next
<1>3. CASE Mark(i)
  <2>1. Answered = "none" /\ Answered' = Answered
    BY <1>1, <1>3 DEF Mark, Goto, Answered
  <2>2. StartingImages[i] = "false"
    BY <1>3 DEF Mark, Goto, TypeOK, Statuses, RunInv, StatusFollowsGoroutine
  <2>3. Board!Mark(i)
    BY <1>3, <2>1, <2>2 DEF Mark, Board!Mark, Board!SetStatus, Answered
  <2> QED BY <2>3 DEF Board!Next
<1>4. CASE ~Register(i) /\ ~Mark(i)
  <2>1. UNCHANGED <<StartingImages, run>>
    BY <1>4 DEF Worker, Create, Start, PollHealthy, PollFails, Timeout
  <2> QED BY <2>1, BoardStutters DEF Answered
<1> QED BY <1>2, <1>3, <1>4

\* RunContainers answers nil with all images marked, an error with one that is
\* not, and either with all registered.
LEMMA FinishKeepsBoard ==
    ASSUME RunInv, FinishRun PROVE Board!Answer
<1>1. /\ Answered = "none" /\ UNCHANGED StartingImages
      /\ \A i \in Images : rpc[i] \in {"nil", "error"} /\ StartingImages[i] # "absent"
  BY DEF FinishRun, AllReturned, Answered, RunInv, StatusFollowsGoroutine
<1>2. CASE runErr
  <2>1. Answered' = "error" /\ \E i \in Images : StartingImages[i] # "true"
    BY <1>2 DEF FinishRun, Answered, RunInv, ResultIsGroup, StatusFollowsGoroutine
  <2> QED BY <1>1, <2>1 DEF Board!Answer, Board!AllReady, Answered
<1>3. CASE ~runErr
  <2>1. Answered' = "nil" /\ \A i \in Images : StartingImages[i] = "true"
    BY <1>1, <1>3 DEF FinishRun, Answered, RunInv, ResultIsGroup, StatusFollowsGoroutine
  <2> QED BY <1>1, <2>1 DEF Board!Answer, Board!AllReady, Answered
<1> QED BY <1>2, <1>3

\* RunContainers implements StatusBoard, and its nil is exact: its goroutines
\* share no err, unlike those of Build.
THEOREM BoardCorrect == Spec => KeepsBoard
<1>1. Init => Board!Init
  BY DEF Init, InitRun, Board!Init
<1>2. TypeOK /\ RunInv /\ [Next]_vars => [Board!Next]_(Board!vars)
  <2> SUFFICES ASSUME TypeOK, RunInv, [Next]_vars PROVE [Board!Next]_(Board!vars)
    OBVIOUS
  <2>1. CASE CallRun
    BY <2>1, BoardStutters DEF CallRun, Answered
  <2>2. CASE FinishRun
    BY <2>2, FinishKeepsBoard DEF Board!Next
  <2>3. ASSUME NEW i \in Images, Worker(i) PROVE [Board!Next]_(Board!vars)
    BY <2>3, WorkerKeepsBoard
  <2>4. CASE Docker
    BY <2>4, BoardStutters DEF Docker, ProbeResult, ContainerExits, runVars, Answered
  <2>5. CASE UNCHANGED vars
    BY <2>5, BoardStutters DEF vars, runVars, Answered
  <2> QED BY <2>1, <2>2, <2>3, <2>4, <2>5 DEF Next, Caller
<1> QED BY <1>1, <1>2, TypeCorrect, RunInvariant, PTL DEF Spec, KeepsBoard, Board!Spec
-----------------------------------------------------------------------------
(* RunContainers comes to an end, whatever becomes of the containers.      *)

\* After the goroutines have been started, none is left idle.
AllCalled == run # "idle" => \A i \in Images : rpc[i] # "idle"

\* The guards of the steps of Caller and of Progress, without those that always
\* hold together: a container is created or not, it starts or not, and a wait
\* for its health may time out, whatever the health check says.
CanGoOn ==
    \/ run = "idle"
    \/ run = "wait" /\ AllReturned
    \/ \E i \in Images : rpc[i] \in {"register", "create", "start", "poll",
                                     "healthy", "timedOut"}

GoesOn == run \in {"nil", "error"} \/ CanGoOn

\* RunContainers that has not answered has a step to take, without any call
\* failing for reasons of the daemon's and without any container healthy.
THEOREM RunGoesOn == Spec => []GoesOn
<1>1. Init => AllCalled
  BY DEF Init, InitRun, AllCalled
<1>2. TypeOK /\ AllCalled /\ [Next]_vars => AllCalled'
  <2> SUFFICES ASSUME TypeOK, AllCalled, [Next]_vars PROVE AllCalled'
    OBVIOUS
  <2> USE DEF TypeOK, AllCalled
  <2>1. CASE CallRun BY <2>1 DEF CallRun
  <2>2. CASE FinishRun BY <2>2 DEF FinishRun
  <2>3. ASSUME NEW i \in Images, Worker(i) PROVE AllCalled'
    BY <2>3 DEF Worker, Register, Create, Start, PollHealthy, PollFails, Timeout, Mark,
                Goto, Fail
  <2>4. CASE Docker BY <2>4 DEF Docker, ProbeResult, ContainerExits, runVars
  <2>5. CASE UNCHANGED vars BY <2>5 DEF vars, runVars
  <2> QED BY <2>1, <2>2, <2>3, <2>4, <2>5 DEF Next, Caller
<1>3. TypeOK /\ AllCalled => GoesOn
  BY DEF TypeOK, Points, AllCalled, AllReturned, GoesOn, CanGoOn
<1> QED BY <1>1, <1>2, <1>3, TypeCorrect, PTL DEF Spec

\* How far a goroutine is, and how far RunContainers itself is.
Place(p) ==
    CASE p = "idle" -> 0  [] p = "register" -> 1 [] p = "create" -> 2
      [] p = "start" -> 3 [] p = "poll" -> 4     [] p \in {"healthy", "timedOut"} -> 5
      [] OTHER -> 6

Stage(r) == CASE r = "idle" -> 0 [] r = "wait" -> 1 [] OTHER -> 2

\* Every point of a goroutine but the first, in the order of the code.
LEMMA Places ==
    /\ Place("register") = 1 /\ Place("create") = 2 /\ Place("start") = 3
    /\ Place("poll") = 4 /\ Place("healthy") = 5 /\ Place("timedOut") = 5
    /\ Place("nil") = 6 /\ Place("error") = 6
BY DEF Place

\* A step takes RunContainers to its next stage, or one goroutine further and no
\* other anywhere.
Advances ==
    \/ Stage(run) < Stage(run')
    \/ /\ run' = run
       /\ \E i \in Images :
             /\ Place(rpc[i]) < Place(rpc'[i])
             /\ \A j \in Images \ {i} : rpc'[j] = rpc[j]

\* Every step of the program advances; those of the daemon and of the programs
\* in the containers, which have no end, neither advance it nor hold it up.
THEOREM RunAdvances == Spec => [][~Docker => Advances]_vars
<1>1. TypeOK /\ [Next]_vars => [~Docker => Advances]_vars
  <2> SUFFICES ASSUME TypeOK, Next, ~Docker PROVE Advances
    OBVIOUS
  <2> USE DEF TypeOK
  <2>1. CASE CallRun BY <2>1 DEF CallRun, Stage, Advances
  <2>2. CASE FinishRun BY <2>2 DEF FinishRun, Stage, Advances
  <2>3. ASSUME NEW i \in Images, Worker(i) PROVE Advances
    <3>1. /\ run' = run
          /\ \E from, to \in Points :
                Goto(i, from, to) /\ Place(from) < Place(to)
      <4> USE Places DEF Points
      <4>1. CASE Register(i) BY <4>1 DEF Register
      <4>2. CASE Create(i) BY <4>2 DEF Create, Fail
      <4>3. CASE Start(i) BY <4>3 DEF Start, Fail
      <4>4. CASE PollHealthy(i) BY <4>4 DEF PollHealthy
      <4>5. CASE PollFails(i) BY <4>5 DEF PollFails, Fail
      <4>6. CASE Timeout(i) BY <4>6 DEF Timeout
      <4>7. CASE Mark(i) BY <4>7 DEF Mark
      <4> QED BY <2>3, <4>1, <4>2, <4>3, <4>4, <4>5, <4>6, <4>7 DEF Worker
    <3> QED BY <3>1 DEF Goto, Advances
  <2> QED BY <2>1, <2>2, <2>3 DEF Next, Caller
<1> QED BY <1>1, TypeCorrect, PTL DEF Spec
=============================================================================
