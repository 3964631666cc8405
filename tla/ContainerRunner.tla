-------------------------- MODULE ContainerRunner --------------------------
(***************************************************************************)
(* run.Service.RunContainers (cli/internal/service/run/service.go) over    *)
(* the Docker daemon as container.Container calls it.                      *)
(*                                                                         *)
(* One errgroup goroutine per requested image creates and starts a         *)
(* container and polls its health until it is healthy, the inspection      *)
(* fails or 120 seconds have passed. The container of image i is written   *)
(* i: every request creates one, and it has no name that could collide.    *)
(***************************************************************************)
EXTENDS FiniteSets

CONSTANTS Images,     \* the image names of request.Images
          Containers, \* all containers labelled app=sedona
          Checked,    \* the images whose container has a health check
          Terminals,  \* the image with OpenTerminal, if there is one
          WebUI,      \* the images whose OpenWebUI has a path
          MayFail,    \* whether a call to the daemon may fail for its own reasons
          None        \* nil, or the empty container id

ASSUME RunAssumption ==
    /\ IsFiniteSet(Images)
    /\ Images \subseteq Containers
    /\ Checked \cup Terminals \cup WebUI \subseteq Images
    /\ None \notin Images
    /\ MayFail \in BOOLEAN

ASSUME TerminalAssumption == \A i, j \in Terminals : i = j

Statuses == {"absent", "false", "true"}

Points == {"idle", "register", "create", "start", "poll",
           "healthy", "timedOut", "nil", "error"}

VARIABLES
    run,            \* where RunContainers is, or what it returned
    StartingImages, \* the status map of dto.StartContainersRequest
    rpc,            \* where the goroutine of each image is
    runErr,         \* whether a goroutine returned an error to the errgroup
    imageToConnect, \* the container a terminal would be opened in
    OpenUrl,        \* request.OpenUrl, by the image it was taken from
    OpenTerminal,   \* request.OpenTerminal, by the container it opens
    container,      \* the daemon: what has become of each container
    health,         \* the daemon: the status of each health check
    sawHealthy,     \* the images for which IsHealthy has answered true
    imageStore,     \* the daemon: the images it holds
    network,        \* the daemon: whether the sedona network exists
    process         \* "up", or how the process ended

runVars == <<run, StartingImages, rpc, runErr, imageToConnect, OpenUrl,
             OpenTerminal, sawHealthy>>
dockerVars == <<container, health, imageStore, network>>
vars == <<runVars, dockerVars, process>>

TypeOK ==
    /\ run \in {"idle", "wait", "nil", "error"}
    /\ StartingImages \in [Images -> Statuses]
    /\ rpc \in [Images -> Points]
    /\ runErr \in BOOLEAN
    /\ imageToConnect \in Terminals \cup {None}
    /\ OpenUrl \in WebUI \cup {None}
    /\ OpenTerminal \in Terminals \cup {None}
    /\ container \in [Containers -> {"none", "created", "running", "exited", "removed"}]
    /\ health \in [Images -> {"none", "starting", "healthy", "unhealthy"}]
    /\ sawHealthy \subseteq Images
    /\ imageStore \subseteq Images
    /\ network \in BOOLEAN
    /\ process \in {"up", "panicked", "exited"}

InitRun ==
    /\ run = "idle"
    /\ StartingImages = [i \in Images |-> "absent"]
    /\ rpc = [i \in Images |-> "idle"]
    /\ runErr = FALSE
    /\ imageToConnect = None
    /\ OpenUrl = None
    /\ OpenTerminal = None
    /\ health = [i \in Images |-> "none"]
    /\ sawHealthy = {}

\* Alone, RunContainers is called on whatever images were built, with the
\* network that CreateOrGetNetwork returned and no container yet.
Init ==
    /\ InitRun
    /\ container = [c \in Containers |-> "none"]
    /\ imageStore \in SUBSET Images
    /\ network = TRUE
    /\ process = "up"
-----------------------------------------------------------------------------
(* RunContainers, outside the goroutines.                                  *)

\* Mutant: RunContainers resolves the URL elsewhere, after the goroutines.
CallRunWithoutUrl ==
    /\ process = "up"
    /\ run = "idle"
    /\ run' = "wait"
    /\ rpc' = [i \in Images |-> "register"]
    /\ UNCHANGED <<StartingImages, runErr, imageToConnect, OpenUrl,
                   OpenTerminal, sawHealthy, dockerVars, process>>

\* OpenUrl is the first non-empty path; request.Images is in map order.
CallRun ==
    /\ process = "up"
    /\ run = "idle"
    /\ run' = "wait"
    /\ OpenUrl' \in IF WebUI = {} THEN {None} ELSE WebUI
    /\ rpc' = [i \in Images |-> "register"]
    /\ UNCHANGED <<StartingImages, runErr, imageToConnect, OpenTerminal,
                   sawHealthy, dockerVars, process>>

AllReturned == \A i \in Images : rpc[i] \in {"nil", "error"}

\* errGroup.Wait(), and the terminal to open if there is one.
FinishRun ==
    /\ process = "up"
    /\ run = "wait"
    /\ AllReturned
    /\ run' = IF runErr THEN "error" ELSE "nil"
    /\ OpenTerminal' = IF runErr THEN None ELSE imageToConnect
    /\ UNCHANGED <<StartingImages, rpc, runErr, imageToConnect, OpenUrl,
                   sawHealthy, dockerVars, process>>
-----------------------------------------------------------------------------
(* The goroutine of image i.                                               *)

Goto(i, from, to) ==
    /\ process = "up"
    /\ rpc[i] = from
    /\ rpc' = [rpc EXCEPT ![i] = to]

\* The goroutine returns a non-nil error, which the errgroup keeps.
Fail(i, from) == Goto(i, from, "error") /\ runErr' = TRUE

\* UpdateContainerStatus(image.Image, false).
Register(i) ==
    /\ Goto(i, "register", "create")
    /\ StartingImages' = [StartingImages EXCEPT ![i] = "false"]
    /\ UNCHANGED <<run, runErr, imageToConnect, OpenUrl, OpenTerminal,
                   sawHealthy, dockerVars, process>>

\* ContainerCreate needs the image, and may fail for reasons of the daemon's.
Create(i) ==
    /\ \/ /\ i \in imageStore
          /\ Goto(i, "create", "start")
          /\ container' = [container EXCEPT ![i] = "created"]
          /\ UNCHANGED runErr
       \/ /\ i \notin imageStore \/ MayFail
          /\ Fail(i, "create")
          /\ UNCHANGED container
    /\ UNCHANGED <<run, StartingImages, imageToConnect, OpenUrl, OpenTerminal,
                   sawHealthy, health, imageStore, network, process>>

\* Mutant: the error of ContainerStart is dropped.
StartUnchecked(i) ==
    /\ Goto(i, "start", "poll")
    /\ \/ /\ container[i] = "created"
          /\ network
          /\ container' = [container EXCEPT ![i] = "running"]
       \/ UNCHANGED container
    /\ UNCHANGED <<run, StartingImages, runErr, imageToConnect, OpenUrl,
                   OpenTerminal, sawHealthy, health, imageStore, network, process>>

\* Mutant: the status is set as soon as the container has started.
StartMarks(i) ==
    /\ container[i] = "created"
    /\ Goto(i, "start", "poll")
    /\ container' = [container EXCEPT ![i] = "running"]
    /\ StartingImages' = [StartingImages EXCEPT ![i] = "true"]
    /\ UNCHANGED <<run, runErr, imageToConnect, OpenUrl, OpenTerminal,
                   sawHealthy, health, imageStore, network, process>>

\* ContainerStart needs the network and free ports. A container that does not
\* start stays behind as created: nothing removes it.
Start(i) ==
    /\ \/ /\ container[i] = "created"
          /\ network
          /\ Goto(i, "start", "poll")
          /\ container' = [container EXCEPT ![i] = "running"]
          /\ health' = [health EXCEPT ![i] = IF i \in Checked THEN "starting"
                                                              ELSE "none"]
          /\ UNCHANGED runErr
       \/ /\ container[i] # "created" \/ ~network \/ MayFail
          /\ Fail(i, "start")
          /\ UNCHANGED <<container, health>>
    /\ UNCHANGED <<run, StartingImages, imageToConnect, OpenUrl, OpenTerminal,
                   sawHealthy, imageStore, network, process>>

\* What IsHealthy makes of the inspected state.
IsHealthy(i) == IF health[i] = "none" THEN container[i] = "running"
                                      ELSE health[i] = "healthy"

\* WaitUntilHealthy: a tick whose IsHealthy answers true.
PollHealthy(i) ==
    /\ container[i] # "removed"
    /\ IsHealthy(i)
    /\ Goto(i, "poll", "healthy")
    /\ sawHealthy' = sawHealthy \cup {i}
    /\ UNCHANGED <<run, StartingImages, runErr, imageToConnect, OpenUrl,
                   OpenTerminal, dockerVars, process>>

\* A tick whose inspection fails, be it that the deadline passes meanwhile:
\* ctxWithTimeout is also the context of the inspection.
PollFails(i) ==
    /\ Fail(i, "poll")
    /\ UNCHANGED <<run, StartingImages, imageToConnect, OpenUrl, OpenTerminal,
                   sawHealthy, dockerVars, process>>

\* Mutant: the wait has no deadline of its own.
TimeoutNever(i) ==
    /\ IsHealthy(i)
    /\ Goto(i, "poll", "timedOut")
    /\ UNCHANGED <<run, StartingImages, runErr, imageToConnect, OpenUrl,
                   OpenTerminal, sawHealthy, dockerVars, process>>

\* Mutant: a goroutine whose wait timed out returns nil and marks nothing.
TimeoutReturns(i) ==
    /\ Goto(i, "poll", "nil")
    /\ UNCHANGED <<run, StartingImages, runErr, imageToConnect, OpenUrl,
                   OpenTerminal, sawHealthy, dockerVars, process>>

\* HealthCheckTimeout: (false, nil), which startContainer returns as ("", nil).
\* It may come before, with or after the tick that would have been healthy.
Timeout(i) ==
    /\ Goto(i, "poll", "timedOut")
    /\ UNCHANGED <<run, StartingImages, runErr, imageToConnect, OpenUrl,
                   OpenTerminal, sawHealthy, dockerVars, process>>

\* Mutant: the status becomes a value the map cannot hold.
MarkDone(i) ==
    /\ \/ Goto(i, "healthy", "nil")
       \/ Goto(i, "timedOut", "nil")
    /\ StartingImages' = [StartingImages EXCEPT ![i] = "done"]
    /\ UNCHANGED <<run, runErr, imageToConnect, OpenUrl, OpenTerminal,
                   sawHealthy, dockerVars, process>>

\* Mutant: the terminal takes the container's id whatever the wait said.
MarkConnects(i) ==
    /\ \/ Goto(i, "healthy", "nil")
       \/ Goto(i, "timedOut", "nil")
    /\ StartingImages' = [StartingImages EXCEPT ![i] = "true"]
    /\ imageToConnect' = IF i \in Terminals THEN i ELSE imageToConnect
    /\ UNCHANGED <<run, runErr, OpenUrl, OpenTerminal, sawHealthy, dockerVars,
                   process>>

\* UpdateContainerStatus(image.Image, true), then imageToConnect: the id, or
\* the empty one when the wait timed out. Nobody reads imageToConnect before
\* the goroutine has returned, and no chapter has a second writer of it.
Mark(i) ==
    /\ \/ Goto(i, "healthy", "nil")
       \/ Goto(i, "timedOut", "nil")
    /\ StartingImages' = [StartingImages EXCEPT ![i] = "true"]
    /\ imageToConnect' = IF i \notin Terminals THEN imageToConnect
                         ELSE IF rpc[i] = "healthy" THEN i ELSE None
    /\ UNCHANGED <<run, runErr, OpenUrl, OpenTerminal, sawHealthy, dockerVars,
                   process>>

Worker(i) ==
    \/ Register(i) \/ Create(i) \/ Start(i)
    \/ PollHealthy(i) \/ PollFails(i) \/ Timeout(i) \/ Mark(i)
-----------------------------------------------------------------------------
(* The daemon and the programs in the containers.                          *)

ProbeResult(i) ==
    /\ container[i] = "running"
    /\ health[i] # "none"
    /\ \E s \in {"healthy", "unhealthy"} \ {health[i]} :
          health' = [health EXCEPT ![i] = s]
    /\ UNCHANGED <<runVars, container, imageStore, network, process>>

ContainerExits(c) ==
    /\ container[c] = "running"
    /\ container' = [container EXCEPT ![c] = "exited"]
    /\ UNCHANGED <<runVars, health, imageStore, network, process>>

Docker ==
    \/ \E i \in Images : ProbeResult(i)
    \/ \E c \in Containers : ContainerExits(c)

Caller == CallRun \/ FinishRun

Next == Caller \/ Docker \/ \E i \in Images : Worker(i)

Spec == Init /\ [][Next]_vars

\* What the goroutine of i does when no call of its own fails for no reason.
Progress(i) ==
    \/ Register(i) \/ Create(i) \/ Start(i)
    \/ PollHealthy(i) \/ Timeout(i) \/ Mark(i)

\* Goroutines are scheduled, calls to the daemon return, and the wait for a
\* container's health ends by its timeout at the latest. Nothing is assumed of
\* the containers: they may never become healthy.
FairSpec == Spec /\ WF_vars(Caller) /\ \A i \in Images : WF_vars(Progress(i))
-----------------------------------------------------------------------------
(* Properties.                                                             *)

AllStarted == \A i \in Images : StartingImages[i] = "true"

\* When RunContainers returns an error, some image is not marked ready: the
\* CLI's second wait, which ends when all are, does not end.
FailedRunBlocksReady ==
    run = "error" => \E i \in Images : StartingImages[i] # "true"

\* When it returns nil, every image is marked ready, healthy or not: the loop
\* of tests/integration/container/service_test.go:89 ends.
NilMeansAllStarted == run = "nil" => AllStarted

Board == INSTANCE StatusBoard WITH
            Worked <- Images, Exact <- TRUE,
            statuses <- StartingImages,
            answer <- IF run \in {"nil", "error"} THEN run ELSE "none"

\* RunContainers implements StatusBoard: its goroutines register and mark in
\* any order, a failed one leaves its status at false for good, none of them
\* writes the map once RunContainers has answered, and nil means that all are
\* marked, as the loop of tests/integration/container/service_test.go:89 takes it.
KeepsBoard == Board!Spec

\* A terminal is opened only once all images are ready, and in a container
\* that the health check has answered for: the id of one that timed out, which
\* is marked ready all the same, never comes to imageToConnect.
TerminalIsHealthy ==
    OpenTerminal # None => OpenTerminal \in sawHealthy /\ AllStarted

\* A container that was created and never started is left only by a goroutine
\* that returned an error: after a nil result each one has been running.
OnlyFailuresLeaveCreated ==
    \A i \in Images :
        container[i] = "created" => rpc[i] \in {"start", "error"}

\* Whoever sees a status in StartingImages finds the URL already resolved.
UrlBeforeStatus ==
    WebUI # {} /\ (\E i \in Images : StartingImages[i] # "absent")
        => OpenUrl # None

\* RunContainers returns, whether or not the containers become healthy.
RunReturns == <>(run \in {"nil", "error"})

\* The integration test asks the notebook for 200 as soon as every image is
\* ready (service_test.go:33): ready means that the health check said so.
ReadyMeansHealthy ==
    \A i \in Images : StartingImages[i] = "true" => i \in sawHealthy
=============================================================================
