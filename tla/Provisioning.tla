---------------------------- MODULE Provisioning ----------------------------
(***************************************************************************)
(* `sedona provision`: the command of cli/internal/adapter/cli/client.go   *)
(* over provision.Service.Provision, which composes Cleanup, ImageBuilder  *)
(* and ContainerRunner.                                                    *)
(*                                                                         *)
(* The main goroutine clears, resolves, makes the network and launches a   *)
(* background goroutine that builds and then runs. It then waits, first    *)
(* for BuildingImages and then for StartingImages to be all true, by       *)
(* tickers that read the maps without the lock. A watcher goroutine ends   *)
(* the process on an error of the background, for as long as the context   *)
(* it finds in the shared variable ctxWithCancel is not cancelled.         *)
(***************************************************************************)
EXTENDS Naturals, FiniteSets

CONSTANTS Images, Tagged, Checked, Terminals, WebUI, MayFail, None,
          Old,      \* the containers an earlier command left
          MaxFaults \* bound: how often calls of Clear and for the network fail

ASSUME ProvisioningAssumption ==
    /\ IsFiniteSet(Old) /\ IsFiniteSet(Images)
    /\ Old \cap Images = {}
    /\ Tagged \cup Checked \cup Terminals \cup WebUI \subseteq Images
    /\ None \notin Old \cup Images
    /\ MayFail \in BOOLEAN
    /\ MaxFaults \in Nat

VARIABLES
    clear, toClear, current, faults,                            \* Cleanup
    build, BuildingImages, pc, err, groupErr,                   \* ImageBuilder
    run, StartingImages, rpc, runErr, imageToConnect,           \* ContainerRunner
    OpenUrl, OpenTerminal, sawHealthy,
    container, health, imageStore, network,                     \* Docker
    process,   \* "up", or how the process ended
    ctl,       \* where the main goroutine is
    bg,        \* where the background goroutine of Provision is
    errors,    \* how many errors are in the channel Errors
    ctx,       \* the context in the variable ctxWithCancel
    cancelled, \* the contexts that have been cancelled
    wg,        \* the counter of the WaitGroup of each wait
    ticker,    \* whether the ticker goroutine of each wait is alive
    watch,     \* the context the watcher's select waits on, or "loop", "gone"
    opened,    \* the page that was opened in the browser
    terminal   \* the container that a terminal was opened in

Containers == Old \cup Images

C == INSTANCE Cleanup
B == INSTANCE ImageBuilder
R == INSTANCE ContainerRunner

cliVars == <<ctl, bg, errors, ctx, cancelled, wg, ticker, watch, opened, terminal>>
clearVars == <<clear, toClear, current>>
buildVars == <<build, BuildingImages, pc, err, groupErr>>
runVars == <<run, StartingImages, rpc, runErr, imageToConnect, OpenUrl,
             OpenTerminal, sawHealthy>>
dockerVars == <<container, health, imageStore, network>>
vars == <<clearVars, faults, buildVars, runVars, dockerVars, process, cliVars>>

\* The command's own context, and the two derived while it waits.
Contexts == {"given", "first", "second"}

Waits == {"images", "containers"}

TypeOK ==
    /\ C!TypeOK /\ B!TypeOK /\ R!TypeOK
    /\ ctl \in {"clear", "resolve", "getNetwork", "createNetwork", "launch",
                "derive", "images", "deriveAgain", "containers", "browser",
                "terminal", "returned"}
    /\ bg \in {"idle", "build", "run", "done"}
    /\ errors \in 0..2
    /\ ctx \in Contexts /\ cancelled \subseteq Contexts
    /\ wg \in [Waits -> 0..1] /\ ticker \in [Waits -> BOOLEAN]
    /\ watch \in {"idle", "loop", "gone"} \cup Contexts
    /\ opened \in WebUI \cup {None} /\ terminal \in Terminals \cup {None}

Init ==
    /\ C!InitClear /\ C!Leftovers /\ faults = MaxFaults
    /\ B!Init
    /\ R!InitRun
    /\ \A i \in Images : container[i] = "none"
    /\ ctl = "clear" /\ bg = "idle" /\ errors = 0
    /\ ctx = "given" /\ cancelled = {}
    /\ wg = [w \in Waits |-> 1] /\ ticker = [w \in Waits |-> FALSE]
    /\ watch = "idle" /\ opened = None /\ terminal = None
-----------------------------------------------------------------------------
(* Provision, in the main goroutine.                                       *)

At(point) == process = "up" /\ ctl = point

\* Run returns early, and with it main.
Abort == process' = "exited" /\ ctl' = "returned"

Others == <<runVars, buildVars, health, imageStore>>

\* Clear, as the first step of Provision: a step of it, or what follows it.
Clear ==
    /\ At("clear")
    /\ C!ClearStep
    /\ UNCHANGED <<Others, cliVars>>

\* Mutant: the error of Clear is not looked at.
ClearReturnedUnchecked ==
    /\ At("clear")
    /\ clear \in {"nil", "error"}
    /\ ctl' = "resolve"
    /\ UNCHANGED <<clearVars, faults, Others, container, network, process, bg,
                   errors, ctx, cancelled, wg, ticker, watch, opened, terminal>>

ClearReturned ==
    /\ At("clear")
    /\ \/ clear = "nil" /\ ctl' = "resolve" /\ UNCHANGED process
       \/ clear = "error" /\ Abort
    /\ UNCHANGED <<clearVars, faults, Others, container, network, bg, errors,
                   ctx, cancelled, wg, ticker, watch, opened, terminal>>

\* Resolve finds the configuration, or fails on a chapter that has none, or
\* panics on a sub-chapter that is not one of its sections.
Resolve ==
    /\ At("resolve")
    /\ \/ ctl' = "getNetwork" /\ UNCHANGED process
       \/ Abort
       \/ process' = "panicked" /\ UNCHANGED ctl
    /\ UNCHANGED <<clearVars, faults, Others, container, network, bg, errors,
                   ctx, cancelled, wg, ticker, watch, opened, terminal>>

\* CreateOrGetNetwork: GetNetworkID first, CreateNetwork if there is none.
GetNetwork ==
    /\ At("getNetwork")
    /\ \/ /\ ctl' = IF network THEN "launch" ELSE "createNetwork"
          /\ UNCHANGED <<process, faults>>
       \/ faults > 0 /\ faults' = faults - 1 /\ Abort
    /\ UNCHANGED <<clearVars, Others, container, network, bg, errors, ctx,
                   cancelled, wg, ticker, watch, opened, terminal>>

CreateNetwork ==
    /\ At("createNetwork")
    /\ \/ /\ network' = TRUE
          /\ ctl' = "launch"
          /\ UNCHANGED <<process, faults>>
       \/ faults > 0 /\ faults' = faults - 1 /\ Abort /\ UNCHANGED network
    /\ UNCHANGED <<clearVars, Others, container, bg, errors, ctx, cancelled,
                   wg, ticker, watch, opened, terminal>>

ServiceVars == <<clearVars, faults, Others, container, network>>

\* Provision starts the background goroutine and returns, the command starts
\* the watcher.
Launch ==
    /\ At("launch")
    /\ bg' = "build"
    /\ watch' = "loop"
    /\ ctl' = "derive"
    /\ UNCHANGED <<ServiceVars, process, errors, ctx, cancelled, wg, ticker, opened,
                   terminal>>
-----------------------------------------------------------------------------
(* The two waits of the command.                                           *)

\* Mutant: the context of the wait replaces the one before, which is cancelled.
DeriveCancels ==
    /\ At("derive")
    /\ ctx' = "first"
    /\ cancelled' = cancelled \cup {ctx}
    /\ ticker' = [ticker EXCEPT !["images"] = TRUE]
    /\ ctl' = "images"
    /\ UNCHANGED <<ServiceVars, process, bg, errors, wg, watch, opened, terminal>>

\* ctxWithCancel becomes a child of the context the watcher was given.
Derive ==
    /\ At("derive")
    /\ ctx' = "first"
    /\ ticker' = [ticker EXCEPT !["images"] = TRUE]
    /\ ctl' = "images"
    /\ UNCHANGED <<ServiceVars, process, bg, errors, cancelled, wg, watch, opened, terminal>>

\* waitImagesToBeReady returns and its context is cancelled.
ImagesReady ==
    /\ At("images")
    /\ wg["images"] = 0
    /\ cancelled' = cancelled \cup {"first"}
    /\ ctl' = "deriveAgain"
    /\ UNCHANGED <<ServiceVars, process, bg, errors, ctx, wg, ticker, watch, opened, terminal>>

\* ctxWithCancel becomes a child of the background context.
DeriveAgain ==
    /\ At("deriveAgain")
    /\ ctx' = "second"
    /\ ticker' = [ticker EXCEPT !["containers"] = TRUE]
    /\ ctl' = "containers"
    /\ UNCHANGED <<ServiceVars, process, bg, errors, cancelled, wg, watch, opened, terminal>>

\* waitContainersToBeReady returns; "Containers started successfully."
ContainersReady ==
    /\ At("containers")
    /\ wg["containers"] = 0
    /\ cancelled' = cancelled \cup {"second"}
    /\ ctl' = "browser"
    /\ UNCHANGED <<ServiceVars, process, bg, errors, ctx, wg, ticker, watch, opened, terminal>>

OpenBrowser ==
    /\ At("browser")
    /\ opened' = OpenUrl
    /\ ctl' = "terminal"
    /\ UNCHANGED <<ServiceVars, process, bg, errors, ctx, cancelled, wg, ticker,
                   watch, terminal>>

\* The terminal, if there is one by now; then Run and main return.
OpenTerminalAndReturn ==
    /\ At("terminal")
    /\ terminal' = OpenTerminal
    /\ Abort
    /\ UNCHANGED <<ServiceVars, bg, errors, ctx, cancelled, wg, ticker, watch, opened>>

Main ==
    \/ Clear \/ ClearReturned \/ Resolve \/ GetNetwork \/ CreateNetwork \/ Launch
    \/ Derive \/ ImagesReady \/ DeriveAgain \/ ContainersReady
    \/ OpenBrowser \/ OpenTerminalAndReturn
-----------------------------------------------------------------------------
(* The ticker goroutines of the two waits.                                 *)

Status(w) == IF w = "images" THEN BuildingImages ELSE StartingImages

\* Mutant: the wait ends when one status is true.
SomeTrue(w) == \E i \in Images : Status(w)[i] = "true"

\* getReadyContainers(request) = len(map): so it is also for an empty map.
AllTrue(w) == \A i \in Images : Status(w)[i] \in {"absent", "true"}

\* wg.Done(), which panics when the counter is 0 already.
Tick(w) ==
    /\ process = "up"
    /\ ticker[w]
    /\ AllTrue(w)
    /\ IF wg[w] = 1
       THEN wg' = [wg EXCEPT ![w] = 0] /\ UNCHANGED process
       ELSE process' = "panicked" /\ UNCHANGED wg
    /\ UNCHANGED <<ServiceVars, ctl, bg, errors, ctx, cancelled, ticker, watch,
                   opened, terminal>>

\* The deferred cancel of the wait reaches the ticker's select.
TickerStops(w) ==
    /\ process = "up"
    /\ ticker[w]
    /\ ctl # w
    /\ ticker' = [ticker EXCEPT ![w] = FALSE]
    /\ UNCHANGED <<ServiceVars, process, ctl, bg, errors, ctx, cancelled, wg, watch,
                   opened, terminal>>

\* A goroutine is about to write the map of this wait.
Writing(w) ==
    IF w = "images"
    THEN build = "register" \/ \E i \in Tagged : pc[i] = "mark"
    ELSE \E i \in Images : rpc[i] \in {"register", "healthy", "timedOut"}

\* The ticker, or the animation beside it, iterates over the map while it is
\* written: the Go runtime may detect it and end the process.
MapRace(w) ==
    /\ process = "up"
    /\ ticker[w]
    /\ Writing(w)
    /\ process' = "panicked"
    /\ UNCHANGED <<ServiceVars, cliVars>>
-----------------------------------------------------------------------------
(* The watcher goroutine.                                                  *)

\* The select evaluates ctxWithCancel.Done() as it is entered.
WatchEnter ==
    /\ process = "up"
    /\ watch = "loop"
    /\ watch' = ctx
    /\ UNCHANGED <<ServiceVars, process, ctl, bg, errors, ctx, cancelled, wg, ticker,
                   opened, terminal>>

WatchDone ==
    /\ process = "up"
    /\ watch \in cancelled
    /\ watch' = "gone"
    /\ UNCHANGED <<ServiceVars, process, ctl, bg, errors, ctx, cancelled, wg, ticker,
                   opened, terminal>>

\* Mutant: any wake-up of the select is taken for an error.
WatchErrorSpurious ==
    /\ process = "up"
    /\ watch \in Contexts
    /\ errors' = errors - 1
    /\ cancelled' = cancelled \cup {ctx}
    /\ process' = "exited"
    /\ UNCHANGED <<ServiceVars, ctl, bg, ctx, wg, ticker, watch, opened, terminal>>

\* An error: cancel() and os.Exit(0).
WatchError ==
    /\ process = "up"
    /\ watch \in Contexts
    /\ errors > 0
    /\ errors' = errors - 1
    /\ cancelled' = cancelled \cup {ctx}
    /\ process' = "exited"
    /\ UNCHANGED <<ServiceVars, ctl, bg, ctx, wg, ticker, watch, opened, terminal>>

\* Mutant: the select is not in a loop.
WatchOnce ==
    /\ process = "up"
    /\ watch \in Contexts
    /\ watch' = "gone"
    /\ UNCHANGED <<ServiceVars, process, ctl, bg, errors, ctx, cancelled, wg, ticker,
                   opened, terminal>>

\* A second has passed.
WatchTick ==
    /\ process = "up"
    /\ watch \in Contexts
    /\ watch' = "loop"
    /\ UNCHANGED <<ServiceVars, process, ctl, bg, errors, ctx, cancelled, wg, ticker,
                   opened, terminal>>

Watcher == WatchEnter \/ WatchDone \/ WatchError \/ WatchTick
-----------------------------------------------------------------------------
(* The background goroutine of Provision.                                  *)

RestOfRun == <<clearVars, faults, runVars, container, health, network>>

Builder(step) == bg = "build" /\ step /\ UNCHANGED <<RestOfRun, cliVars>>

RestOfBuild == <<clearVars, faults, buildVars>>

Runner(step) == bg = "run" /\ step /\ UNCHANGED <<RestOfBuild, cliVars>>

Background(from, to, failed) ==
    /\ process = "up"
    /\ bg = from
    /\ bg' = to
    /\ errors' = IF failed THEN errors + 1 ELSE errors
    /\ UNCHANGED <<ServiceVars, process, ctl, ctx, cancelled, wg, ticker, watch,
                   opened, terminal>>

\* Mutant: the return after `errorsChan <- err` is missing.
BuildReturnedUnchecked ==
    \/ build = "nil" /\ Background("build", "run", FALSE)
    \/ build = "error" /\ Background("build", "run", TRUE)

\* Build returned: its error goes to the channel, nil starts the containers.
BuildReturned ==
    \/ build = "nil" /\ Background("build", "run", FALSE)
    \/ build = "error" /\ Background("build", "done", TRUE)

RunReturned ==
    \/ run = "nil" /\ Background("run", "done", FALSE)
    \/ run = "error" /\ Background("run", "done", TRUE)

\* Once the process has ended nothing of it sees the daemon any more.
Daemon ==
    /\ process = "up"
    /\ R!Docker
    /\ UNCHANGED <<RestOfBuild, cliVars>>

Next ==
    \/ Main \/ Watcher
    \/ \E w \in Waits : Tick(w) \/ TickerStops(w) \/ MapRace(w)
    \/ Builder(B!Caller) \/ \E i \in Tagged : Builder(B!Worker(i))
    \/ Runner(R!Caller) \/ \E i \in Images : Runner(R!Worker(i))
    \/ BuildReturned \/ RunReturned
    \/ Daemon

Spec == Init /\ [][Next]_vars

\* Go schedules every goroutine, every call to the daemon returns, and timers
\* fire. The watcher's select finds an error that waits before its own next
\* timer can fire, so it does not pass the error over for ever.
FairSpec ==
    /\ Spec
    /\ WF_vars(Main)
    /\ WF_vars(Watcher) /\ SF_vars(WatchError)
    /\ \A w \in Waits : WF_vars(Tick(w)) /\ WF_vars(TickerStops(w))
    /\ WF_vars(Builder(B!Caller)) /\ WF_vars(BuildReturned)
    /\ \A i \in Tagged : WF_vars(Builder(B!Worker(i)))
    /\ WF_vars(Runner(R!Caller)) /\ WF_vars(RunReturned)
    /\ \A i \in Images : WF_vars(Runner(R!Progress(i)))
-----------------------------------------------------------------------------
(* Properties.                                                             *)

\* While the new environment has a container, nothing of the old one runs, the
\* network is there and the build has succeeded: one environment at a time.
CleanSlate ==
    (\E i \in Images : container[i] # "none") =>
        /\ \A o \in Old : container[o] # "running"
        /\ network
        /\ build = "nil"

\* The background sends one error at most, as the last thing it does, for the
\* stage that failed: the channel has room and the error is not sent twice.
OneError ==
    errors > 0 => /\ errors = 1
                  /\ bg = "done"
                  /\ build = "error" \/ run = "error"

\* The watcher is there for as long as the command waits for the images,
\* whichever context it has found in the variable.
WatchedWhileBuilding == ctl = "images" => watch # "gone"

\* Once a stage has failed, the wait for that stage does not end by itself: the
\* failure is never reported as "Containers started successfully".
FailureHoldsWait ==
    [][/\ build = "error" /\ wg["images"] = 1 => wg'["images"] = 1
       /\ run = "error" /\ wg["containers"] = 1 => wg'["containers"] = 1]_vars

\* A build that fails while the command waits for it ends the process.
BuildErrorExits ==
    (errors > 0 /\ build = "error" /\ ctl = "images" /\ wg["images"] = 1)
        ~> process # "up"

\* RunContainers has failed, and the watcher ended with the wait for the images:
\* nobody reads the error while the command waits for the containers.
UnreadError == run = "error" /\ errors = 1 /\ watch = "gone" /\ ctl = "containers"

\* An image has failed to build, and Build has answered nil: the error was
\* overwritten in the shared err. The command waits for the image for ever, with
\* its containers running, or not.
MaskedError ==
    build = "nil" /\ ctl = "images" /\ \E i \in Tagged : BuildingImages[i] = "false"

\* If every image has a tag, the command comes to an end, or waits for ever in one
\* of the two ways in which a failure is lost. In all other behaviours a failure
\* reaches the watcher, and a success both waits.
StuckOnlyByLostFailure == <>[](process # "up" \/ UnreadError \/ MaskedError)

\* No call fails, no container exits, and the store has every image from the start.
NothingFails ==
    /\ imageStore = Images
    /\ [](err = "nil" /\ run # "error" /\ \A i \in Images : container[i] # "exited")

\* The first wait does not end before the images are registered.
NoEarlyTick == [](wg["images"] = 0 => \A i \in Images : BuildingImages[i] # "absent")

\* "When you are running the cli examples the jupyter notebook will be
\* automatically opened in your default browser" (README.md:59): if no call fails
\* and the first wait is one for all images, the command opens the page or ends;
\* it does not wait for ever.
NotebookOpens == (NothingFails /\ NoEarlyTick) => <>(opened # None \/ process # "up")

\* The handover of the machine from the old environment to the new one.
H == INSTANCE Handover WITH
        New <- Images,
        stage <- IF process # "up" THEN "ended"
                 ELSE IF ctl = "clear" /\ clear # "nil" THEN "leaving"
                 ELSE "entering",
        running <- {c \in Containers : container[c] = "running"},
        started <- {i \in Images : container[i] \in {"running", "exited", "removed"}}

\* Provisioning implements Handover.
HandsOver == H!Spec

\* What the command and the background goroutine let each other know.
P == INSTANCE Progress WITH
        building <- BuildingImages,
        built <- IF build \in {"nil", "error"} THEN build ELSE "none",
        starting <- StartingImages,
        ran <- IF run \in {"nil", "error"} THEN run ELSE "none",
        reported <- bg = "done" /\ (build = "error" \/ run = "error"),
        over <- {w \in Waits : wg[w] = 0}

\* Provisioning implements Progress: the second map is not touched before the
\* build has answered nil, one error is sent for the stage that failed, and a
\* wait ends only while no image that its map knows of is unready, the second
\* one after the first.
ReportsProgress == P!Spec
=============================================================================
