------------------------- MODULE ProvisioningProofs -------------------------
(***************************************************************************)
(* The provision command for every chapter and whatever an earlier command *)
(* left: the stages of its goroutines, and what holds between them.        *)
(***************************************************************************)
EXTENDS Provisioning, TLAPS

\* What each of the composed components does in a step of the command.
LEMMA Steps ==
    Next => \/ Clear \/ ClearReturned \/ Resolve \/ GetNetwork \/ CreateNetwork
            \/ Launch \/ Derive \/ ImagesReady \/ DeriveAgain \/ ContainersReady
            \/ OpenBrowser \/ OpenTerminalAndReturn
            \/ WatchEnter \/ WatchDone \/ WatchError \/ WatchTick
            \/ \E w \in Waits : Tick(w) \/ TickerStops(w) \/ MapRace(w)
            \/ Builder(B!Next) \/ Runner(R!Caller) \/ \E i \in Images : Runner(R!Worker(i))
            \/ BuildReturned \/ RunReturned
            \/ Daemon
BY DEF Next, Main, Watcher, Builder, Runner, B!Next

-----------------------------------------------------------------------------
(* Types.                                                                  *)

\* A step of the builder keeps the types of the builder.
LEMMA BuilderTypes ==
  ASSUME B!TypeOK, B!Next PROVE B!TypeOK'
<1> USE ProvisioningAssumption DEF B!TypeOK, B!Errors, B!Statuses, B!Points
<1>1. CASE B!Caller
  <2>1. CASE B!CallBuild BY <2>1 DEF B!CallBuild
  <2>2. CASE B!Spawn BY <2>2 DEF B!Spawn
  <2>3. CASE B!Finish BY <2>3 DEF B!Finish
  <2>4. ASSUME NEW i \in Images, B!Register(i) PROVE B!TypeOK'
    BY <2>4 DEF B!Register
  <2> QED BY <1>1, <2>1, <2>2, <2>3, <2>4 DEF B!Caller
<1>2. ASSUME NEW i \in Tagged, B!Worker(i) PROVE B!TypeOK'
  <2>1. CASE B!Exists(i) BY <2>1 DEF B!Exists, B!Goto
  <2>2. CASE B!CheckExists(i) BY <2>2 DEF B!CheckExists, B!Goto
  <2>3. CASE B!CheckNotFound(i) BY <2>3 DEF B!CheckNotFound, B!Goto
  <2>4. CASE B!BuildImage(i) BY <2>4 DEF B!BuildImage, B!Goto
  <2>5. CASE B!CheckBuild(i) BY <2>5 DEF B!CheckBuild, B!Goto
  <2>6. CASE B!Report(i) BY <2>6 DEF B!Report
  <2>7. CASE B!Return(i) BY <2>7 DEF B!Return, B!Goto
  <2>8. CASE B!Mark(i) BY <2>8 DEF B!Mark, B!Goto
  <2> QED BY <1>2, <2>1, <2>2, <2>3, <2>4, <2>5, <2>6, <2>7, <2>8 DEF B!Worker
<1> QED BY <1>1, <1>2 DEF B!Next

\* So does the goroutine of a container.
LEMMA RunnerTypes ==
  ASSUME R!TypeOK, NEW i \in Images, R!Worker(i) PROVE R!TypeOK'
<1> USE ProvisioningAssumption
    DEF R!TypeOK, R!Statuses, R!Points, R!dockerVars, R!Goto, R!Fail, Containers
<1>1. CASE R!Register(i) BY <1>1 DEF R!Register
<1>2. CASE R!Create(i)
  <2>0. \/ rpc' = [rpc EXCEPT ![i] = "start"] /\ UNCHANGED runErr
        \/ rpc' = [rpc EXCEPT ![i] = "error"] /\ runErr' = TRUE
    BY ONLY <1>2 DEF R!Create, R!Goto, R!Fail
  <2>1. rpc' \in [Images -> R!Points] /\ runErr' \in BOOLEAN
    <3>1. rpc' \in [Images -> R!Points]
      BY <2>0
    <3>2. runErr' \in BOOLEAN
      BY <2>0, Zenon
    <3> QED BY <3>1, <3>2
  <2>2. container' \in [Containers ->
                         {"none", "created", "running", "exited", "removed"}]
    BY <1>2 DEF R!Create
  <2> QED BY <1>2, <2>1, <2>2, Zenon DEF R!Create
<1>3. CASE R!Start(i)
  <2>1. /\ rpc' \in [Images -> R!Points]
        /\ runErr' \in BOOLEAN
    BY <1>3 DEF R!Start
  <2>2. container' \in [Containers ->
                         {"none", "created", "running", "exited", "removed"}]
    BY <1>3 DEF R!Start
  <2>3. health' \in [Images -> {"none", "starting", "healthy", "unhealthy"}]
    BY <1>3 DEF R!Start
  <2>4. process' \in {"up", "panicked", "exited"}
    BY <1>3 DEF R!Start
  <2> QED BY <1>3, <2>1, <2>2, <2>3, <2>4, Zenon DEF R!Start
<1>4. CASE R!PollHealthy(i) BY <1>4 DEF R!PollHealthy
<1>5. CASE R!PollFails(i) BY <1>5 DEF R!PollFails
<1>6. CASE R!Timeout(i) BY <1>6 DEF R!Timeout
<1>7. CASE R!Mark(i) BY <1>7 DEF R!Mark
<1> QED BY <1>1, <1>2, <1>3, <1>4, <1>5, <1>6, <1>7 DEF R!Worker

\* And so does a step of Clear.
LEMMA ClearTypes ==
  ASSUME C!TypeOK, C!ClearStep PROVE C!TypeOK'
<1> USE ProvisioningAssumption DEF C!TypeOK, C!Steps, C!At, C!CallFails, Containers
<1>1. CASE C!CallClear BY <1>1 DEF C!CallClear
<1>2. CASE C!List BY <1>2 DEF C!List
<1>3. CASE C!Kill BY <1>3 DEF C!Kill
<1>4. CASE C!Remove BY <1>4 DEF C!Remove
<1>5. CASE C!ListDone BY <1>5 DEF C!ListDone
<1>6. CASE C!GetNetwork BY <1>6 DEF C!GetNetwork
<1>7. CASE C!RemoveNetwork
  <2>1. network' \in BOOLEAN BY <1>7, Zenon DEF C!RemoveNetwork
  <2>2. clear' \in {"nil", "error"} /\ faults' \in 0..MaxFaults
    BY <1>7 DEF C!RemoveNetwork
  <2> QED BY <1>7, <2>1, <2>2 DEF C!RemoveNetwork
<1> QED BY <1>1, <1>2, <1>3, <1>4, <1>5, <1>6, <1>7 DEF C!ClearStep

\* The types of the command's own variables.
CliTypes ==
    /\ ctl \in {"clear", "resolve", "getNetwork", "createNetwork", "launch",
                "derive", "images", "deriveAgain", "containers", "browser",
                "terminal", "returned"}
    /\ bg \in {"idle", "build", "run", "done"}
    /\ errors \in 0..2
    /\ ctx \in Contexts /\ cancelled \subseteq Contexts
    /\ wg \in [Waits -> 0..1] /\ ticker \in [Waits -> BOOLEAN]
    /\ watch \in {"idle", "loop", "gone"} \cup Contexts
    /\ opened \in WebUI \cup {None} /\ terminal \in Terminals \cup {None}

\* The background goroutine does not exist before it is launched.
Beginning == {"clear", "resolve", "getNetwork", "createNetwork", "launch"}
NotLaunched == ctl \in Beginning => bg = "idle"

\* One error at most is sent, at the very end of the background goroutine.
SentLast ==
    /\ bg # "done" => errors = 0
    /\ errors # 0 => errors = 1 /\ (build = "error" \/ run = "error")

TypeInv == TypeOK /\ NotLaunched /\ SentLast


\* The steps of the command itself, in the goroutines of cli/client.go and of
\* Provision, which leave the variables of the services alone.
CommandStep ==
    \/ ClearReturned \/ Resolve
    \/ Launch \/ Derive \/ ImagesReady \/ DeriveAgain \/ ContainersReady
    \/ OpenBrowser \/ OpenTerminalAndReturn
    \/ WatchEnter \/ WatchDone \/ WatchError \/ WatchTick
    \/ \E w \in Waits : Tick(w) \/ TickerStops(w) \/ MapRace(w)
    \/ BuildReturned \/ RunReturned

\* Such a step changes nothing of the services and may end the process.
LEMMA CommandStepFrame ==
    CommandStep => UNCHANGED ServiceVars /\ process' \in {process, "exited", "panicked"}
<1> USE DEF ServiceVars, At, Abort
<1>1. ClearReturned \/ Resolve => UNCHANGED ServiceVars /\ process' \in {process, "exited", "panicked"}
  BY DEF ClearReturned, Resolve
<1>2. \/ Launch \/ Derive \/ ImagesReady \/ DeriveAgain \/ ContainersReady
      \/ OpenBrowser \/ OpenTerminalAndReturn
      => UNCHANGED ServiceVars /\ process' \in {process, "exited", "panicked"}
  BY DEF Launch, Derive, ImagesReady, DeriveAgain, ContainersReady, OpenBrowser,
         OpenTerminalAndReturn
<1>3. WatchEnter \/ WatchDone \/ WatchError \/ WatchTick
      => UNCHANGED ServiceVars /\ process' \in {process, "exited", "panicked"}
  BY DEF WatchEnter, WatchDone, WatchError, WatchTick
<1>4. ASSUME NEW w \in Waits, Tick(w) \/ TickerStops(w) \/ MapRace(w)
      PROVE  UNCHANGED ServiceVars /\ process' \in {process, "exited", "panicked"}
  BY <1>4 DEF Tick, TickerStops, MapRace
<1>5. BuildReturned \/ RunReturned
      => UNCHANGED ServiceVars /\ process' \in {process, "exited", "panicked"}
  BY DEF BuildReturned, RunReturned, Background
<1> QED BY <1>1, <1>2, <1>3, <1>4, <1>5 DEF CommandStep

\* Every step keeps the types of the services.
LEMMA ServiceTypes ==
  ASSUME C!TypeOK, B!TypeOK, R!TypeOK, [Next]_vars
  PROVE  C!TypeOK' /\ B!TypeOK' /\ R!TypeOK'
<1> USE DEF Others, clearVars, buildVars, runVars
\* What one service does is the daemon's state to another.
<1>1. ASSUME C!TypeOK', UNCHANGED <<Others>> PROVE B!TypeOK' /\ R!TypeOK'
  <2>1. B!TypeOK' BY <1>1 DEF B!TypeOK, C!TypeOK
  <2>2. R!TypeOK'
    BY <1>1 DEF R!TypeOK, C!TypeOK
  <2> QED BY <2>1, <2>2
<1>2. CASE UNCHANGED vars
  <2>1. C!TypeOK' BY <1>2 DEF C!TypeOK, vars, dockerVars
  <2> QED BY <2>1, <1>1, <1>2 DEF vars, dockerVars
<1>3. CASE CommandStep
  <2>1. C!TypeOK' BY <1>3, CommandStepFrame DEF C!TypeOK, ServiceVars
  <2> QED BY <2>1, <1>1, <1>3, CommandStepFrame DEF ServiceVars
<1>4. CASE Clear
  <2>1. C!TypeOK' BY <1>4, ClearTypes DEF Clear
  <2> QED BY <2>1, <1>1, <1>4 DEF Clear
<1>5. CASE GetNetwork
  <2>1. C!TypeOK'
    BY <1>5, ProvisioningAssumption DEF C!TypeOK, GetNetwork, At, Abort
  <2> QED BY <2>1, <1>1, <1>5 DEF GetNetwork
<1>6. CASE CreateNetwork
  <2>1. network' \in BOOLEAN
    BY <1>6, Zenon DEF CreateNetwork, C!TypeOK
  <2>2. /\ faults' \in 0..MaxFaults
        /\ process' \in {"up", "panicked", "exited"}
        /\ UNCHANGED <<clear, toClear, current, container>>
    BY <1>6, ProvisioningAssumption DEF C!TypeOK, CreateNetwork, At, Abort
  <2>3. C!TypeOK'
    BY <2>1, <2>2 DEF C!TypeOK
  <2> QED BY <2>3, <1>1, <1>6 DEF CreateNetwork
<1>7. CASE Builder(B!Next)
  <2>1. B!TypeOK' BY <1>7, BuilderTypes DEF Builder
  <2>2. C!TypeOK' BY <2>1, <1>7 DEF Builder, RestOfRun, C!TypeOK, B!TypeOK
  <2>3. R!TypeOK' BY <2>1, <1>7 DEF Builder, RestOfRun, R!TypeOK, B!TypeOK
  <2> QED BY <2>1, <2>2, <2>3
<1>8. ASSUME R!TypeOK', UNCHANGED RestOfBuild PROVE C!TypeOK' /\ B!TypeOK'
  <2>1. C!TypeOK' BY <1>8 DEF RestOfBuild, R!TypeOK, C!TypeOK
  <2>2. B!TypeOK' BY <1>8 DEF RestOfBuild, R!TypeOK, B!TypeOK
  <2> QED BY <2>1, <2>2
<1>9. CASE Runner(R!Caller)
  <2>1. R!TypeOK'
    BY <1>9, ProvisioningAssumption
    DEF Runner, R!Caller, R!CallRun, R!FinishRun, R!TypeOK, R!Points, R!dockerVars
  <2> QED BY <2>1, <1>8, <1>9 DEF Runner
<1>10. ASSUME NEW i \in Images, Runner(R!Worker(i)) PROVE C!TypeOK' /\ B!TypeOK' /\ R!TypeOK'
  BY <1>8, <1>10, RunnerTypes DEF Runner
<1>11. CASE Daemon
  <2>1. R!TypeOK'
    BY <1>11 DEF Daemon, R!Docker, R!ProbeResult, R!ContainerExits, R!runVars, R!TypeOK
  <2> QED BY <2>1, <1>8, <1>11 DEF Daemon
<1> QED
  BY <1>2, <1>3, <1>4, <1>5, <1>6, <1>7, <1>9, <1>10, <1>11, Steps DEF CommandStep

\* Clear, the builder and the runner leave the variables of the command alone.
LEMMA ServiceFrame ==
  ASSUME \/ Clear \/ Builder(B!Next) \/ Runner(R!Caller)
         \/ \E i \in Images : Runner(R!Worker(i))
         \/ Daemon
  PROVE  UNCHANGED cliVars
BY DEF Clear, Builder, Runner, Daemon

\* And every step that is not the command's own keeps build and run, the
\* results, unless the goroutine of Provision is at that stage.
LEMMA ResultsFrame ==
  ASSUME [Next]_vars
  PROVE  /\ build' = build \/ (bg = "build" /\ bg' = bg)
         /\ run' = run \/ (bg = "run" /\ bg' = bg)
<1> USE DEF Others, buildVars, runVars
<1>1. CASE UNCHANGED vars BY <1>1 DEF vars
<1>2. CASE CommandStep BY <1>2, CommandStepFrame DEF ServiceVars
<1>3. CASE Clear \/ GetNetwork \/ CreateNetwork
  BY <1>3 DEF Clear, GetNetwork, CreateNetwork
<1>4. CASE Builder(B!Next) BY <1>4 DEF Builder, RestOfRun, cliVars
<1>5. CASE Runner(R!Caller) \/ \E i \in Images : Runner(R!Worker(i))
  BY <1>5 DEF Runner, RestOfBuild, cliVars
<1>6. CASE Daemon
  BY <1>6 DEF Daemon, RestOfBuild, R!Docker, R!ProbeResult, R!ContainerExits, R!runVars
<1> QED BY <1>1, <1>2, <1>3, <1>4, <1>5, <1>6, Steps DEF CommandStep

\* Every variable keeps its type, and the channel never holds a second error.
LEMMA TypesInvariant == Spec => []TypeInv
<1>1. Init => TypeInv
  <2> SUFFICES ASSUME Init PROVE TypeInv
    OBVIOUS
  <2> USE ProvisioningAssumption DEF Init
  <2>1. C!TypeOK
    BY DEF C!InitClear, C!Leftovers, C!TypeOK, C!Steps, B!Init, Containers
  <2>2. B!TypeOK
    BY DEF B!Init, B!TypeOK, B!Errors, B!Statuses, B!Points
  <2>3. R!TypeOK
    BY <2>1, <2>2
    DEF R!InitRun, R!TypeOK, R!Statuses, R!Points, C!TypeOK, B!TypeOK, Containers
  <2>4. ticker \in [Waits -> BOOLEAN]
    BY Zenon
  <2>5. CliTypes /\ NotLaunched /\ SentLast
    BY <2>4 DEF CliTypes, NotLaunched, Beginning, SentLast, Contexts, Waits
  <2> QED BY <2>1, <2>2, <2>3, <2>5 DEF TypeInv, TypeOK, CliTypes
<1>2. TypeInv /\ [Next]_vars => TypeInv'
  <2> SUFFICES ASSUME TypeInv, [Next]_vars PROVE TypeInv'
    OBVIOUS
  <2>0. C!TypeOK /\ B!TypeOK /\ R!TypeOK /\ CliTypes /\ NotLaunched /\ SentLast
    BY DEF TypeInv, TypeOK, CliTypes
  <2>1. C!TypeOK' /\ B!TypeOK' /\ R!TypeOK'
    BY <2>0, ServiceTypes
  <2>2. CliTypes' /\ NotLaunched' /\ SentLast'
    <3> USE <2>0 DEF CliTypes, NotLaunched, Beginning, SentLast, At, Abort, Contexts, Waits
    <3>1. CASE UNCHANGED cliVars
      BY <3>1, ResultsFrame DEF cliVars
    <3>2. CASE ClearReturned \/ Resolve \/ GetNetwork \/ CreateNetwork
      BY <3>2, ResultsFrame DEF ClearReturned, Resolve, GetNetwork, CreateNetwork
    <3>3. CASE Launch
      <4>1. UNCHANGED <<build, run>>
        BY <3>3, CommandStepFrame DEF CommandStep, ServiceVars, Others, buildVars, runVars
      <4> QED BY <3>3, <4>1 DEF Launch
    <3>4. CASE Derive \/ DeriveAgain
      <4>1. ticker' \in [Waits -> BOOLEAN]
        BY <3>4, Zenon DEF Derive, DeriveAgain
      <4> QED BY <3>4, <4>1, ResultsFrame DEF Derive, DeriveAgain
    <3>5. CASE ImagesReady BY <3>5, ResultsFrame DEF ImagesReady
    <3>6. CASE ContainersReady BY <3>6, ResultsFrame DEF ContainersReady
    <3>7. CASE OpenBrowser \/ OpenTerminalAndReturn
      <4>1. OpenUrl \in WebUI \cup {None} /\ OpenTerminal \in Terminals \cup {None}
        BY <2>0 DEF R!TypeOK
      <4>2. CASE OpenBrowser BY <4>1, <4>2, ResultsFrame DEF OpenBrowser
      <4>3. CASE OpenTerminalAndReturn
        BY <4>1, <4>3, ResultsFrame DEF OpenTerminalAndReturn
      <4> QED BY <3>7, <4>2, <4>3
    <3>8. CASE WatchEnter \/ WatchDone \/ WatchTick
      <4>1. CASE WatchEnter BY <4>1, ResultsFrame DEF WatchEnter
      <4>2. CASE WatchDone BY <4>2, ResultsFrame DEF WatchDone
      <4>3. CASE WatchTick BY <4>3, ResultsFrame DEF WatchTick
      <4> QED BY <3>8, <4>1, <4>2, <4>3
    <3>9. CASE WatchError BY <3>9, ResultsFrame DEF WatchError
    <3>10. ASSUME NEW w \in Waits, Tick(w) PROVE CliTypes' /\ NotLaunched' /\ SentLast'
      BY <3>10, ResultsFrame DEF Tick
    <3>11. ASSUME NEW w \in Waits, TickerStops(w) PROVE CliTypes' /\ NotLaunched' /\ SentLast'
      <4>1. ticker' \in [Waits -> BOOLEAN]
        BY <3>11, Zenon DEF TickerStops
      <4> QED BY <3>11, <4>1, ResultsFrame DEF TickerStops
    <3>12. CASE BuildReturned \/ RunReturned
      <4>1. UNCHANGED <<build, run>>
        BY <3>12, CommandStepFrame DEF CommandStep, ServiceVars, Others, buildVars, runVars
      <4>2. \/ build = "error" /\ errors' = errors + 1
            \/ run = "error" /\ errors' = errors + 1
            \/ errors' = errors
        BY <3>12 DEF BuildReturned, RunReturned, Background
      <4>3. /\ bg # "done" /\ bg' \in {"run", "done"}
            /\ bg' = "run" => errors' = errors
            /\ UNCHANGED <<ctl, ctx, cancelled, wg, ticker, watch, opened, terminal>>
        BY <3>12 DEF BuildReturned, RunReturned, Background
      <4>4. SentLast'
        BY <4>1, <4>2, <4>3
      <4>5. CliTypes'
        BY <4>2, <4>3
      <4>6. NotLaunched'
        BY <3>12, <4>3 DEF BuildReturned, RunReturned, Background, NotLaunched, Beginning
      <4> QED BY <4>4, <4>5, <4>6
    <3>14. \A w \in Waits : MapRace(w) => UNCHANGED cliVars
      BY DEF MapRace
    <3> QED
      BY <3>1, <3>2, <3>3, <3>4, <3>5, <3>6, <3>7, <3>8, <3>9, <3>10, <3>11, <3>12,
         <3>14, ServiceFrame, Steps DEF vars
  <2> QED BY <2>1, <2>2 DEF TypeInv, TypeOK, CliTypes
<1> QED BY <1>1, <1>2, PTL DEF Spec

\* Every variable keeps its type, those of the composed services included.
THEOREM TypeCorrect == Spec => []TypeOK
<1>1. TypeInv => TypeOK
  BY DEF TypeInv
<1> QED BY <1>1, TypesInvariant, PTL

\* The background sends one error at most, and nothing after it.
THEOREM OneErrorCorrect == Spec => []OneError
<1>1. TypeInv => OneError
  BY DEF TypeInv, SentLast, OneError
<1> QED BY <1>1, TypesInvariant, PTL

-----------------------------------------------------------------------------
(* The watcher.                                                            *)

\* Nothing of the command happens after the end of its process.
LEMMA OnlyWhileUp == Next => process = "up"
<1> USE DEF At
<1>1. \/ Clear \/ ClearReturned \/ Resolve \/ GetNetwork \/ CreateNetwork \/ Launch
      \/ Derive \/ ImagesReady \/ DeriveAgain \/ ContainersReady
      \/ OpenBrowser \/ OpenTerminalAndReturn
      => process = "up"
  BY DEF Clear, ClearReturned, Resolve, GetNetwork, CreateNetwork, Launch, Derive,
         ImagesReady, DeriveAgain, ContainersReady, OpenBrowser, OpenTerminalAndReturn
<1>2. WatchEnter \/ WatchDone \/ WatchError \/ WatchTick => process = "up"
  BY DEF WatchEnter, WatchDone, WatchError, WatchTick
<1>3. \A w \in Waits : Tick(w) \/ TickerStops(w) \/ MapRace(w) => process = "up"
  BY DEF Tick, TickerStops, MapRace
<1>4. Builder(B!Next) => process = "up"
  <2>1. B!Caller => process = "up"
    BY DEF B!Caller, B!CallBuild, B!Spawn, B!Finish, B!Register
  <2>2. \A i \in Tagged : B!Worker(i) => process = "up"
    BY DEF B!Worker, B!Exists, B!CheckExists, B!CheckNotFound, B!BuildImage,
           B!CheckBuild, B!Report, B!Return, B!Mark, B!Goto
  <2> QED BY <2>1, <2>2 DEF Builder, B!Next
<1>5. Runner(R!Caller) => process = "up"
  BY DEF Runner, R!Caller, R!CallRun, R!FinishRun
<1>6. \A i \in Images : Runner(R!Worker(i)) => process = "up"
  BY DEF Runner, R!Worker, R!Register, R!Create, R!Start, R!PollHealthy, R!PollFails,
         R!Timeout, R!Mark, R!Goto, R!Fail
<1>7. BuildReturned \/ RunReturned => process = "up"
  BY DEF BuildReturned, RunReturned, Background
<1>8. Daemon => process = "up"
  BY DEF Daemon
<1> QED BY <1>1, <1>2, <1>3, <1>4, <1>5, <1>6, <1>7, <1>8, Steps

\* Until the first wait is over, nothing has been cancelled that the watcher
\* could be waiting for.
WatchInv ==
    ctl \in Beginning \cup {"derive", "images"} =>
        /\ watch # "gone"
        /\ process = "up" => cancelled = {}

\* The watcher is there for as long as the command waits for the images.
THEOREM WatchedCorrect == Spec => []WatchedWhileBuilding
<1>1. Init => WatchInv
  BY DEF Init, WatchInv
<1>2. TypeInv /\ WatchInv /\ [Next]_vars => WatchInv'
  <2> SUFFICES ASSUME TypeInv, WatchInv, [Next]_vars PROVE WatchInv'
    OBVIOUS
  <2> USE DEF WatchInv, Beginning, At, Abort, Contexts
  <2>1. CASE UNCHANGED vars BY <2>1 DEF vars, cliVars
  <2>2. CASE Next /\ UNCHANGED cliVars
    BY <2>2, OnlyWhileUp DEF cliVars
  <2>3. CASE ClearReturned \/ Resolve \/ GetNetwork \/ CreateNetwork
    BY <2>3 DEF ClearReturned, Resolve, GetNetwork, CreateNetwork
  <2>4. CASE Launch \/ Derive \/ ImagesReady \/ DeriveAgain
    BY <2>4 DEF Launch, Derive, ImagesReady, DeriveAgain
  <2>5. CASE ContainersReady \/ OpenBrowser \/ OpenTerminalAndReturn
    BY <2>5 DEF ContainersReady, OpenBrowser, OpenTerminalAndReturn
  <2>6. CASE WatchEnter \/ WatchDone \/ WatchError \/ WatchTick
    <3>1. CASE WatchEnter BY <3>1 DEF WatchEnter, TypeInv, TypeOK
    <3>2. CASE WatchDone BY <3>2 DEF WatchDone
    <3>3. CASE WatchError BY <3>3 DEF WatchError
    <3>4. CASE WatchTick BY <3>4 DEF WatchTick
    <3> QED BY <2>6, <3>1, <3>2, <3>3, <3>4
  <2>7. ASSUME NEW w \in Waits, Tick(w) \/ TickerStops(w) \/ MapRace(w) PROVE WatchInv'
    BY <2>7 DEF Tick, TickerStops, MapRace, cliVars
  <2>8. CASE BuildReturned \/ RunReturned
    BY <2>8 DEF BuildReturned, RunReturned, Background
  <2> QED
    BY <2>1, <2>2, <2>3, <2>4, <2>5, <2>6, <2>7, <2>8, ServiceFrame, Steps
<1>3. WatchInv => WatchedWhileBuilding
  BY DEF WatchInv, WatchedWhileBuilding
<1> QED BY <1>1, <1>2, <1>3, TypesInvariant, PTL DEF Spec

-----------------------------------------------------------------------------
(* One environment at a time.                                              *)

\* The containers are run after a build that succeeded, and a container exists
\* only when its goroutine has created it.
InStages ==
    /\ bg \in {"idle", "build"} => run = "idle"
    /\ bg = "run" => build = "nil"
    /\ bg = "done" => build = "nil" \/ run = "idle"
    /\ run = "idle" => \A i \in Images : rpc[i] = "idle"
    /\ \A i \in Images : rpc[i] \in {"idle", "register", "create"} => container[i] = "none"

\* Clear works on the old containers, and nothing of them runs once it is over.
Emptied ==
    /\ toClear \subseteq Old /\ current \notin Images
    /\ ctl = "clear" => C!ListCoversRunning /\ C!ClearedMeansClean
    /\ bg # "idle" \/ ctl \in Beginning \ {"clear"} => \A o \in Old : container[o] # "running"
    /\ bg # "idle" \/ ctl = "launch" => network

SlateInv == InStages /\ Emptied

\* Clear, while there is nothing new yet.
LEMMA ClearKeepsSlate ==
  ASSUME TypeInv, SlateInv, Clear PROVE SlateInv'
<1> USE ProvisioningAssumption DEF Containers
<1>1. /\ ctl = "clear" /\ bg = "idle" /\ run = "idle"
      /\ UNCHANGED <<ctl, bg, run, build, rpc>>
      /\ \A i \in Images : rpc[i] = "idle" /\ container[i] = "none"
      /\ container \in [Old \cup Images -> {"none", "created", "running", "exited", "removed"}]
      /\ current \in Old \cup Images \cup {None}
  BY DEF Clear, At, TypeInv, TypeOK, C!TypeOK, NotLaunched, Beginning, SlateInv, InStages,
         Others, runVars, buildVars, cliVars
<1>2. /\ toClear \subseteq Old /\ current \notin Images
      /\ C!ListCoversRunning /\ C!ClearedMeansClean
  BY <1>1 DEF SlateInv, Emptied
<1>3. /\ toClear' \subseteq Old /\ current' \notin Images
      /\ C!ListCoversRunning' /\ C!ClearedMeansClean'
      /\ \A i \in Images : container'[i] = "none"
  <2> USE <1>1, <1>2 DEF C!ListCoversRunning, C!ClearedMeansClean, C!Running, C!At, C!CallFails
  <2>1. CASE C!CallClear BY <2>1 DEF C!CallClear
  <2>2. CASE C!List BY <2>2 DEF C!List
  <2>3. CASE C!Kill BY <2>3 DEF C!Kill
  <2>4. CASE C!Remove BY <2>4 DEF C!Remove
  <2>5. CASE C!ListDone BY <2>5 DEF C!ListDone
  <2>6. CASE C!GetNetwork BY <2>6 DEF C!GetNetwork
  <2>7. CASE C!RemoveNetwork BY <2>7 DEF C!RemoveNetwork
  <2> QED BY <2>1, <2>2, <2>3, <2>4, <2>5, <2>6, <2>7 DEF Clear, C!ClearStep
<1> QED BY <1>1, <1>3 DEF SlateInv, InStages, Emptied, Beginning

\* SlateInv holds at first and is kept by every step.
LEMMA SlateInvariant == Spec => []SlateInv
<1> USE ProvisioningAssumption
<1>1. Init => SlateInv
  BY DEF Init, C!InitClear, B!Init, R!InitRun, SlateInv, InStages, Emptied, Beginning,
         C!ListCoversRunning, C!ClearedMeansClean
<1>2. TypeInv /\ SlateInv /\ [Next]_vars => SlateInv'
  <2> SUFFICES ASSUME TypeInv, SlateInv, [Next]_vars PROVE SlateInv'
    OBVIOUS
  <2>0. InStages /\ Emptied /\ NotLaunched /\ bg \in {"idle", "build", "run", "done"}
    BY DEF SlateInv, TypeInv, TypeOK
  <2> USE <2>0
      DEF InStages, Emptied, Beginning, C!ListCoversRunning, C!ClearedMeansClean, C!Running
  \* A step of the command that moves it on, in the stages after the launch.
  <2>1. ASSUME UNCHANGED ServiceVars,
               \/ bg' = bg
               \/ bg # "idle" /\ bg' = "done" /\ (bg = "run" \/ build = "error")
               \/ bg # "idle" /\ bg' = "run" /\ build = "nil",
               ctl' = ctl \/ ctl' \notin Beginning
        PROVE  SlateInv'
    <3> USE <2>1 DEF ServiceVars, Others, clearVars, buildVars, runVars
    <3>1. UNCHANGED <<run, build, rpc, container, network, toClear, current, clear>>
      OBVIOUS
    <3>2. InStages'
      BY ONLY <2>0, <2>1, <3>1 DEF InStages
    <3>3. Emptied'
      BY <3>1
    <3> QED BY <3>2, <3>3 DEF SlateInv
  <2>2. CASE UNCHANGED vars
    BY <2>1, <2>2 DEF vars, ServiceVars, Others, cliVars, dockerVars
  <2>3. CASE ClearReturned \/ Resolve
    <3>1. UNCHANGED ServiceVars
      BY <2>3, CommandStepFrame DEF CommandStep
    <3>2. UNCHANGED <<run, build, rpc, container, network, toClear, current, clear>>
      BY <3>1 DEF ServiceVars, Others, clearVars, buildVars, runVars
    <3> QED BY <2>3, <3>2 DEF ClearReturned, Resolve, At, Abort, SlateInv, Containers
  <2>4. CASE GetNetwork \/ CreateNetwork
    BY <2>4 DEF GetNetwork, CreateNetwork, At, Abort, SlateInv, Others, clearVars,
                buildVars, runVars
  <2>5. CASE Launch
    <3>1. UNCHANGED ServiceVars
      BY <2>5, CommandStepFrame DEF CommandStep
    <3>2. UNCHANGED <<run, build, rpc, container, network, toClear, current, clear>>
      BY <3>1 DEF ServiceVars, Others, clearVars, buildVars, runVars
    <3> QED BY <2>5, <3>2 DEF Launch, At, SlateInv, NotLaunched
  <2>6. CASE CommandStep /\ ~(ClearReturned \/ Resolve \/ Launch)
    <3>1. UNCHANGED ServiceVars
      BY <2>6, CommandStepFrame
    <3>2. CASE \/ Derive \/ ImagesReady \/ DeriveAgain \/ ContainersReady
               \/ OpenBrowser \/ OpenTerminalAndReturn
      BY <2>1, <3>1, <3>2
      DEF Derive, ImagesReady, DeriveAgain, ContainersReady, OpenBrowser,
          OpenTerminalAndReturn, Abort
    <3>3. CASE WatchEnter \/ WatchDone \/ WatchError \/ WatchTick
      BY <2>1, <3>1, <3>3 DEF WatchEnter, WatchDone, WatchError, WatchTick
    <3>4. ASSUME NEW w \in Waits, Tick(w) \/ TickerStops(w) \/ MapRace(w) PROVE SlateInv'
      BY <2>1, <3>1, <3>4 DEF Tick, TickerStops, MapRace, cliVars
    <3>5. CASE BuildReturned \/ RunReturned
      BY <2>1, <3>1, <3>5 DEF BuildReturned, RunReturned, Background
    <3> QED BY <2>6, <3>2, <3>3, <3>4, <3>5 DEF CommandStep
  <2>7. CASE Clear BY <2>7, ClearKeepsSlate
  <2>8. CASE Builder(B!Next)
    BY <2>8 DEF Builder, RestOfRun, clearVars, runVars, cliVars, SlateInv
  \* A step of RunContainers: the old containers are gone, the network is there.
  <2>9. ASSUME bg = "run", UNCHANGED <<RestOfBuild, cliVars, network>>,
               \A o \in Old : container'[o] = "running" => container[o] = "running",
               InStages'
        PROVE  SlateInv'
    BY <2>9 DEF RestOfBuild, clearVars, buildVars, cliVars, SlateInv, NotLaunched
  <2>10. CASE Runner(R!CallRun)
    <3>1. \A i \in Images : container'[i] = "none" \/ run # "idle"
      BY <2>10 DEF Runner, R!CallRun, R!dockerVars
    <3>2. InStages'
      BY <2>10, <3>1 DEF Runner, R!CallRun, R!dockerVars, RestOfBuild, buildVars, cliVars
    <3> QED BY <2>9, <2>10, <3>2 DEF Runner, R!CallRun, R!dockerVars
  <2>11. CASE Runner(R!FinishRun)
    <3>1. InStages'
      BY <2>11 DEF Runner, R!FinishRun, R!dockerVars, RestOfBuild, buildVars, cliVars
    <3> QED BY <2>9, <2>11, <3>1 DEF Runner, R!FinishRun, R!dockerVars
  <2>12. ASSUME NEW i \in Images, Runner(R!Worker(i)) PROVE SlateInv'
    <3>1. /\ bg = "run" /\ UNCHANGED <<RestOfBuild, cliVars, network, run>>
          /\ R!Worker(i) /\ rpc[i] # "idle"
      BY <2>12 DEF Runner, R!Worker, R!Register, R!Create, R!Start, R!PollHealthy,
                   R!PollFails, R!Timeout, R!Mark, R!Goto, R!Fail, R!dockerVars
    <3>2. /\ rpc \in [Images -> R!Points]
          /\ container \in [Containers -> {"none", "created", "running", "exited", "removed"}]
      BY DEF TypeInv, TypeOK, R!TypeOK
    <3>3. /\ \A c \in Images \ {i} : rpc'[c] = rpc[c]
          /\ \A c \in Containers \ {i} : container'[c] = container[c]
      BY <3>1, <3>2
      DEF R!Worker, R!Register, R!Create, R!Start, R!PollHealthy, R!PollFails, R!Timeout,
          R!Mark, R!Goto, R!Fail, R!dockerVars, Containers
    <3>4. rpc'[i] \in {"idle", "register", "create"} => container'[i] = "none"
      BY <3>1, <3>2
      DEF R!Worker, R!Register, R!Create, R!Start, R!PollHealthy, R!PollFails, R!Timeout,
          R!Mark, R!Goto, R!Fail, R!dockerVars
    <3>5. InStages'
      BY <3>1, <3>3, <3>4 DEF RestOfBuild, buildVars, cliVars, Containers
    <3> QED BY <2>9, <3>1, <3>3, <3>5 DEF Containers
  <2>13. CASE Daemon
    <3>1. /\ UNCHANGED <<clearVars, buildVars, cliVars, network, run, rpc>>
          /\ \/ UNCHANGED container
             \/ \E c \in Containers : /\ container[c] = "running"
                                      /\ container' = [container EXCEPT ![c] = "exited"]
      BY <2>13 DEF Daemon, R!Docker, R!ProbeResult, R!ContainerExits, R!runVars, RestOfBuild
    <3>2. container \in [Containers -> {"none", "created", "running", "exited", "removed"}]
      BY DEF TypeInv, TypeOK, R!TypeOK
    <3>3. InStages'
      BY <3>1, <3>2 DEF buildVars, cliVars, Containers
    <3>4. /\ toClear' \subseteq Old /\ current' \notin Images
          /\ bg' # "idle" \/ ctl' \in Beginning \ {"clear"}
                => \A o \in Old : container'[o] # "running"
          /\ bg' # "idle" \/ ctl' = "launch" => network'
      BY <3>1, <3>2 DEF clearVars, cliVars, Containers
    <3>5. ctl' = "clear" => C!ListCoversRunning' /\ C!ClearedMeansClean'
      <4>1. ctl = "clear" => C!ListCoversRunning /\ C!ClearedMeansClean
        BY DEF Emptied
      <4>2. C!Running' \subseteq C!Running
        BY <3>1, <3>2
      <4>3. clear = "remove" /\ ctl = "clear" => container'[current] = "exited"
        BY <3>1, <3>2, <4>1 DEF Containers
      <4>4. UNCHANGED <<ctl, clear, toClear, current, network>>
        BY <3>1 DEF clearVars, cliVars
      <4> QED BY ONLY <4>1, <4>2, <4>3, <4>4 DEF C!ListCoversRunning, C!ClearedMeansClean
    <3> QED BY <3>3, <3>4, <3>5 DEF SlateInv
  <2> QED
    BY <2>2, <2>3, <2>4, <2>5, <2>6, <2>7, <2>8, <2>10, <2>11, <2>12, <2>13, Steps
    DEF CommandStep, R!Caller, Runner
<1> QED BY <1>1, <1>2, TypesInvariant, PTL DEF Spec

\* While there is a container of the new environment, nothing of the old one
\* runs, the network is there and the build has succeeded.
THEOREM CleanSlateCorrect == Spec => []CleanSlate
<1>1. TypeInv /\ SlateInv => CleanSlate
  BY DEF TypeInv, TypeOK, R!TypeOK, SlateInv, InStages, Emptied, CleanSlate
<1> QED BY <1>1, TypesInvariant, SlateInvariant, PTL
-----------------------------------------------------------------------------
(* The command implements Handover.                                        *)

\* What Handover calls its variables, as functions of the command's.
Stage == IF process # "up" THEN "ended"
         ELSE IF ctl = "clear" /\ clear # "nil" THEN "leaving" ELSE "entering"
Running == {c \in Containers : container[c] = "running"}
Started == {i \in Images : container[i] \in {"running", "exited", "removed"}}

HandoverStep == [H!Next]_(H!vars)

\* A step that moves no container ends the command or is none of Handover's.
LEMMA QuietSteps ==
  ASSUME UNCHANGED container, process = "up", process' # "up" \/ Stage' = Stage
  PROVE  HandoverStep
<1>1. Running' = Running /\ Started' = Started
  BY DEF Running, Started
<1>2. CASE process' # "up"
  <2>1. H!End
    BY <1>1, <1>2 DEF H!End, Running, Started
  <2> QED BY <2>1 DEF HandoverStep, H!Next
<1>3. CASE Stage' = Stage
  <2>1. UNCHANGED H!vars
    BY <1>1, <1>3 DEF H!vars, Stage, Running, Started
  <2> QED BY <2>1 DEF HandoverStep
<1> QED BY <1>2, <1>3

\* A container that runs ends, and one that is not running becomes no other.
LEMMA EndingSteps ==
  ASSUME TypeInv, NEW c \in Containers, NEW s \in {"exited", "removed"},
         container[c] \in {"running", "exited"},
         container' = [container EXCEPT ![c] = s], Stage' = Stage
  PROVE  HandoverStep
<1>1. container \in [Containers -> {"none", "created", "running", "exited", "removed"}]
  BY DEF TypeInv, TypeOK, R!TypeOK
<1>2. Running' = Running \ {c} /\ Started' = Started
  BY <1>1 DEF Running, Started, Containers
<1>3. CASE c \in Running
  <2>1. H!Stop(c)
    BY <1>2, <1>3 DEF H!Stop, Stage, Running, Started
  <2> QED BY <2>1 DEF HandoverStep, H!Next, Containers
<1>4. CASE c \notin Running
  <2>1. UNCHANGED H!vars
    BY <1>2, <1>4 DEF H!vars, Stage, Running, Started
  <2> QED BY <2>1 DEF HandoverStep
<1> QED BY <1>3, <1>4

\* Clear kills and removes, and its nil is where the new environment is entered.
LEMMA ClearHandsOver ==
  ASSUME TypeInv, SlateInv, SlateInv', Clear PROVE HandoverStep
<1> USE DEF C!At, C!CallFails, Stage
<1>1. /\ process = "up" /\ ctl = "clear" /\ ctl' = ctl
      /\ C!ListCoversRunning /\ C!ClearedMeansClean' /\ toClear \subseteq Old
  BY DEF Clear, At, cliVars, SlateInv, Emptied
<1>2. CASE C!CallClear \/ C!List \/ C!ListDone
  BY <1>1, <1>2, QuietSteps DEF C!CallClear, C!List, C!ListDone
<1>3. CASE C!Kill
  <2>1. CASE UNCHANGED container
    BY <1>1, <1>3, <2>1, QuietSteps DEF C!Kill
  <2>2. ASSUME NEW c \in toClear, container[c] = "running",
               container' = [container EXCEPT ![c] = "exited"]
        PROVE  HandoverStep
    <3>1. Stage' = Stage
      BY <1>1, <1>3 DEF C!Kill
    <3> QED BY <1>1, <2>2, <3>1, EndingSteps DEF Containers
  <2> QED BY <1>3, <2>1, <2>2 DEF C!Kill
<1>4. CASE C!Remove
  <2>1. current \in toClear /\ container[current] = "exited"
    BY <1>1, <1>4 DEF C!Remove, C!ListCoversRunning
  <2>2. CASE UNCHANGED container
    BY <1>1, <1>4, <2>2, QuietSteps DEF C!Remove
  <2>3. CASE container' = [container EXCEPT ![current] = "removed"]
    <3>1. Stage' = Stage
      BY <1>1, <1>4 DEF C!Remove
    <3> QED BY <1>1, <2>1, <2>3, <3>1, EndingSteps DEF Containers
  <2> QED BY <1>4, <2>2, <2>3 DEF C!Remove
<1>5. CASE C!GetNetwork \/ C!RemoveNetwork
  <2>1. UNCHANGED <<container, process>> /\ clear # "nil"
    BY <1>5 DEF C!GetNetwork, C!RemoveNetwork
  <2>2. CASE clear' # "nil"
    BY <1>1, <2>1, <2>2, QuietSteps
  <2>3. CASE clear' = "nil"
    <3>1. Running = {}
      BY <1>1, <2>1, <2>3 DEF C!ClearedMeansClean, C!Running, Running
    <3>2. Running' = Running /\ Started' = Started
      BY <2>1 DEF Running, Started
    <3>3. H!Enter
      BY <1>1, <2>1, <2>3, <3>1, <3>2 DEF H!Enter, Running, Started
    <3> QED BY <3>3 DEF HandoverStep, H!Next
  <2> QED BY <2>2, <2>3
<1> QED BY <1>2, <1>3, <1>4, <1>5 DEF Clear, C!ClearStep

\* RunContainers starts each container once, after the old ones are gone.
LEMMA RunHandsOver ==
  ASSUME TypeInv, SlateInv, NEW i \in Images, Runner(R!Worker(i)) PROVE HandoverStep
<1>1. /\ process = "up" /\ bg = "run" /\ ctl # "clear" /\ ctl' = ctl
      /\ R!Worker(i)
      /\ container \in [Containers -> {"none", "created", "running", "exited", "removed"}]
  BY OnlyWhileUp
  DEF Runner, cliVars, TypeInv, TypeOK, R!TypeOK, NotLaunched, Beginning, Next, R!Worker
<1>2. process' = process
  BY <1>1 DEF R!Worker, R!Register, R!Create, R!Start, R!PollHealthy, R!PollFails,
              R!Timeout, R!Mark, R!Goto, R!Fail
<1>3. Stage' = Stage /\ Stage = "entering"
  BY <1>1, <1>2 DEF Stage
<1>4. CASE UNCHANGED container
  BY <1>1, <1>3, <1>4, QuietSteps
<1>5. CASE container' = [container EXCEPT ![i] = "created"] /\ rpc[i] = "create"
  <2>1. container[i] = "none"
    BY <1>5 DEF SlateInv, InStages
  <2>2. Running' = Running /\ Started' = Started
    BY <1>1, <1>5, <2>1 DEF Running, Started, Containers
  <2>3. UNCHANGED H!vars
    BY <1>3, <2>2 DEF H!vars, Stage, Running, Started
  <2> QED BY <2>3 DEF HandoverStep
<1>6. CASE container' = [container EXCEPT ![i] = "running"] /\ container[i] = "created"
  <2>1. i \notin Started /\ Running' = Running \cup {i} /\ Started' = Started \cup {i}
    BY <1>1, <1>6 DEF Running, Started, Containers
  <2>2. H!Start(i)
    BY <1>3, <2>1 DEF H!Start, Stage, Running, Started
  <2> QED BY <2>2 DEF HandoverStep, H!Next
<1> QED
  BY <1>1, <1>4, <1>5, <1>6
  DEF R!Worker, R!Register, R!Create, R!Start, R!PollHealthy, R!PollFails, R!Timeout,
      R!Mark, R!Goto, R!Fail, R!dockerVars

\* Provisioning implements Handover: whatever fails, exits or races, the old
\* environment is gone before anything of the new one starts.
THEOREM HandoverCorrect == Spec => HandsOver
<1> USE ProvisioningAssumption
<1>1. Init => H!Init
  BY DEF Init, B!Init, C!InitClear, C!Leftovers, H!Init, Containers
<1>2. TypeInv /\ SlateInv /\ SlateInv' /\ [Next]_vars => HandoverStep
  <2> SUFFICES ASSUME TypeInv, SlateInv, SlateInv', [Next]_vars PROVE HandoverStep
    OBVIOUS
  <2>1. CASE UNCHANGED vars
    BY <2>1 DEF vars, clearVars, dockerVars, cliVars, HandoverStep, H!vars, Containers
  <2>2. ASSUME Next, UNCHANGED <<container, ctl, clear>> PROVE HandoverStep
    <3>1. process' = "up" => Stage' = Stage
      BY <2>2, OnlyWhileUp DEF Stage
    <3> QED BY <2>2, <3>1, OnlyWhileUp, QuietSteps
  <2>3. ASSUME Next, UNCHANGED <<container, clear>>, ctl # "clear", ctl' # "clear"
        PROVE  HandoverStep
    <3>1. process' = "up" => Stage' = Stage
      BY <2>3, OnlyWhileUp DEF Stage
    <3> QED BY <2>3, <3>1, OnlyWhileUp, QuietSteps
  <2>4. CASE Clear BY <2>4, ClearHandsOver
  <2>5. CASE ClearReturned
    <3>1. /\ process = "up" /\ UNCHANGED container
          /\ process' # "up" \/ Stage' = Stage
      BY <2>5 DEF ClearReturned, At, Abort, clearVars, Stage
    <3> QED BY <3>1, QuietSteps
  <2>6. CASE Next /\ (Resolve \/ GetNetwork \/ CreateNetwork)
    BY <2>3, <2>6 DEF Resolve, GetNetwork, CreateNetwork, At, Abort, clearVars
  <2>7. CASE Next /\ CommandStep /\ ~(ClearReturned \/ Resolve)
    <3>1. UNCHANGED <<container, clear>>
      BY <2>7, CommandStepFrame DEF ServiceVars, clearVars
    <3>2. UNCHANGED ctl \/ (ctl # "clear" /\ ctl' # "clear")
      BY <2>7
      DEF CommandStep, Launch, Derive, ImagesReady, DeriveAgain, ContainersReady,
          OpenBrowser, OpenTerminalAndReturn, WatchEnter, WatchDone, WatchError, WatchTick,
          Tick, TickerStops, MapRace, BuildReturned, RunReturned, Background, At, Abort,
          cliVars
    <3> QED BY <2>2, <2>3, <2>7, <3>1, <3>2
  <2>8. CASE Next /\ Builder(B!Next)
    BY <2>2, <2>8 DEF Builder, RestOfRun, clearVars, cliVars
  <2>9. CASE Next /\ Runner(R!Caller)
    BY <2>2, <2>9 DEF Runner, R!Caller, R!CallRun, R!FinishRun, R!dockerVars, RestOfBuild,
                      clearVars, cliVars
  <2>10. CASE \E i \in Images : Runner(R!Worker(i)) BY <2>10, RunHandsOver
  <2>11. CASE Next /\ Daemon
    <3>1. UNCHANGED <<ctl, clear, process>>
      BY <2>11 DEF Daemon, R!Docker, R!ProbeResult, R!ContainerExits, RestOfBuild,
                   clearVars, cliVars
    <3>2. Stage' = Stage
      BY <3>1 DEF Stage
    <3>3. \/ UNCHANGED container
          \/ \E c \in Containers : /\ container[c] = "running"
                                   /\ container' = [container EXCEPT ![c] = "exited"]
      BY <2>11 DEF Daemon, R!Docker, R!ProbeResult, R!ContainerExits
    <3> QED BY <2>2, <2>11, <3>1, <3>2, <3>3, EndingSteps
  <2> QED
    BY <2>1, <2>4, <2>5, <2>6, <2>7, <2>8, <2>9, <2>10, <2>11, Steps DEF CommandStep
<1> QED BY <1>1, <1>2, TypesInvariant, SlateInvariant, PTL DEF Spec, HandsOver, H!Spec, HandoverStep
-----------------------------------------------------------------------------
(* A failed stage never looks finished.                                    *)

\* A goroutine of Build that returned an error has left its status at false,
\* and an error of Build is one of theirs.
BuildFailure ==
    /\ build \in {"idle", "register"} => \A i \in Tagged : pc[i] = "idle"
    /\ \A i \in Tagged : pc[i] # "idle" => BuildingImages[i] # "absent"
    /\ \A i \in Tagged : BuildingImages[i] = "true" => pc[i] = "nil"
    /\ groupErr # "nil" => \E i \in Tagged : pc[i] = "error"
    /\ build = "error" => groupErr # "nil"

\* The same of RunContainers.
RunFailure ==
    /\ \A i \in Images : rpc[i] \notin {"idle", "register"} => StartingImages[i] # "absent"
    /\ \A i \in Images : StartingImages[i] = "true" => rpc[i] = "nil"
    /\ runErr => \E i \in Images : rpc[i] = "error"
    /\ run = "error" => runErr

\* The builder keeps BuildFailure.
LEMMA BuilderKeepsFailure ==
  ASSUME B!TypeOK, BuildFailure, B!Next PROVE BuildFailure'
<1> USE ProvisioningAssumption DEF B!TypeOK, B!Statuses, B!Errors, B!Points, BuildFailure
<1>1. CASE B!CallBuild BY <1>1 DEF B!CallBuild
<1>2. CASE B!Spawn BY <1>2 DEF B!Spawn
<1>3. CASE B!Finish BY <1>3 DEF B!Finish
<1>4. ASSUME NEW i \in Images, B!Register(i) PROVE BuildFailure'
  BY <1>4 DEF B!Register
<1>5. ASSUME NEW i \in Tagged, B!Worker(i) PROVE BuildFailure'
  <2>1. CASE B!Exists(i) BY <2>1 DEF B!Exists, B!Goto
  <2>2. CASE B!CheckExists(i) BY <2>2 DEF B!CheckExists, B!Goto
  <2>3. CASE B!CheckNotFound(i) BY <2>3 DEF B!CheckNotFound, B!Goto
  <2>4. CASE B!BuildImage(i) BY <2>4 DEF B!BuildImage, B!Goto
  <2>5. CASE B!CheckBuild(i) BY <2>5 DEF B!CheckBuild, B!Goto
  <2>6. CASE B!Report(i) BY <2>6 DEF B!Report
  <2>7. CASE B!Return(i) BY <2>7 DEF B!Return, B!Goto
  <2>8. CASE B!Mark(i) BY <2>8 DEF B!Mark, B!Goto
  <2> QED BY <1>5, <2>1, <2>2, <2>3, <2>4, <2>5, <2>6, <2>7, <2>8 DEF B!Worker
<1> QED BY <1>1, <1>2, <1>3, <1>4, <1>5 DEF B!Next, B!Caller

\* A goroutine of the runner keeps RunFailure.
LEMMA RunnerKeepsFailure ==
  ASSUME R!TypeOK, RunFailure, NEW i \in Images, R!Worker(i) PROVE RunFailure'
<1> USE DEF R!TypeOK, R!Statuses, R!Points, RunFailure, R!Goto, R!Fail
<1>1. CASE R!Register(i) BY <1>1 DEF R!Register
<1>2. CASE R!Create(i) BY <1>2 DEF R!Create
<1>3. CASE R!Start(i) BY <1>3 DEF R!Start
<1>4. CASE R!PollHealthy(i) BY <1>4 DEF R!PollHealthy
<1>5. CASE R!PollFails(i) BY <1>5 DEF R!PollFails
<1>6. CASE R!Timeout(i) BY <1>6 DEF R!Timeout
<1>7. CASE R!Mark(i) BY <1>7 DEF R!Mark
<1> QED BY <1>1, <1>2, <1>3, <1>4, <1>5, <1>6, <1>7 DEF R!Worker

FailureInv == BuildFailure /\ RunFailure

\* Both hold at first and are kept by every step of the command.
LEMMA FailureInvariant == Spec => []FailureInv
<1> USE DEF Others, buildVars, runVars
<1>1. Init => FailureInv
  BY ProvisioningAssumption
  DEF Init, B!Init, R!InitRun, FailureInv, BuildFailure, RunFailure
<1>2. TypeInv /\ SlateInv /\ FailureInv /\ [Next]_vars => FailureInv'
  <2> SUFFICES ASSUME TypeInv, SlateInv, FailureInv, [Next]_vars PROVE FailureInv'
    OBVIOUS
  <2>0. B!TypeOK /\ R!TypeOK /\ BuildFailure /\ RunFailure
    BY DEF TypeInv, TypeOK, FailureInv
  <2>1. ASSUME UNCHANGED buildVars PROVE BuildFailure'
    BY <2>0, <2>1 DEF BuildFailure
  <2>2. ASSUME UNCHANGED runVars PROVE RunFailure'
    BY <2>0, <2>2 DEF RunFailure
  <2>3. CASE UNCHANGED vars
    BY <2>1, <2>2, <2>3 DEF vars, FailureInv
  <2>4. CASE CommandStep
    BY <2>1, <2>2, <2>4, CommandStepFrame DEF ServiceVars, FailureInv
  <2>5. CASE Clear \/ GetNetwork \/ CreateNetwork
    BY <2>1, <2>2, <2>5 DEF Clear, GetNetwork, CreateNetwork, FailureInv
  <2>6. CASE Builder(B!Next)
    BY <2>0, <2>2, <2>6, BuilderKeepsFailure DEF Builder, RestOfRun, FailureInv
  <2>7. CASE Runner(R!CallRun)
    <3>1. \A i \in Images : rpc[i] = "idle" /\ rpc'[i] = "register"
      BY <2>7 DEF Runner, R!CallRun, SlateInv, InStages
    <3>2. RunFailure'
      BY <2>0, <2>7, <3>1 DEF Runner, R!CallRun, RunFailure
    <3> QED BY <2>1, <2>7, <3>2 DEF Runner, RestOfBuild, FailureInv
  <2>8. CASE Runner(R!FinishRun)
    <3>1. RunFailure'
      BY <2>0, <2>8 DEF Runner, R!FinishRun, RunFailure, R!TypeOK
    <3> QED BY <2>1, <2>8, <3>1 DEF Runner, RestOfBuild, FailureInv
  <2>9. ASSUME NEW i \in Images, Runner(R!Worker(i)) PROVE FailureInv'
    BY <2>0, <2>1, <2>9, RunnerKeepsFailure DEF Runner, RestOfBuild, FailureInv
  <2>10. CASE Daemon
    BY <2>1, <2>2, <2>10
    DEF Daemon, R!Docker, R!ProbeResult, R!ContainerExits, R!runVars, RestOfBuild, FailureInv
  <2> QED
    BY <2>3, <2>4, <2>5, <2>6, <2>7, <2>8, <2>9, <2>10, Steps DEF CommandStep, R!Caller, Runner
<1> QED BY <1>1, <1>2, TypesInvariant, SlateInvariant, PTL DEF Spec

\* Once a stage has failed, no tick ends the wait for it: no failure is
\* reported as "Containers started successfully", for any images and in any
\* interleaving of the builders on their shared err.
THEOREM FailureHoldsWaitCorrect == Spec => FailureHoldsWait
<1>1. TypeInv /\ FailureInv /\ [Next]_vars
      => [/\ build = "error" /\ wg["images"] = 1 => wg'["images"] = 1
          /\ run = "error" /\ wg["containers"] = 1 => wg'["containers"] = 1]_vars
  <2> SUFFICES ASSUME TypeInv, FailureInv, Next
               PROVE  /\ build = "error" /\ wg["images"] = 1 => wg'["images"] = 1
                      /\ run = "error" /\ wg["containers"] = 1 => wg'["containers"] = 1
    OBVIOUS
  <2>1. CASE UNCHANGED wg BY <2>1
  <2>2. ASSUME NEW w \in Waits, Tick(w), wg[w] = 1, wg' = [wg EXCEPT ![w] = 0]
        PROVE  /\ build = "error" /\ wg["images"] = 1 => wg'["images"] = 1
               /\ run = "error" /\ wg["containers"] = 1 => wg'["containers"] = 1
    <3>1. wg \in [Waits -> 0..1]
      BY DEF TypeInv, TypeOK
    <3>2. w = "images" => build # "error"
      BY <2>2, ProvisioningAssumption
      DEF FailureInv, BuildFailure, Tick, AllTrue, Status
    <3>3. w = "containers" => run # "error"
      BY <2>2 DEF FailureInv, RunFailure, Tick, AllTrue, Status
    <3> QED BY <2>2, <3>1, <3>2, <3>3 DEF Waits
  <2>3. \A w \in Waits : Tick(w) => UNCHANGED wg \/ (wg[w] = 1 /\ wg' = [wg EXCEPT ![w] = 0])
    BY DEF Tick
  <2>4. (\E w \in Waits : Tick(w)) \/ UNCHANGED wg
    BY ServiceFrame, Steps
    DEF cliVars, ClearReturned, Resolve, GetNetwork, CreateNetwork, Launch, Derive,
        ImagesReady, DeriveAgain, ContainersReady, OpenBrowser, OpenTerminalAndReturn,
        WatchEnter, WatchDone, WatchError, WatchTick, TickerStops, MapRace, BuildReturned,
        RunReturned, Background
  <2> QED BY <2>1, <2>2, <2>3, <2>4
<1> QED BY <1>1, TypesInvariant, FailureInvariant, PTL DEF Spec, FailureHoldsWait
-----------------------------------------------------------------------------
(* What the command opens.                                                 *)

\* The places of the runner's goroutines against their statuses, against what
\* the health checks have answered and against what RunContainers returns.
RunOutcome ==
    /\ \A i \in Images : rpc[i] = "nil" => StartingImages[i] = "true"
    /\ \A i \in Images : rpc[i] = "error" => runErr
    /\ \A i \in Images : rpc[i] = "healthy" => i \in sawHealthy
    /\ run \in {"nil", "error"} => R!AllReturned
    /\ run = "nil" => ~runErr
    /\ imageToConnect # None => imageToConnect \in sawHealthy
    /\ OpenTerminal # None => OpenTerminal \in sawHealthy /\ run = "nil"

\* The terminal is that of a container which has been found healthy, and the
\* run has come to its end: every image is marked.
TerminalReady ==
    terminal # None => /\ terminal \in sawHealthy
                       /\ run = "nil" /\ \A i \in Images : StartingImages[i] = "true"

\* A goroutine of the runner keeps RunOutcome, and takes back nothing of it.
LEMMA RunnerKeepsOutcome ==
  ASSUME R!TypeOK, RunOutcome, NEW i \in Images, R!Worker(i)
  PROVE  RunOutcome' /\ UNCHANGED run /\ sawHealthy \subseteq sawHealthy' /\ run # "nil"
<1> USE ProvisioningAssumption
    DEF R!TypeOK, R!Statuses, R!Points, RunOutcome, R!AllReturned, R!Goto, R!Fail
<1>1. CASE R!Register(i) BY <1>1 DEF R!Register
<1>2. CASE R!Create(i) BY <1>2 DEF R!Create
<1>3. CASE R!Start(i) BY <1>3 DEF R!Start
<1>4. CASE R!PollHealthy(i) BY <1>4 DEF R!PollHealthy
<1>5. CASE R!PollFails(i) BY <1>5 DEF R!PollFails
<1>6. CASE R!Timeout(i) BY <1>6 DEF R!Timeout
<1>7. CASE R!Mark(i) BY <1>7 DEF R!Mark
<1> QED BY <1>1, <1>2, <1>3, <1>4, <1>5, <1>6, <1>7 DEF R!Worker

OpenInv == RunOutcome /\ TerminalReady

\* Both hold at first and are kept by every step of the command.
LEMMA OpenInvariant == Spec => []OpenInv
<1> USE DEF Others, buildVars, runVars
<1>1. Init => OpenInv
  BY ProvisioningAssumption
  DEF Init, B!Init, R!InitRun, OpenInv, RunOutcome, R!AllReturned, TerminalReady
<1>2. TypeInv /\ SlateInv /\ OpenInv /\ [Next]_vars => OpenInv'
  <2> SUFFICES ASSUME TypeInv, SlateInv, OpenInv, [Next]_vars PROVE OpenInv'
    OBVIOUS
  <2>0. R!TypeOK /\ RunOutcome /\ TerminalReady
    BY DEF TypeInv, TypeOK, OpenInv
  <2>1. ASSUME UNCHANGED runVars PROVE RunOutcome'
    BY <2>0, <2>1 DEF RunOutcome, R!AllReturned
  <2>2. ASSUME UNCHANGED runVars, terminal' \in {terminal, None} PROVE OpenInv'
    BY <2>0, <2>1, <2>2 DEF OpenInv, TerminalReady
  <2>3. CASE UNCHANGED vars
    BY <2>2, <2>3 DEF vars, cliVars
  <2>4. CASE OpenTerminalAndReturn
    <3>1. UNCHANGED runVars /\ terminal' = OpenTerminal
      BY <2>4 DEF OpenTerminalAndReturn, ServiceVars
    <3>2. OpenTerminal # None =>
             /\ OpenTerminal \in sawHealthy /\ run = "nil"
             /\ \A i \in Images : StartingImages[i] = "true"
      BY <2>0 DEF RunOutcome, R!AllReturned
    <3>3. TerminalReady'
      BY <3>1, <3>2 DEF TerminalReady
    <3> QED BY <2>1, <3>1, <3>3 DEF OpenInv
  <2>5. CASE CommandStep /\ ~OpenTerminalAndReturn
    <3>1. UNCHANGED terminal
      BY <2>5
      DEF CommandStep, ClearReturned, Resolve, Launch, Derive, ImagesReady, DeriveAgain,
          ContainersReady, OpenBrowser, WatchEnter, WatchDone, WatchError, WatchTick,
          Tick, TickerStops, MapRace, BuildReturned, RunReturned, Background, cliVars
    <3> QED BY <2>2, <2>5, <3>1, CommandStepFrame DEF ServiceVars
  <2>6. CASE Clear \/ GetNetwork \/ CreateNetwork
    BY <2>2, <2>6 DEF Clear, GetNetwork, CreateNetwork, cliVars
  <2>7. CASE Builder(B!Next)
    BY <2>2, <2>7 DEF Builder, RestOfRun, cliVars
  <2>8. CASE Runner(R!CallRun)
    <3>1. \A i \in Images : rpc[i] = "idle" /\ rpc'[i] = "register"
      BY <2>8 DEF Runner, R!CallRun, SlateInv, InStages
    <3>2. run = "idle" /\ run' = "wait" /\ terminal = None /\ UNCHANGED terminal
      BY <2>0, <2>8 DEF Runner, R!CallRun, TerminalReady, cliVars
    <3>3. RunOutcome'
      BY <2>0, <2>8, <3>1, <3>2 DEF Runner, R!CallRun, RunOutcome, R!AllReturned
    <3> QED BY <3>2, <3>3 DEF OpenInv, TerminalReady
  <2>9. CASE Runner(R!FinishRun)
    <3>1. RunOutcome'
      BY <2>0, <2>9 DEF Runner, R!FinishRun, RunOutcome, R!AllReturned, R!TypeOK
    <3>2. run = "wait" /\ terminal = None /\ UNCHANGED terminal
      BY <2>0, <2>9 DEF Runner, R!FinishRun, TerminalReady, cliVars
    <3> QED BY <3>1, <3>2 DEF OpenInv, TerminalReady
  <2>10. ASSUME NEW i \in Images, Runner(R!Worker(i)) PROVE OpenInv'
    <3>1. RunOutcome' /\ run # "nil"
      BY <2>0, <2>10, RunnerKeepsOutcome DEF Runner
    <3>2. terminal = None /\ UNCHANGED terminal
      BY <2>0, <2>10, <3>1 DEF Runner, TerminalReady, cliVars
    <3> QED BY <3>1, <3>2 DEF OpenInv, TerminalReady
  <2>11. CASE Daemon
    BY <2>2, <2>11
    DEF Daemon, R!Docker, R!ProbeResult, R!ContainerExits, R!runVars, cliVars
  <2> QED
    BY <2>3, <2>4, <2>5, <2>6, <2>7, <2>8, <2>9, <2>10, <2>11, Steps
    DEF CommandStep, R!Caller, Runner
<1> QED BY <1>1, <1>2, TypesInvariant, SlateInvariant, PTL DEF Spec

\* The command reads OpenTerminal when its second wait is over, which may be
\* before RunContainers has set it, or on an early tick over an empty map
\* before anything runs: what it then opens a terminal in, if anything, is a
\* container that was found healthy, with every other image marked.
THEOREM TerminalCorrect == Spec => []TerminalReady
<1>1. OpenInv => TerminalReady
  BY DEF OpenInv
<1> QED BY <1>1, OpenInvariant, PTL

-----------------------------------------------------------------------------
(* What the command and its background goroutine let each other know.      *)

\* The builder's map and result: what BuildFailure leaves out. An errgroup
\* without an error has none returned to it; and where there is one goroutine,
\* err holds what that one last wrote.
BuildBoard ==
    /\ build \in {"wait", "nil", "error"} => \A i \in Images : BuildingImages[i] # "absent"
    /\ build \in {"nil", "error"} => \A i \in Tagged : pc[i] \in {"nil", "error"}
    /\ \A i \in Tagged : pc[i] = "error" => groupErr # "nil"
    /\ (\A i, j \in Tagged : i = j) =>
          \A i \in Tagged :
              /\ pc[i] \in {"checkNotFound", "report", "return"} => err # "nil"
              /\ pc[i] = "nil" => BuildingImages[i] = "true"

\* The runner's map before a goroutine has registered its image.
RunBoard ==
    \A i \in Images : rpc[i] \in {"idle", "register"} => StartingImages[i] = "absent"

\* The second wait begins after the first one has ended.
WaitsInOrder ==
    /\ ctl \in {"deriveAgain", "containers", "browser", "terminal"} => wg["images"] = 0
    /\ ticker["containers"] => wg["images"] = 0

ProgressInv == BuildBoard /\ RunBoard /\ WaitsInOrder

\* The builder keeps BuildBoard.
LEMMA BuilderKeepsBoard ==
  ASSUME B!TypeOK, BuildFailure, BuildBoard, B!Next PROVE BuildBoard'
<1> USE ProvisioningAssumption
    DEF B!TypeOK, B!Statuses, B!Errors, B!Points, BuildFailure, BuildBoard
<1>1. CASE B!CallBuild BY <1>1 DEF B!CallBuild
<1>2. CASE B!Spawn BY <1>2 DEF B!Spawn
<1>3. CASE B!Finish BY <1>3 DEF B!Finish
<1>4. ASSUME NEW i \in Images, B!Register(i) PROVE BuildBoard'
  BY <1>4 DEF B!Register
<1>5. ASSUME NEW i \in Tagged, B!Worker(i) PROVE BuildBoard'
  <2>1. CASE B!Exists(i) BY <2>1 DEF B!Exists, B!Goto
  <2>2. CASE B!CheckExists(i) BY <2>2 DEF B!CheckExists, B!Goto
  <2>3. CASE B!CheckNotFound(i) BY <2>3 DEF B!CheckNotFound, B!Goto
  <2>4. CASE B!BuildImage(i) BY <2>4 DEF B!BuildImage, B!Goto
  <2>5. CASE B!CheckBuild(i) BY <2>5 DEF B!CheckBuild, B!Goto
  <2>6. CASE B!Report(i) BY <2>6 DEF B!Report
  <2>7. CASE B!Return(i) BY <2>7 DEF B!Return, B!Goto
  <2>8. CASE B!Mark(i) BY <2>8 DEF B!Mark, B!Goto
  <2> QED BY <1>5, <2>1, <2>2, <2>3, <2>4, <2>5, <2>6, <2>7, <2>8 DEF B!Worker
<1> QED BY <1>1, <1>2, <1>3, <1>4, <1>5 DEF B!Next, B!Caller

\* A goroutine of the runner keeps RunBoard.
LEMMA RunnerKeepsBoard ==
  ASSUME R!TypeOK, RunBoard, NEW i \in Images, R!Worker(i) PROVE RunBoard'
BY DEF R!TypeOK, RunBoard, R!Worker, R!Register, R!Create, R!Start, R!PollHealthy,
       R!PollFails, R!Timeout, R!Mark, R!Goto, R!Fail

\* The command keeps the order of its waits.
LEMMA CommandKeepsOrder ==
  ASSUME TypeInv, WaitsInOrder, [Next]_vars PROVE WaitsInOrder'
<1>0. wg \in [Waits -> 0..1] /\ ticker \in [Waits -> BOOLEAN]
  BY DEF TypeInv, TypeOK
<1> USE <1>0 DEF WaitsInOrder, Waits, At, Abort
<1>1. CASE UNCHANGED vars \/ UNCHANGED cliVars
  BY <1>1 DEF vars, cliVars
<1>2. CASE ClearReturned \/ Resolve \/ GetNetwork \/ CreateNetwork \/ Launch \/ Derive
  <2>1. ctl' \notin {"deriveAgain", "containers", "browser", "terminal"} \/ ctl' = ctl
    BY <1>2 DEF ClearReturned, Resolve, GetNetwork, CreateNetwork, Launch, Derive
  <2>2. UNCHANGED wg /\ ticker'["containers"] = ticker["containers"]
    BY <1>2 DEF ClearReturned, Resolve, GetNetwork, CreateNetwork, Launch, Derive
  <2> QED BY <2>1, <2>2
<1>3. CASE ImagesReady BY <1>3 DEF ImagesReady
<1>4. CASE DeriveAgain BY <1>4 DEF DeriveAgain
<1>5. CASE ContainersReady \/ OpenBrowser \/ OpenTerminalAndReturn
  BY <1>5 DEF ContainersReady, OpenBrowser, OpenTerminalAndReturn
<1>6. CASE WatchEnter \/ WatchDone \/ WatchError \/ WatchTick
  BY <1>6 DEF WatchEnter, WatchDone, WatchError, WatchTick
<1>7. ASSUME NEW w \in Waits, Tick(w) PROVE WaitsInOrder'
  <2>1. UNCHANGED <<ctl, ticker>> /\ (UNCHANGED wg \/ wg' = [wg EXCEPT ![w] = 0])
    BY <1>7 DEF Tick
  <2>2. wg["images"] = 0 => wg'["images"] = 0
    BY <2>1
  <2> QED BY <2>1, <2>2
<1>8. ASSUME NEW w \in Waits, TickerStops(w) PROVE WaitsInOrder'
  BY <1>8 DEF TickerStops
<1>9. CASE \E w \in Waits : MapRace(w) BY <1>1, <1>9 DEF MapRace
<1>10. CASE BuildReturned \/ RunReturned
  BY <1>10 DEF BuildReturned, RunReturned, Background
<1> QED
  BY <1>1, <1>2, <1>3, <1>4, <1>5, <1>6, <1>7, <1>8, <1>9, <1>10, ServiceFrame, Steps

\* ProgressInv holds at first and is kept by every step of the command.
LEMMA ProgressInvariant == Spec => []ProgressInv
<1> USE DEF Others, buildVars, runVars
<1>1. Init => ProgressInv
  BY ProvisioningAssumption
  DEF Init, B!Init, R!InitRun, ProgressInv, BuildBoard, RunBoard, WaitsInOrder, Waits
<1>2. TypeInv /\ SlateInv /\ FailureInv /\ ProgressInv /\ [Next]_vars => ProgressInv'
  <2> SUFFICES ASSUME TypeInv, SlateInv, FailureInv, ProgressInv, [Next]_vars
               PROVE  ProgressInv'
    OBVIOUS
  <2>0. /\ B!TypeOK /\ R!TypeOK /\ BuildFailure /\ BuildBoard /\ RunBoard
        /\ WaitsInOrder'
    BY CommandKeepsOrder DEF TypeInv, TypeOK, FailureInv, ProgressInv
  <2>1. ASSUME UNCHANGED buildVars PROVE BuildBoard'
    BY <2>0, <2>1 DEF BuildBoard
  <2>2. ASSUME UNCHANGED runVars PROVE RunBoard'
    BY <2>0, <2>2 DEF RunBoard
  <2>3. CASE UNCHANGED vars
    BY <2>0, <2>1, <2>2, <2>3 DEF vars, ProgressInv
  <2>4. CASE CommandStep
    BY <2>0, <2>1, <2>2, <2>4, CommandStepFrame DEF ServiceVars, ProgressInv
  <2>5. CASE Clear \/ GetNetwork \/ CreateNetwork
    BY <2>0, <2>1, <2>2, <2>5 DEF Clear, GetNetwork, CreateNetwork, ProgressInv
  <2>6. CASE Builder(B!Next)
    BY <2>0, <2>2, <2>6, BuilderKeepsBoard DEF Builder, RestOfRun, ProgressInv
  <2>7. CASE Runner(R!CallRun)
    <3>1. RunBoard'
      BY <2>0, <2>7 DEF Runner, R!CallRun, RunBoard, SlateInv, InStages
    <3> QED BY <2>0, <2>1, <2>7, <3>1 DEF Runner, RestOfBuild, ProgressInv
  <2>8. CASE Runner(R!FinishRun)
    BY <2>0, <2>1, <2>8 DEF Runner, R!FinishRun, RunBoard, RestOfBuild, ProgressInv
  <2>9. ASSUME NEW i \in Images, Runner(R!Worker(i)) PROVE ProgressInv'
    BY <2>0, <2>1, <2>9, RunnerKeepsBoard DEF Runner, RestOfBuild, ProgressInv
  <2>10. CASE Daemon
    BY <2>0, <2>1, <2>2, <2>10
    DEF Daemon, R!Docker, R!ProbeResult, R!ContainerExits, R!runVars, RestOfBuild, ProgressInv
  <2> QED
    BY <2>3, <2>4, <2>5, <2>6, <2>7, <2>8, <2>9, <2>10, Steps DEF CommandStep, R!Caller, Runner
<1> QED BY <1>1, <1>2, TypesInvariant, SlateInvariant, FailureInvariant, PTL DEF Spec

Built == IF build \in {"nil", "error"} THEN build ELSE "none"
Ran == IF run \in {"nil", "error"} THEN run ELSE "none"
Reported == bg = "done" /\ (build = "error" \/ run = "error")
Over == {w \in Waits : wg[w] = 0}

ProgressStep == [P!Next]_(P!vars)

\* What Progress does not see is a stutter.
LEMMA UnseenSteps ==
  ASSUME UNCHANGED <<BuildingImages, build, StartingImages, run, errors, wg>>,
         bg' = bg \/ (~Reported /\ ~Reported')
  PROVE  ProgressStep
BY DEF ProgressStep, P!vars, Reported

\* A step of Build is one of its board.
LEMMA BuilderReports ==
  ASSUME TypeInv, FailureInv, ProgressInv, Builder(B!Next) PROVE ProgressStep
<1>0. /\ B!TypeOK /\ BuildFailure /\ BuildBoard
      /\ bg = "build" /\ B!Next
      /\ UNCHANGED <<StartingImages, run, bg, errors, wg>>
      /\ ~Reported /\ ~Reported'
  BY DEF TypeInv, TypeOK, FailureInv, ProgressInv, Builder, RestOfRun, runVars, cliVars, Reported
<1>1. ASSUME P!Build!Next PROVE ProgressStep
  BY <1>0, <1>1 DEF ProgressStep, P!Next, P!BuildStep, Reported
<1>2. CASE B!CallBuild \/ B!Spawn
  <2>1. UNCHANGED BuildingImages /\ Built = "none" /\ Built' = "none"
    BY <1>2 DEF B!CallBuild, B!Spawn, Built
  <2> QED BY <1>0, <2>1 DEF ProgressStep, P!vars, Built, Reported
<1>3. ASSUME NEW i \in Images, B!Register(i) PROVE P!Build!Next
  BY <1>3 DEF B!Register, P!Build!Next, P!Build!Register, P!Build!SetStatus
<1>4. CASE B!Finish
  <2>1. /\ Built = "none" /\ UNCHANGED BuildingImages
        /\ \A i \in Images : BuildingImages[i] # "absent"
    BY <1>0, <1>4 DEF B!Finish, Built, BuildBoard
  <2>2. CASE groupErr = "nil"
    <3>1. Built' = "nil"
      BY <1>4, <2>2 DEF B!Finish, Built
    <3>2. (\A i, j \in Tagged : i = j) => \A i \in Tagged : BuildingImages[i] = "true"
      BY <1>0, <1>4, <2>2 DEF B!Finish, BuildBoard
    <3>3. P!Build!Answer
      BY <2>1, <3>1, <3>2 DEF P!Build!Answer, P!Build!AllReady, Built
    <3> QED BY <1>1, <3>3 DEF P!Build!Next
  <2>3. CASE groupErr # "nil"
    <3>1. Built' = "error" /\ \E i \in Tagged : BuildingImages[i] # "true"
      BY <1>0, <1>4, <2>3 DEF B!Finish, Built, BuildFailure
    <3>2. P!Build!Answer
      BY <2>1, <3>1 DEF P!Build!Answer, P!Build!AllReady, Built
    <3> QED BY <1>1, <3>2 DEF P!Build!Next
  <2> QED BY <2>2, <2>3
<1>5. ASSUME NEW i \in Tagged, B!Mark(i) PROVE P!Build!Next
  <2>1. Built = "none" /\ Built' = Built
    BY <1>0, <1>5 DEF B!Mark, B!Goto, Built, BuildBoard
  <2>2. BuildingImages[i] = "false"
    BY <1>0, <1>5, ProvisioningAssumption
    DEF B!Mark, B!Goto, B!TypeOK, B!Statuses, BuildFailure
  <2> QED
    BY <1>5, <2>1, <2>2 DEF B!Mark, P!Build!Next, P!Build!Mark, P!Build!SetStatus, Built
<1>6. ASSUME NEW i \in Tagged, B!Worker(i), ~B!Mark(i) PROVE ProgressStep
  <2>1. UNCHANGED <<BuildingImages, build>>
    BY <1>6 DEF B!Worker, B!Exists, B!CheckExists, B!CheckNotFound, B!BuildImage,
                B!CheckBuild, B!Report, B!Return, B!Goto
  <2> QED BY <1>0, <2>1, UnseenSteps
<1> QED BY <1>0, <1>1, <1>2, <1>3, <1>4, <1>5, <1>6 DEF B!Next, B!Caller

\* A step of RunContainers is one of the second board, after a nil of the first.
LEMMA RunnerReports ==
  ASSUME TypeInv, SlateInv, FailureInv, OpenInv, ProgressInv,
         Runner(R!Caller) \/ \E i \in Images : Runner(R!Worker(i))
  PROVE  ProgressStep
<1>0. /\ R!TypeOK /\ RunFailure /\ RunOutcome /\ RunBoard
      /\ bg = "run" /\ Built = "nil"
      /\ UNCHANGED <<BuildingImages, build, bg, errors, wg>>
      /\ ~Reported /\ ~Reported'
  BY DEF TypeInv, TypeOK, SlateInv, InStages, FailureInv, OpenInv, ProgressInv, Runner,
         RestOfBuild, buildVars, cliVars, Built, Reported
<1>1. ASSUME P!Run!Next PROVE ProgressStep
  BY <1>0, <1>1 DEF ProgressStep, P!Next, P!RunStep, Built, Reported
<1>2. CASE R!CallRun
  <2>1. UNCHANGED StartingImages /\ Ran = "none" /\ Ran' = "none"
    BY <1>2 DEF R!CallRun, Ran
  <2> QED BY <1>0, <2>1 DEF ProgressStep, P!vars, Ran, Reported
<1>3. CASE R!FinishRun
  <2>1. /\ Ran = "none" /\ UNCHANGED StartingImages
        /\ \A i \in Images : rpc[i] \in {"nil", "error"} /\ StartingImages[i] # "absent"
    BY <1>0, <1>3 DEF R!FinishRun, R!AllReturned, Ran, RunFailure
  <2>2. CASE runErr
    <3>1. Ran' = "error" /\ \E i \in Images : StartingImages[i] # "true"
      BY <1>0, <1>3, <2>2 DEF R!FinishRun, Ran, RunFailure
    <3>2. P!Run!Answer
      BY <2>1, <3>1 DEF P!Run!Answer, P!Run!AllReady, Ran
    <3> QED BY <1>1, <3>2 DEF P!Run!Next
  <2>3. CASE ~runErr
    <3>1. Ran' = "nil" /\ \A i \in Images : StartingImages[i] = "true"
      BY <1>0, <1>3, <2>1, <2>3 DEF R!FinishRun, Ran, RunOutcome
    <3>2. P!Run!Answer
      BY <2>1, <3>1 DEF P!Run!Answer, P!Run!AllReady, Ran
    <3> QED BY <1>1, <3>2 DEF P!Run!Next
  <2> QED BY <2>2, <2>3
<1>4. ASSUME NEW i \in Images, R!Worker(i) PROVE ProgressStep
  <2>1. rpc[i] \notin {"nil", "error"} => Ran = "none"
    BY <1>0 DEF RunOutcome, R!AllReturned, Ran
  <2>2. CASE R!Register(i)
    <3>1. Ran = "none" /\ Ran' = Ran /\ StartingImages[i] = "absent"
      BY <1>0, <2>1, <2>2 DEF R!Register, R!Goto, Ran, RunBoard
    <3>2. P!Run!Register(i)
      BY <2>2, <3>1 DEF R!Register, P!Run!Register, P!Run!SetStatus, Ran
    <3> QED BY <1>1, <3>2 DEF P!Run!Next
  <2>3. CASE R!Mark(i)
    <3>1. Ran = "none" /\ Ran' = Ran
      BY <2>1, <2>3 DEF R!Mark, R!Goto, Ran
    <3>2. StartingImages[i] = "false"
      BY <1>0, <2>3 DEF R!Mark, R!Goto, R!TypeOK, R!Statuses, RunFailure
    <3>3. P!Run!Mark(i)
      BY <2>3, <3>1, <3>2 DEF R!Mark, P!Run!Mark, P!Run!SetStatus, Ran
    <3> QED BY <1>1, <3>3 DEF P!Run!Next
  <2>4. CASE ~R!Register(i) /\ ~R!Mark(i)
    <3>1. UNCHANGED <<StartingImages, run>>
      BY <1>4, <2>4 DEF R!Worker, R!Create, R!Start, R!PollHealthy, R!PollFails, R!Timeout
    <3> QED BY <1>0, <3>1, UnseenSteps
  <2> QED BY <2>2, <2>3, <2>4
<1> QED BY <1>2, <1>3, <1>4 DEF Runner, R!Caller

\* A tick that ends a wait finds no status false, and the waits are in order.
LEMMA TickReports ==
  ASSUME TypeInv, ProgressInv, NEW w \in Waits, Tick(w) PROVE ProgressStep
<1>0. /\ wg \in [Waits -> 0..1] /\ WaitsInOrder
      /\ UNCHANGED <<BuildingImages, build, StartingImages, run, bg, errors>>
      /\ ticker[w] /\ AllTrue(w)
  BY DEF TypeInv, TypeOK, ProgressInv, Tick, ServiceVars, Others, buildVars, runVars
<1>1. CASE UNCHANGED wg
  BY <1>0, <1>1, UnseenSteps
<1>2. CASE wg[w] = 1 /\ wg' = [wg EXCEPT ![w] = 0]
  <2>1. w \notin Over /\ Over' = Over \cup {w}
    BY <1>0, <1>2 DEF Over
  <2>2. CASE w = "images"
    <3>1. \A i \in Images : BuildingImages[i] # "false"
      BY <1>0, <2>2 DEF AllTrue, Status
    <3>2. P!EndWait("images", BuildingImages)
      BY <1>0, <2>1, <2>2, <3>1 DEF P!EndWait, Over
    <3> QED BY <3>2 DEF ProgressStep, P!Next, P!EndWaits
  <2>3. CASE w = "containers"
    <3>1. \A i \in Images : StartingImages[i] # "false"
      BY <1>0, <2>3 DEF AllTrue, Status
    <3>2. "images" \in Over
      BY <1>0, <2>3 DEF WaitsInOrder, Over, Waits
    <3>3. P!EndWait("containers", StartingImages)
      BY <1>0, <2>1, <2>3, <3>1 DEF P!EndWait, Over
    <3> QED BY <3>2, <3>3 DEF ProgressStep, P!Next, P!EndWaits, Over
  <2> QED BY <2>2, <2>3 DEF Waits
<1> QED BY <1>1, <1>2 DEF Tick

\* The return of Build or of RunContainers sends an error, if there is one.
LEMMA ReturnReports ==
  ASSUME TypeInv, SlateInv, BuildReturned \/ RunReturned PROVE ProgressStep
<1>0. UNCHANGED <<BuildingImages, build, StartingImages, run, wg>> /\ errors \in Nat
  BY DEF BuildReturned, RunReturned, Background, ServiceVars, Others, buildVars, runVars,
         TypeInv, TypeOK
<1>1. ASSUME bg # "done", bg' = "done", errors' = errors + 1, build = "error" \/ run = "error"
      PROVE  ProgressStep
  <2>1. ~Reported /\ Reported'
    BY <1>0, <1>1 DEF Reported
  <2>2. Built = "error" \/ Ran = "error"
    BY <1>1 DEF Built, Ran
  <2>3. P!Send
    BY <1>0, <1>1, <2>1, <2>2 DEF P!Send, Reported, Built, Ran
  <2> QED BY <2>3 DEF ProgressStep, P!Next
<1>2. CASE BuildReturned
  <2>1. CASE build = "nil"
    BY <1>0, <1>2, <2>1, UnseenSteps DEF BuildReturned, Background, Reported
  <2>2. CASE build = "error"
    BY <1>1, <1>2, <2>2 DEF BuildReturned, Background
  <2> QED BY <1>2, <2>1, <2>2 DEF BuildReturned
<1>3. CASE RunReturned
  <2>1. CASE run = "nil"
    BY <1>0, <1>3, <2>1, UnseenSteps
    DEF RunReturned, Background, Reported, SlateInv, InStages
  <2>2. CASE run = "error"
    BY <1>1, <1>3, <2>2 DEF RunReturned, Background
  <2> QED BY <1>3, <2>1, <2>2 DEF RunReturned
<1> QED BY <1>2, <1>3

\* Provisioning implements Progress, for every chapter: what the command sees
\* of its background goroutine is two boards in sequence, one error at most,
\* and no wait ends while an image its map knows of is unready.
THEOREM ReportsCorrect == Spec => ReportsProgress
<1> USE ProvisioningAssumption
<1>1. Init => P!Init
  BY DEF Init, B!Init, R!InitRun, P!Init, P!Build!Init, P!Run!Init, Waits
<1>2. TypeInv /\ SlateInv /\ FailureInv /\ OpenInv /\ ProgressInv /\ [Next]_vars
      => ProgressStep
  <2> SUFFICES ASSUME TypeInv, SlateInv, FailureInv, OpenInv, ProgressInv, [Next]_vars
               PROVE  ProgressStep
    OBVIOUS
  <2> USE DEF ServiceVars, Others, buildVars, runVars, cliVars
  <2>1. CASE UNCHANGED vars
    BY <2>1, UnseenSteps DEF vars
  <2>2. CASE Clear \/ GetNetwork \/ CreateNetwork
    <3>1. UNCHANGED <<BuildingImages, build, StartingImages, run, errors, wg, bg>>
      BY <2>2 DEF Clear, GetNetwork, CreateNetwork
    <3> QED BY <3>1, UnseenSteps
  <2>3. CASE ClearReturned \/ Resolve
    BY <2>3, UnseenSteps DEF ClearReturned, Resolve
  <2>4. CASE Launch
    <3>1. bg = "idle" /\ bg' = "build"
      BY <2>4 DEF Launch, At, TypeInv, NotLaunched, Beginning
    <3> QED BY <2>4, <3>1, UnseenSteps DEF Launch, Reported
  <2>5. CASE Derive \/ ImagesReady \/ DeriveAgain \/ ContainersReady \/ OpenBrowser
             \/ OpenTerminalAndReturn
    <3>1. UNCHANGED <<BuildingImages, build, StartingImages, run, errors, wg, bg>>
      BY <2>5 DEF Derive, ImagesReady, DeriveAgain, ContainersReady, OpenBrowser,
                  OpenTerminalAndReturn
    <3> QED BY <3>1, UnseenSteps
  <2>6. CASE WatchEnter \/ WatchDone \/ WatchTick
    BY <2>6, UnseenSteps DEF WatchEnter, WatchDone, WatchTick
  <2>7. CASE WatchError
    <3>1. P!Receive
      BY <2>7 DEF WatchError, P!Receive
    <3> QED BY <3>1 DEF ProgressStep, P!Next
  <2>8. ASSUME NEW w \in Waits, Tick(w) PROVE ProgressStep
    BY <2>8, TickReports
  <2>9. CASE \E w \in Waits : TickerStops(w) \/ MapRace(w)
    BY <2>9, UnseenSteps DEF TickerStops, MapRace
  <2>10. CASE Builder(B!Next) BY <2>10, BuilderReports
  <2>11. CASE Runner(R!Caller) \/ \E i \in Images : Runner(R!Worker(i))
    BY <2>11, RunnerReports
  <2>12. CASE BuildReturned \/ RunReturned BY <2>12, ReturnReports
  <2>13. CASE Daemon
    <3>1. UNCHANGED <<BuildingImages, build, StartingImages, run, errors, wg, bg>>
      BY <2>13 DEF Daemon, R!Docker, R!ProbeResult, R!ContainerExits, R!runVars, RestOfBuild
    <3> QED BY <3>1, UnseenSteps
  <2> QED
    BY <2>1, <2>2, <2>3, <2>4, <2>5, <2>6, <2>7, <2>8, <2>9, <2>10, <2>11, <2>12, <2>13, Steps
<1> QED
  BY <1>1, <1>2, TypesInvariant, SlateInvariant, FailureInvariant, OpenInvariant,
     ProgressInvariant, PTL
  DEF Spec, ReportsProgress, P!Spec, ProgressStep
-----------------------------------------------------------------------------
(* What follows from the refinements.                                      *)

I == INSTANCE PromiseProofs WITH
        New <- Images,
        stage <- Stage, running <- Running, started <- Started,
        building <- BuildingImages, built <- Built,
        starting <- StartingImages, ran <- Ran,
        reported <- Reported, over <- Over

\* Only a container of the new environment comes to run, and only once.
RunsFresh ==
    \A c \in Containers :
        container[c] # "running" /\ container'[c] = "running"
            => c \in Images /\ container[c] \in {"none", "created"}

NeverRevived == [][RunsFresh]_vars

\* Whatever fails, races or exits, no step of the command or of the daemon
\* brings back a container that has run: inherited from Handover.
THEOREM NeverRevivedCorrect == Spec => NeverRevived
<1>1. H!Init => I!H!Init
  BY DEF H!Init, I!H!Init, Stage, Running, Started
<1>2. [H!Next]_(H!vars) => [I!H!Next]_(I!H!vars)
  BY DEF H!Next, H!vars, H!Enter, H!End, H!Stop, H!Start,
         I!H!Next, I!H!vars, I!H!Enter, I!H!End, I!H!Stop, I!H!Start, Stage, Running, Started
<1>3. Spec => I!H!Spec
  BY <1>1, <1>2, HandoverCorrect, PTL DEF HandsOver, H!Spec, I!H!Spec
<1>4. I!H!Spec => [][I!RunsFirst]_(I!H!vars)
  BY I!ComesToRunOnceCorrect DEF I!ComesToRunOnce
<1>5. TypeInv /\ [I!RunsFirst]_(I!H!vars) => [RunsFresh]_vars
  <2> SUFFICES ASSUME TypeInv, [I!RunsFirst]_(I!H!vars), NEW c \in Containers,
                      container[c] # "running", container'[c] = "running"
               PROVE  c \in Images /\ container[c] \in {"none", "created"}
    BY DEF RunsFresh
  <2>1. c \in Running' \ Running
    BY DEF Running, Containers
  <2>2. c \in Images /\ c \notin Started
    BY <2>1 DEF I!H!vars, I!RunsFirst
  <2>3. container[c] \in {"none", "created", "running", "exited", "removed"}
    BY DEF TypeInv, TypeOK, R!TypeOK
  <2> QED BY <2>2, <2>3 DEF Started
<1> QED BY <1>3, <1>4, <1>5, TypesInvariant, PTL DEF NeverRevived

\* A wait that ends after its stage has answered ends with a stage that has
\* succeeded and with every image of the request ready.
EndsReady ==
    /\ wg["images"] = 1 /\ wg'["images"] = 0 /\ build \in {"nil", "error"}
          => build = "nil" /\ \A i \in Images : BuildingImages[i] = "true"
    /\ wg["containers"] = 1 /\ wg'["containers"] = 0 /\ run \in {"nil", "error"}
          => run = "nil" /\ wg["images"] = 0

WaitsEndReady == [][EndsReady]_vars

\* However late the command looks at its maps, it never takes a failed stage for
\* a finished one: inherited from Progress.
THEOREM WaitsEndReadyCorrect == Spec => WaitsEndReady
<1> USE DEF Built, Ran, Reported, Over
<1>1. P!Init => I!P!Init
  BY DEF P!Init, P!Build!Init, P!Run!Init, I!P!Init, I!P!Build!Init, I!P!Run!Init
<1>2. [P!Next]_(P!vars) => [I!P!Next]_(I!P!vars)
  BY DEF P!Next, P!vars, P!BuildStep, P!RunStep, P!Send, P!Receive, P!EndWaits, P!EndWait,
         P!Build!Next, P!Build!SetStatus, P!Build!Register, P!Build!Mark, P!Build!Answer,
         P!Build!AllReady, P!Run!Next, P!Run!SetStatus, P!Run!Register, P!Run!Mark,
         P!Run!Answer, P!Run!AllReady,
         I!P!Next, I!P!vars, I!P!BuildStep, I!P!RunStep, I!P!Send, I!P!Receive,
         I!P!EndWaits, I!P!EndWait,
         I!P!Build!Next, I!P!Build!SetStatus, I!P!Build!Register, I!P!Build!Mark,
         I!P!Build!Answer, I!P!Build!AllReady, I!P!Run!Next, I!P!Run!SetStatus,
         I!P!Run!Register, I!P!Run!Mark, I!P!Run!Answer, I!P!Run!AllReady
<1>3. Spec => I!P!Spec
  BY <1>1, <1>2, ReportsCorrect, PTL DEF ReportsProgress, P!Spec, I!P!Spec
<1>4. I!P!Spec => [][I!TrueEnd]_(I!P!vars)
  BY I!EndsTrulyCorrect, ProvisioningAssumption DEF I!EndsTruly
<1>5. TypeInv /\ TypeInv' /\ [I!TrueEnd]_(I!P!vars) => [EndsReady]_vars
  <2> SUFFICES ASSUME TypeInv, TypeInv', [I!TrueEnd]_(I!P!vars) PROVE EndsReady
    OBVIOUS
  <2>1. wg \in [Waits -> 0..1]
    BY DEF TypeInv, TypeOK
  <2> QED BY <2>1 DEF I!P!vars, I!TrueEnd, EndsReady, Waits
<1> QED BY <1>3, <1>4, <1>5, TypesInvariant, PTL DEF WaitsEndReady
=============================================================================
