# A verification project for apache-sedona-book

The repository holds the examples of a book on Apache Sedona. Three of its parts
have a life of their own. The command line tool under `src/cli`: `sedona
provision` builds Docker images, starts a chapter's containers, waits until they
are ready and opens the page to work in; `sedona clear` removes what it started;
`sedona list` shows it. And two pipelines that Airflow runs every day: the
lakehouse of chapter 8, a graph of 18 tasks over Iceberg tables, and the Overture
synchronisation of chapter 6, a sensor and a Spark job over a bucket. The rest are
a dbt project, a chat agent, container images, and many notebooks and one-off
Spark programs.

The TLA+ modules here model the tool (its goroutines, the variables they share,
the calls to the Docker daemon and what these leave behind) and the two
pipelines (their tasks under the scheduler's rules, and the tables and files
they read and write). TLC checks them on small instances; TLAPS proves the main
safety results for every instance.

Paths below are relative to `src/`; `cli/…` of the tool is `cli/internal/…`.

## 1. Inventory

| component | state | operations | hard behaviour | what makes it correct |
|---|---|---|---|---|
| CLI commands (`adapter/cli/client.go`) | variables `ctxWithCancel` and `cancel`, shared with a watcher goroutine; two WaitGroups; tickers | `provision`, `clear`, `list` | variables reassigned while the watcher reads them; waits that only end when all statuses are true; tickers that call `wg.Done` again | an error ends the command while it waits; a failed stage never looks finished |
| provision service (`service/provision`) | the channel `Errors`, the request | `Provision`, `Clear`, `ListContainers` | builds and runs in the background, after it has returned | the stages come in order, on a clean machine; one error at most |
| builder service (`service/builder`) and `dto` | `BuildingImages`, the named result `err` | `Build` | all goroutines assign and read `err` without a lock | a failed build never looks ready; only that race can hide a failure |
| image builder client (`adapter/client/imagebuilder`) | the daemon's images | `Exists`, `BuildImage` | errors inside a successful answer; archive written by a goroutine | nil only for a built image |
| run service (`service/run`) | `StartingImages`, `imageToConnect`, `OpenUrl`, `OpenTerminal` | `RunContainers`, `Clear` | health waits with a deadline; one container failing while the others start; a list that goes stale | nil means every status is true; Clear that succeeds leaves nothing running |
| container client (`adapter/client/container`) | the daemon's containers and network | create, start, inspect, list, kill, remove, network calls | containers exit by themselves, calls fail | see the callers |
| network service (`service/network`) | the network | `CreateOrGetNetwork`, `RemoveNetwork` | made once, reused | the network is there when containers start |
| resolver and configuration (`service/resolver`, `infrastructure/config`) | none | `Resolve` | sections that share an image; indexes from a flag | one request per image, complete mounts |
| earlier container service (`service/container`) | – | – | no command uses it | – |
| container entry points (`docker/*`, `…/imagebuilder/docker/*`) | files in the image, MinIO's bucket | start scripts | start order between containers, an upload that others watch | – |
| lakehouse DAG (`book/chapter8/dags`) | Iceberg tables, partitioned by date | 9 DDL tasks and 9 Spark jobs in a graph, two at a time | edges that are missing, jobs that die before or after their commit, tests that count what earlier runs wrote | a job reads what this run wrote and finds its tables; production holds tested data only; a run ends |
| Overture DAG (`book/chapter6/dags`) | releases and processed data in a bucket | a sensor and a Spark job per day | `depends_on_past`, skips, timeouts, an upload in progress | each day's release is processed, and one knows which failure holds up the days after it |
| dbt project (`book/chapter6/geospatialdbt`) | tables | models and tests | none of its own | – |
| geospatial agent (`geospatialagent`) | a session, the standard output | run, validate and describe SQL | output redirected during a call | – |
| compose file, make targets, chapter examples, snippet listings | – | – | – | – |

How they interact: the CLI command calls `Provision` in the main goroutine;
`Provision` calls `Clear` of the run service, the resolver and the network
service, launches a goroutine and returns. That goroutine calls `Build`, then
`RunContainers`; each of them starts one goroutine per image. The command's main
goroutine learns of their progress through the maps `BuildingImages` and
`StartingImages`, which its tickers poll, and of their failure through the
channel `Errors`, which the watcher reads. All of it ends with `os.Exit`, a
panic, or the return of `main`.

The tasks of a DAG interact through the state Airflow keeps of them (a task waits
for those upstream and, with `depends_on_past`, for itself of the day before) and
through the data: tables that one job overwrites and another reads, and the bucket
that the MinIO container fills file by file while the sensor looks at it. MinIO and
Airflow are containers of the same chapter, which the tool starts in parallel.

## 2. Modules

| module | models | extends or instantiates |
|---|---|---|
| `ImageBuilder` | `builder.Service.Build` over `imagebuilder.Client` | |
| `ContainerRunner` | `run.Service.RunContainers` over the container client | |
| `Cleanup` | `run.Service.Clear` and the `clear` command that calls it | |
| `Provisioning` | the `provision` command and `provision.Service.Provision` | instances of the three above, with their variables |
| `StatusBoard` | abstract: a map of statuses that one stage fills (absent, then false, then true) and the answer it ends with | instantiated by `ImageBuilder` and `ContainerRunner` with refinement mappings, and twice by `Progress` |
| `Progress` | abstract: what the background goroutine lets the command know (two boards in sequence, one error at most), and the two waits of the command | instantiated by `Provisioning` with a refinement mapping |
| `Handover` | abstract: what `provision` promises of the containers on the machine | instantiated by `Provisioning` with a refinement mapping |
| `Resolver` | `resolver.Service.Resolve` | |
| `Lakehouse` | the DAG of chapter 8: `dags/dag.py`, `dags/apps`, `dags/sql` | |
| `OvertureSync` | the DAG of chapter 6: `dags/overture.py`, `sensor.py`, `app.py`, and the entry point of MinIO | |
| `…Proofs` | theorems | the module of that name; `PromiseProofs`: `Handover` and `Progress` |
| `MC*` | instances for TLC | the module of the same name |

How state corresponds to code, in the modules of the tool:

* `BuildingImages` and `StartingImages` are the maps of
  `dto.StartContainersRequest`; "absent" means that the key is not in the map. A
  status of an image without a tag stays "false" because `FullName()` is never
  formed for it. Images are identified by their names.
* `pc[i]` and `rpc[i]` are the places of the goroutine of image *i*. A call to
  the daemon, and each single read or write of a variable that goroutines share,
  is a step. `err` of `buildImages` is therefore assigned in `Exists` and
  `BuildImage` and read in `CheckExists`, `CheckNotFound`, `CheckBuild`,
  `Report` and `Return`, in between which every other goroutine may act. A
  goroutine may read its own value or another's, whichever was last. An
  interface value has two words, and racing writes may leave the type of one
  and the data of the other. With a nil type it is nil; any other mixture is an
  error on which a method call may panic, at the latest in `Report`, which may
  panic for that reason whenever another goroutine has called the daemon.
* The other unsynchronised variables are single words (`OpenUrl`,
  `OpenTerminal`, `cancel`) or interfaces of one dynamic type
  (`ctxWithCancel`), which cannot be seen by half. `imageToConnect` is a string
  of two words, and two goroutines writing it could mix them; only sedonadbt has
  `open-terminal` in the chapters, so `TerminalAssumption` says that at most one image
  has a terminal, and there is one writer.
* `container`, `health`, `imageStore` and `network` are the daemon's state, as
  the calls see it: `created`, `running`, `exited`, `removed`. Containers exit
  and health checks change by actions of their own, at any time.
* `ctx` is the value of the variable `ctxWithCancel`, `watch` the context that
  the watcher's `select` has evaluated, `cancelled` the contexts that were
  cancelled. "first" is derived from the command's context and "second" from the
  background context, so that cancelling "first" cancels no other.
* `process` ends with "exited" (`os.Exit`, `main` returned) or "panicked".

Every variable assignment, guard, early return and error path of the tool's modelled
functions is an action or a disjunct of one; logging, animation and printing
are left out, except that the animation also reads the maps (`MapRace`).

Time is not modelled in the tool. A one-second tick, a 500 ms tick, the health interval and
the 120-second deadline may come at any moment and in any order, so a tick
before the first registration, which the clock makes improbable, is a behaviour
of the model too.

In `Lakehouse`:

* `Edges` is the graph of `dag.py`, with the edges inside the task groups for
  buildings and transportation; `Reads`, `Writes` and `Creates` collect what each
  file of `dags/apps` and `dags/sql` reads, overwrites and creates, `Needs` what
  has to exist for it. (The map names one file for each of them.)
* `status` is the task's state in the last run, `outcome` the run's. Starting,
  succeeding, failing and dying are steps, and so is each pass of the scheduler
  that marks tasks `upstream_failed`. No task has retries. Which ready task goes
  first is left open, so that priorities cannot hide an order.
* A job reads when it starts and writes at its end, and every other task may run in
  between. `shape` is the day whose shape is in `nl_shape`, which is not
  partitioned; `rows` counts the rows of each partition of the other tables.
  `INSERT OVERWRITE` in dynamic mode replaces the partitions it has rows for, and
  production receives the score table whole. Every reader reads all partitions.
  Rows are counted as far as an assertion counts them: buildings in units of
  50 000, so that the bounds 300 000 and 400 000 of the assertion are
  `MinBuildings = 6` and `MaxBuildings = 8`. `RowCount` counts the rows themselves,
  each a day and a number, which is what the job's `count()` does.
* `Refuse` is a missing table or an assertion that fails; `Die` is a job that dies
  for a reason of its own, with its commit made or not.
* A DDL task is one step; it commits once. Whether the catalog makes a table in a
  namespace that does not exist is left open.

In `Resolver`:

* A chapter is a function from paths to structures, a path being the positions of
  the sections that lead to a structure (`<<2, 1>>` is the first section of the
  second section); `IsChapter` says which functions are a document, of any depth.
* The recursion of `resolveImages` is the stack `todo` of the structures that are
  still to be resolved: a call takes the first, appends its images to `images`, and
  puts its sections in its place. `done`, `seen` and `requests` are the loop over the
  images, its map and the answer.
* The properties are stated over the document, without recursion or iteration:
  `Asked` are the structures at or below the one that was asked for, `Mentions` the
  places where they name a dependency, `NotAfter` the document order of places.

In `OvertureSync`:

* Time passes in ticks of 8 hours, the largest unit in which the run's due time
  (08:00 of the day after), midnight and the 24-hour timeout are all whole. A sensor that waits has poked in
  each tick before the next one comes, since it pokes every 2 seconds.
* `bucket` and `uploaded` are what the entry point of MinIO has made so far, one
  file per step, at any speed. Releases are days; a directory with more than a date
  in its name is in `suffixed`: the sensor cuts it to the date, the Spark job looks
  for the date itself and fails.
* `sensor[d]` and `spark[d]` are the states of the two tasks of day *d*.
  `DependsOnPast` is the rule by which a task waits for itself of the day before,
  which must have succeeded or been skipped.
* `read` is what the Spark job found when it started: of a release in the
  middle of its upload, a part.

### Abstractions, and what is deliberately wider than the code

* Why a call failed matters only as far as the code looks: `ErrImageNotFound`
  against the rest (`ImageBuilder`), `ErrNetworkNotFound` (`Cleanup`).
* `MayFail` says whether the daemon's calls may fail by themselves; one run sets
  it to `FALSE` to show a hang with no failure at all.
* A container without a health check keeps `health = "none"`.
* In `Cleanup`, a failing call and an interrupted command both use up
  `MaxFaults`, so that TLC's liveness question has an end.
* The runner's `IsHealthy` and its consequence are one step: inspections of one
  goroutine do not interact with those of another.
* The command's second context, animation goroutines and the ticker's own child
  context carry no state of their own.
* `Resolve` in `Provisioning` is the choice of its outcomes; `Resolver` models
  what it computes.

## 3. Runs

| run | instance | shows |
|---|---|---|
| `image_builder` | two tagged images, one untagged, every initial image store | a failed `Build` leaves a tagged image that is not ready (`FailedBuildBlocksReady`), and `StatusBoard` is implemented: each image is registered, then marked once at most, and nothing changes after the answer, so that a failure never looks finished (`KeepsBoard`); a goroutine that ran alone returns nil only with its image built, and never panics (`OnlyRacesMaskErrors`); `Build` returns or the process has panicked (`BuildReturns`) |
| `container_runner` | two images, one with a health check, the page and the terminal | an error leaves a status false (`FailedRunBlocksReady`), nil leaves none, and no goroutine writes a status after the answer (`KeepsBoard`: `StatusBoard` is implemented, with an exact answer); the terminal is that of a container found healthy; only a goroutine that failed leaves a container created; the page is known before any status; `RunContainers` returns whatever the containers do |
| `container_runner_health` | the same | **violation**: a container whose health wait timed out is marked ready |
| `cleanup` | three containers in any state, two faults | nil means clean; nothing running escapes the list; Clear, retried, succeeds |
| `cleanup_exits` | the same, no faults | **violation**: Clear fails on a container that exited by itself |
| `provisioning` | two images, one left-over container, one fault | the stages in order, on a clean machine (`CleanSlate`), `Handover` is implemented (`HandsOver`) and so is `Progress` (`ReportsProgress`): the second map is empty until the build has answered nil, one error at most is sent, each wait ends only while no status on its map is false, the second after the first; the watcher is there during the first wait, a failed stage never ends its wait |
| `provisioning_live` | two tagged images whose builds race, no left-over | a build error that is sent ends a command that waits for it (`BuildErrorExits`); the command waits for ever only where a failure is lost (`StuckOnlyByLostFailure`): an error of `RunContainers` that nobody reads, or a build error overwritten in the shared `err` |
| `provisioning_untagged` | one tagged and one untagged image; of the behaviours, those that start with both in the store, in which no call fails, no container exits and no tick comes before the registration | **violation**: both containers run, and the command waits for ever for an image that is never built |
| `resolver` | all chapters of up to two sections, below the first of which there may be one and another below that, three dependencies, sub-chapters -1 to 3 | every image asked for gets one request and no other image gets one (`OneRequestPerImage`); it mounts what its first mention in document order lists, at whatever depth (`MountsOfFirstMention`) |
| `resolver_full` | the same | **violation**: a full chapter mounts the first section's notebook only |
| `lakehouse` | two days, a building extract inside or below the accepted range, two slots, one task that dies | in every order a job finds its tables and reads this run's data, `nl_shape` excepted (`TablesExist`, `InputsOfThisRun`); production holds only what the test has passed whole (`PublishedPassed`); without deaths only the two tests fail, and the DDL of production in the first run (`FaultFreeFailures`); at most one run ever succeeds (`SucceedsOnce`); a run can always go on (`NeverStuck`) |
| `overture` | four days, releases of the first, the second and the fourth, two files each, one task that dies | after a sensor that failed no later task starts (`SensorFailureIsFinal`); after a Spark job that failed the next day decides (`NextDayDecides`): later jobs run only if that day was skipped, and if it has a release no later run ever starts; the sensor gives up after 16 hours, never by its timeout (`WaitIsBounded`); releases that are there before the first run are processed whole (`UploadedIsSynced`) |

Why the bounds are enough. All goroutines of a build meet on the variable `err`:
two goroutines are enough for one to read what the other has written at each
read, and a third adds another writer but no new value. The theorems of
section 5 cover the safety properties for every number of images. Three
containers let Clear be in the middle of its list while one container is behind
it, one at hand and one ahead. Two faults let one invocation fail and its retry
fail as well. In `provisioning` the old containers meet the new ones only
through the stages of the main goroutine, so one of them suffices. `Checked` is
empty in `provisioning` to keep the state space small: what a health check adds
is a wait that ends late or by its deadline, and the deadline comes at any
moment without one too (`container_runner` has a health check). `provisioning_live`
needs two tagged images, because with one there is no race on `err` and no error is
lost in it (`SoleImage`); it has no left-over containers, which only `Clear` meets.

In `lakehouse` a run meets the runs before it only through the tables and the
catalog, which keep the sum of what they left: the second day sees every leftover
that a first can make, with a success, a failed test or a death at any task. One
death is enough for any single task to be the one that dies; the theorems cover
more. `{4, 7}` are a building extract that is too small alone and too large with
another, and one that is right alone. Two slots let each pair of jobs overlap.
`NeverStuck` stands for the liveness of a run: every step of a run moves a task
from "none" to "running" or to an end, or ends the run, so a run that can always
go on ends. In `overture`, days 1 and 2 have releases, so that a job that fails on
the first has a release the day after; day 3 has none and day 4 has one, so that a
job that fails on the second is followed by a day that is skipped and by one that is
not. While the fourth is not yet uploaded, day 3 waits for it and is given up at the
second midnight. Two files are what
it takes for an upload to be found half done. The horizon lets the last run's
sensor poke for a day.

Deadlock checking is off in all runs because each of these programs ends.

### Fairness

`ImageBuilder`, `ContainerRunner` and `Provisioning` assume weak fairness of
each goroutine: Go runs what can run, calls to the local daemon return, and
timers fire. In `ContainerRunner` it is put on `Progress`, which leaves
`PollFails` out: no failure is assumed to happen, only that the deadline comes.
Nothing is assumed of the containers. In `Cleanup`, weak fairness of `Retry` is
the user, who runs the command again. `Provisioning` has one strong fairness, on
`WatchError`: the watcher's `select` also has a one-second timer of its own, so
`WatchError` is enabled again and again, not continuously; an error that waits
in the channel is found by the next evaluation of the `select`, long before that
timer fires. Weak fairness of the main goroutine
includes that the user leaves the terminal that `provision` opened. Fairness is
never assumed of `MapRace`, of exits, of health
changes or of failures.

`OvertureSync` assumes weak fairness of the clock, of the upload and of the
scheduler: Airflow starts a run that is due and a task that may start, and a
poking sensor pokes. Nothing makes a task die. `Lakehouse` states no fairness.

## 4. Where the code and its documents disagree

Each is the violation run named, and a finding in `PROJECT.json`.

1. `service/run/service.go:102` returns no error when the wait for a container's
   health has timed out, and the image is marked ready; the integration test
   asks the notebook for 200 as soon as all are (`container_runner_health`).
   The container's id is lost too, so that its terminal is never opened.
2. `Clear` gives up on a container that exited after it was listed, although
   that container needed no kill (`cleanup_exits`). `EventuallyCleared` shows
   that running it again succeeds.
3. An image name without a tag, as that of prefect in `image.yaml`, is
   registered and never built, so chapter 6 never gets past its first wait
   (`provisioning_untagged`).
4. A full chapter keeps the volumes of the first section that uses an image
   (`resolver_full`).

Beyond these, `StuckOnlyByLostFailure` names two weaknesses that contradict no
document. The watcher that waits on the first context ends with the first wait, and
then an error of `RunContainers` stays in the channel unread while the second wait
goes on (`UnreadError`). And a build error that another goroutine overwrites with its
own nil before it is returned (`builder/service.go:65`) leaves the image at false
while `Build` answers nil: the containers are started, nothing is reported, and the
first wait goes on for ever (`MaskedError`). The commands that a chapter lists under
`post-init-command` are read, merged by `aggregateImages` and then dropped, because a
run request has no field for them; no chapter of the repository lists any. A `wg.Done` of a second tick, a concurrent map iteration,
an `err` set to nil under a log call and a sub-chapter out of range end the
process with a panic; all four are steps of the models.

The pipelines have weaknesses of the same kind, which the properties state as
they are:

* `nl_shape`, which fills the shape table, does not precede the flood map nor the
  transportation: these wait for its DDL only (`dag.py:180`, `182`) and may read
  an empty shape in the first run and an old one later. `InputsOfThisRun` excepts
  exactly these two readings.
* The DDL of production does not wait for the database of production
  (`dag.py:204`); whether the first run survives it is up to the order of the tasks
  and to the catalog (`FaultFreeFailures`).
* The assertion on the number of buildings counts the buildings of all days, and
  the tables keep every day, so that no run after a successful one succeeds
  (`SucceedsOnce`).
* MinIO and Airflow start together. A first poke before the first upload fails the
  sensor, and with `depends_on_past` that is the end of the DAG
  (`SensorFailureIsFinal`). After a failed Spark job it is up to the next day: with no
  release it is skipped and the days after it go on, with one its job waits for the
  failed one for ever and no later run starts (`NextDayDecides`).
* A release that is uploaded after its day was skipped is never processed, and one
  found half uploaded is processed in part: `UploadedIsSynced` assumes neither.
* The sensor's 24-hour timeout is never reached (`WaitIsBounded`), because from the
  second midnight after its day it skips.

## 5. Proofs

All proofs are checked by TLAPS with no assumption other than the modules'
named `ASSUME`s, which say that the constants are numbers, or finite sets
with the inclusions that their comments give. `SuccessIsFinal` alone has one
hypothesis more, which the paragraph about it names and gives the reason for.
(`PromiseProofs` instantiates its specifications and states the one inclusion it
needs, that the images built are among those of the request, as a hypothesis of the
theorems.)

* `ImageBuilderProofs`: `TypeCorrect`; `FailureBlocks`, from `BuildInv`: a
  goroutine that returned an error has not marked its image, `groupErr` is
  non-nil exactly when there is such a goroutine, and `Build` returns what
  `groupErr` holds once all have returned. `FailedBuildBlocksReady` alone is not
  inductive, because it says nothing before `Build` returns. `RacesAlone` rests on
  `AloneIsExact`: as long as the others have not called the daemon, `err` is
  what goroutine *i* last wrote, point by point of its program, and on
  `OthersEndAlone`: a step of another goroutine ends being alone. `SoleImage`
  draws the consequence: with one tagged image, a `Build` that returns nil has
  built and marked it. `BoardCorrect` is the refinement of `StatusBoard`, action by
  action: `AllRegistered` says that a goroutine finds its image registered,
  `ReadyIsLast` that it marks it once and last, `AloneIsExact` that with one goroutine
  a nil comes from a mark; with several, the board promises nothing of a nil
  (`Exact`), because the race on `err` does not. `ReadyStays` is inherited from the
  board. `BuildGoesOn` and `BuildAdvances` are the two halves of termination that
  need no fairness: a `Build` that has not answered has a step whose guard holds, and
  every step goes forward in a finite order.
* `ContainerRunnerProofs`: `TypeCorrect`, then `RunInv`, which ties the place of
  each goroutine to its status, to `runErr`, to its container and to
  `sawHealthy`; the safety properties of the run are its corollaries.
  `BoardCorrect` is the refinement of `StatusBoard`, here with `Exact`: the
  goroutines share no `err`, so that a nil comes with all images marked
  (`NilMarksAll`). `RunGoesOn` and `RunAdvances` are the halves of termination: the
  steps of the daemon, which have no end, are stutters of the measure, and no
  guard of the program waits for a container to be healthy.
* `CleanupProofs`: `TypeCorrect`; `NothingEscapes`, from `ClearInv`, and
  `ClearedIsClean`. The invariant is the two
  properties together: `ListCoversRunning` at the end of the list is what makes
  `ClearedMeansClean` hold after the network is removed. Containers never start during `Clear`,
  which is why the list, though stale, still covers what runs.
  `ClearAdvances` and `FailureCosts` are the measure behind `EventuallyCleared`: the
  loop cannot turn without its list getting shorter, because what is removed was on
  it, and an invocation that fails either meets one of the faults or leaves fewer
  containers running than its list had, so that the next list is shorter.
* `ResolverProofs`, for chapters of any depth and width: `TypeCorrect`, then
  `OneRequestCorrect` and `MountsCorrect`, both from two
  invariants. `StackInv` stands for the induction over the document that a recursive
  definition would ask for: each structure on the stack is left of the next
  one, so that what is below them (`Pending`) is what the document has still to say,
  and `images` is what the rest mentions; the first dependency on an image in it is
  its first mention in the whole document. A call keeps this because the sections of a
  structure are below it, in order, and cover what is below it (`PendingAfterCall`,
  from the lemmas on paths). `SeenInv` is the map's account: for each image gone over,
  the volumes of the first dependency on it.
* `LakehouseProofs`, for any number of days, slots and deaths and any extracts:
  `TypeCorrect`; `OrderKept`, from `OrderInv`: a task that has started has its
  upstream tasks done, and a DDL task that is done has created its object.
  `InputsCorrect` and `TablesCorrect` follow by walking the edges back from each
  job (lemma `Paths`). `PublishedCorrect` rests on `PublishInv`: what
  production holds of a day is what the score table holds of it, production has
  nothing of the day before its own job has run, and the score table keeps the sum
  that its test has seen, because its only writer comes before the test.
  `FailuresCorrect` rests on `FaultInv`: without deaths every other task finds
  what it needs, and the database of production is there from the second run on.
  `SuccessIsFinal` proves `SucceedsOnce` from the hypothesis `ExtractsFill`: no extract
  is smaller than the accepted range is wide, which is 100 000 buildings. A building
  extract of the country, which is accepted alone only above 300 000, is far larger;
  with one that is smaller two runs could succeed, and the property would be false.
  Its invariant says that a run that succeeded has its own
  rows in the table and that no later job takes them away, so that a later count
  exceeds the bound. The counts are cardinalities of sets of rows, so that a lemma on
  unions (`RowsAdded`) does instead of an induction over the days.
  `RunGoesOn` is `NeverStuck` with the guards of the steps in the place of
  `ENABLED`, from the graph being acyclic (`Acyclic`, `FirstIsReady`), and
  `RunAdvances` is the measure: each step of a run takes a task further and none
  back, or ends the run. Together they are what `NeverStuck` is for, short of the
  temporal conclusion.
* `OvertureSyncProofs`, for any number of days, releases, files and deaths:
  `TypeCorrect`; `SensorFailureCorrect` and `NextDayCorrect`, from `PastInv`, which
  adds to them that the runs before the last one are over, that nothing of a day after
  it has started, and no Spark job before the end of its sensor: a run after a failed
  job that is over without its job having run was skipped, unless its sensor failed,
  which is final; `WaitCorrect`, from
  `WaitInv`: a sensor that still waits, at a tick in which it has poked, is before
  the second midnight.
* `ProvisioningProofs`, about the composition, for every chapter and whatever an
  earlier command left: `TypeCorrect` and `OneErrorCorrect`, from `TypeInv`: the
  background goroutine does not exist before the launch, and its error is the last
  thing it does. `WatchedCorrect` rests on `WatchInv`: until the first wait is over
  no context has been cancelled. `CleanSlateCorrect` rests on `SlateInv`:
  `InStages` relates the places of the background goroutine, of the runner and of
  its goroutines to the containers that exist, and `Emptied` carries what Clear
  has established (the invariant of `CleanupProofs`, for as long as the command is
  in it) over to the stages after it. `FailureHoldsWaitCorrect` rests on
  `FailureInv`, which carries the failed goroutine behind an error of `Build` or of
  `RunContainers`, with its status at false, through every step of the other
  goroutines. `HandoverCorrect` is the refinement: `ClearHandsOver` shows that Clear
  only stops containers and returns nil when none is left, `RunHandsOver` that a
  container is started once, `QuietSteps` that whatever else happens is a stutter
  or the end. `NeverRevivedCorrect` draws from the refinement what `PromiseProofs`
  has of the abstract specification: no container that has run comes back, in any
  step of the command or of the daemon. `TerminalCorrect` carries the runner's
  outcome (`RunOutcome`) to the command that reads `OpenTerminal` without waiting for
  `RunContainers` to return: a terminal that is opened is in a container found
  healthy, with all images marked; an early tick finds none. `ReportsCorrect` is the
  refinement of `Progress`. Its invariant, `ProgressInv`, adds to those above what the
  two boards need of the places of the goroutines (`BuildBoard`, `RunBoard`) and that
  the waits end in order (`WaitsInOrder`); `BuilderReports` and `RunnerReports` take the
  steps of the services one by one to steps of a board, `TickReports` a tick to the
  end of a wait or a stutter, `ReturnReports` the return of a stage to the sending of
  its error. `WaitsEndReadyCorrect` is inherited from it: a wait that ends after its
  stage has answered ends with a stage that has succeeded.
* `PromiseProofs`, about the abstract specifications themselves, so that implementing
  them means something. Of `Handover`: `OneEnvironmentCorrect`, containers of the two
  environments never run together, not even after the command has ended, and
  `ComesToRunOnceCorrect`, each new container comes to run once at most and no old one
  does. Of `Progress`, from `BoardsInv`: `OneFailureCorrect`, an error is that of the one
  stage that failed, and nothing is registered on the second board before the first
  stage has succeeded; `EndsTrulyCorrect`, no wait takes a failed stage for a finished
  one. (A wait that ends before its stage has answered may end on an empty board:
  the code allows it, and the clock makes it improbable, as section 2 says.)

Only model-checked: all liveness (`BuildReturns`, `RunReturns`,
`EventuallyCleared`, `BuildErrorExits`, `StuckOnlyByLostFailure`,
`UploadedIsSynced`), which needs fairness, and `NeverStuck` as it is stated, which
needs `ENABLED`. What `NeverStuck`, `BuildReturns` and `RunReturns` say short of
fairness is proved as said above: there is always a step to take, and every step goes
forward; of `EventuallyCleared` it is the second half. All other properties of the
passing runs are theorems.

## 6. Not modelled, and why

Of the tool: the `list` command, parsing and printing do not change state. The
content of build contexts and the ports, environment and mounts of a container
are data. The earlier container service is not referenced by any command. Two
invocations of the tool at the same time are not composed.

Of the DAGs: local time against UTC, the order in which Airflow queues ready
tasks, and what a row says. Manual runs and cleared tasks are the operator's.

Of the rest of the repository:

* The chapter examples are most of its lines, and most of those are notebooks with
  their recorded outputs: sequences of queries, run from top to bottom, with no
  state but the session and no control. A model of one would repeat the query.
  This is why the modules stand for a small share of the repository's lines,
  although they cover the code that has states to go wrong. The same
  holds of `slope.py`, `sql.py`, the programs of chapter 2 and the Prefect flow,
  which call one function after another.
* The dbt project is a set of SQL models that dbt orders; it has no incremental
  state of its own.
* The agent (`geospatialagent`) serves four tools that wrap a Spark session. Their
  bodies block the event loop, so that calls come one after another. One state
  of its own can go wrong: a query that fails in `show` leaves the standard output
  redirected (`warehouse.py:30`), and what is printed later is lost; the answers are
  not.
* The other container entry points copy files and start one program; the compose
  file, the make targets and the snippet listings are configuration and prose.

## 7. Plan

1. Done: the builder, the runner, Clear, their composition, the resolver; the two
   DAGs; the proofs of the safety of all of them, and of the refinements of
   `StatusBoard` (twice), `Progress` and `Handover`.
2. Left: `Provisioning` against a concurrent `clear`, which takes the network and
   the containers from under the runner; an operator's clearing of failed tasks in
   the two DAGs; the streams the agent's warehouse redirects.
