---------------------------- MODULE ImageBuilder ----------------------------
(***************************************************************************)
(* builder.Service.Build (cli/internal/service/builder/service.go) over    *)
(* imagebuilder.Client and the Docker daemon.                              *)
(*                                                                         *)
(* Build registers a status for every requested image, then runs one       *)
(* errgroup goroutine per image whose name GetImagesNames could split.     *)
(* All goroutines assign and read the one named result `err` of            *)
(* buildImages, with no lock: every read and every write of it is a step   *)
(* of its own, so a goroutine may read what another one wrote.             *)
(***************************************************************************)
EXTENDS FiniteSets

CONSTANTS Images, \* the image names of request.Images
          Tagged, \* those of the form name:tag, which GetImagesNames keeps
          MayFail \* whether a call to the daemon, or a Dockerfile, may fail

ASSUME ImagesAssumption ==
    IsFiniteSet(Images) /\ Tagged \subseteq Images /\ MayFail \in BOOLEAN

\* What err may hold: nil, ErrImageNotFound, or any other error.
Errors == {"nil", "NotFound", "Fault"}

\* request.BuildingImages as each name is found in it: no key, false or true.
Statuses == {"absent", "false", "true"}

\* Where a goroutine is. "checkExists" to "return" are single reads of err.
Points == {"idle", "exists", "checkExists", "checkNotFound", "build",
           "checkBuild", "report", "return", "mark", "nil", "error"}

VARIABLES
    build,          \* where Build is, or what it returned ("nil", "error")
    BuildingImages, \* the status map of dto.StartContainersRequest
    pc,             \* where the goroutine of each tagged image is
    err,            \* the named result that all the goroutines share
    groupErr,       \* the first error a goroutine returned to the errgroup
    imageStore,     \* the images the Docker daemon holds
    process         \* "up", or how the process ended

builderVars == <<build, BuildingImages, pc, err, groupErr, imageStore>>
vars == <<builderVars, process>>

TypeOK ==
    /\ build \in {"idle", "register", "wait", "nil", "error"}
    /\ BuildingImages \in [Images -> Statuses]
    /\ pc \in [Tagged -> Points]
    /\ err \in Errors
    /\ groupErr \in Errors
    /\ imageStore \subseteq Images
    /\ process \in {"up", "panicked", "exited"}

Init ==
    /\ build = "idle"
    /\ BuildingImages = [i \in Images |-> "absent"]
    /\ pc = [i \in Tagged |-> "idle"]
    /\ err = "nil"
    /\ groupErr = "nil"
    /\ imageStore \in SUBSET Images
    /\ process = "up"
-----------------------------------------------------------------------------
(* Build and buildImages, outside the goroutines.                          *)

CallBuild ==
    /\ process = "up"
    /\ build = "idle"
    /\ build' = "register"
    /\ UNCHANGED <<BuildingImages, pc, err, groupErr, imageStore, process>>

\* UpdateBuildImageStatus(img.Image, false); request.Images is in map order.
Register(i) ==
    /\ process = "up"
    /\ build = "register"
    /\ BuildingImages[i] = "absent"
    /\ BuildingImages' = [BuildingImages EXCEPT ![i] = "false"]
    /\ UNCHANGED <<build, pc, err, groupErr, imageStore, process>>

\* errGroup.Go for every tagged image; the goroutines then start in any order.
Spawn ==
    /\ process = "up"
    /\ build = "register"
    /\ \A i \in Images : BuildingImages[i] # "absent"
    /\ build' = "wait"
    /\ pc' = [i \in Tagged |-> "exists"]
    /\ UNCHANGED <<BuildingImages, err, groupErr, imageStore, process>>

\* Mutant: waits for the status map instead of for the goroutines.
FinishOnStatuses ==
    /\ process = "up"
    /\ build = "wait"
    /\ \A i \in Tagged : BuildingImages[i] = "true"
    /\ err' = groupErr
    /\ build' = IF groupErr = "nil" THEN "nil" ELSE "error"
    /\ UNCHANGED <<BuildingImages, pc, groupErr, imageStore, process>>

\* Mutant: a failed build clears the status map, as for a retry.
FinishAndReset ==
    /\ process = "up"
    /\ build = "wait"
    /\ \A i \in Tagged : pc[i] \in {"nil", "error"}
    /\ err' = groupErr
    /\ build' = IF groupErr = "nil" THEN "nil" ELSE "error"
    /\ BuildingImages' = IF groupErr = "nil" THEN BuildingImages
                         ELSE [i \in Images |-> "false"]
    /\ UNCHANGED <<pc, groupErr, imageStore, process>>

\* err = errGroup.Wait(), once every goroutine has returned.
Finish ==
    /\ process = "up"
    /\ build = "wait"
    /\ \A i \in Tagged : pc[i] \in {"nil", "error"}
    /\ err' = groupErr
    /\ build' = IF groupErr = "nil" THEN "nil" ELSE "error"
    /\ UNCHANGED <<BuildingImages, pc, groupErr, imageStore, process>>
-----------------------------------------------------------------------------
(* The goroutine of image i.                                               *)

Goto(i, from, to) ==
    /\ process = "up"
    /\ pc[i] = from
    /\ pc' = [pc EXCEPT ![i] = to]

\* err = Exists(...): ImageInspect answers nil, not found, or fails.
Exists(i) ==
    /\ Goto(i, "exists", "checkExists")
    /\ \/ err' = IF i \in imageStore THEN "nil" ELSE "NotFound"
       \/ MayFail /\ err' = "Fault"
    /\ UNCHANGED <<build, BuildingImages, groupErr, imageStore, process>>

\* The left operand of `err != nil && !errors.Is(err, ErrImageNotFound)`.
CheckExists(i) ==
    /\ Goto(i, "checkExists", IF err = "nil" THEN "build" ELSE "checkNotFound")
    /\ UNCHANGED <<build, BuildingImages, err, groupErr, imageStore, process>>

\* Its right operand, which reads err again.
CheckNotFound(i) ==
    /\ Goto(i, "checkNotFound", IF err = "NotFound" THEN "build" ELSE "report")
    /\ UNCHANGED <<build, BuildingImages, err, groupErr, imageStore, process>>

\* err = BuildImage(...): nil only if the daemon's log reports no error. The
\* image may be in the store although the answer is an error (body unread).
BuildImage(i) ==
    /\ Goto(i, "build", "checkBuild")
    /\ \/ err' = "nil" /\ imageStore' = imageStore \cup {i}
       \/ /\ MayFail
          /\ err' = "Fault"
          /\ imageStore' \in {imageStore, imageStore \cup {i}}
    /\ UNCHANGED <<build, BuildingImages, groupErr, process>>

\* Mutant: the result of BuildImage is not tested.
CheckBuildIgnored(i) ==
    /\ Goto(i, "checkBuild", "mark")
    /\ UNCHANGED <<build, BuildingImages, err, groupErr, imageStore, process>>

\* Mutant: the status is set before the result of BuildImage is tested.
MarkBeforeCheckBuild(i) ==
    /\ Goto(i, "checkBuild", IF err = "nil" THEN "mark" ELSE "report")
    /\ BuildingImages' = [BuildingImages EXCEPT ![i] = "true"]
    /\ UNCHANGED <<build, err, groupErr, imageStore, process>>

CheckBuild(i) ==
    /\ Goto(i, "checkBuild", IF err = "nil" THEN "mark" ELSE "report")
    /\ UNCHANGED <<build, BuildingImages, err, groupErr, imageStore, process>>

\* i is the only goroutine that has called the daemon so far.
Alone(i) == \A j \in Tagged \ {i} : pc[j] \in {"idle", "exists"}

\* The log call evaluates err.Error(): a nil pointer if err is nil by now. An
\* interface has two words, and writes that race may leave the type of one and
\* the data of the other: a call on such a mixture may panic as well.
Report(i) ==
    /\ process = "up"
    /\ pc[i] = "report"
    /\ \/ /\ err # "nil"
          /\ pc' = [pc EXCEPT ![i] = "return"]
          /\ UNCHANGED process
       \/ /\ err = "nil" \/ ~Alone(i)
          /\ process' = "panicked"
          /\ UNCHANGED pc
    /\ UNCHANGED <<build, BuildingImages, err, groupErr, imageStore>>

\* return err: what err holds now; the errgroup keeps the first non-nil one.
Return(i) ==
    /\ Goto(i, "return", IF err = "nil" THEN "nil" ELSE "error")
    /\ groupErr' = IF groupErr = "nil" THEN err ELSE groupErr
    /\ UNCHANGED <<build, BuildingImages, err, imageStore, process>>

\* Mutant: the status becomes a value the map cannot hold.
MarkDone(i) ==
    /\ Goto(i, "mark", "nil")
    /\ BuildingImages' = [BuildingImages EXCEPT ![i] = "done"]
    /\ UNCHANGED <<build, err, groupErr, imageStore, process>>

\* UpdateBuildImageStatus(img.FullName(), true); return nil.
Mark(i) ==
    /\ Goto(i, "mark", "nil")
    /\ BuildingImages' = [BuildingImages EXCEPT ![i] = "true"]
    /\ UNCHANGED <<build, err, groupErr, imageStore, process>>

Worker(i) ==
    \/ Exists(i) \/ CheckExists(i) \/ CheckNotFound(i)
    \/ BuildImage(i) \/ CheckBuild(i)
    \/ Report(i) \/ Return(i) \/ Mark(i)

Caller == CallBuild \/ Spawn \/ Finish \/ \E i \in Images : Register(i)

Next == Caller \/ \E i \in Tagged : Worker(i)

Spec == Init /\ [][Next]_vars

\* Go runs every runnable goroutine, and every call to the daemon returns.
FairSpec == Spec /\ WF_vars(Caller) /\ \A i \in Tagged : WF_vars(Worker(i))
-----------------------------------------------------------------------------
(* Properties.                                                             *)

AllReady == \A i \in Images : BuildingImages[i] = "true"

\* When Build returns an error, some tagged image is not marked ready, and by
\* KeepsBoard never will be: the CLI, which leaves its first wait only when
\* all are ready, cannot take a failed build for a finished one. The error a
\* goroutine returns may be another one's; that it marked nothing is its own.
FailedBuildBlocksReady ==
    build = "error" => \E i \in Tagged : BuildingImages[i] # "true"

\* No step takes back a ready status, and none forgets a registered image.
ReadySticks ==
    [][\A i \in Images :
          /\ BuildingImages[i] = "true" => BuildingImages'[i] = "true"
          /\ BuildingImages'[i] = "absent" => BuildingImages[i] = "absent"]_vars

Board == INSTANCE StatusBoard WITH
            Worked <- Tagged, Exact <- \A i, j \in Tagged : i = j,
            statuses <- BuildingImages,
            answer <- IF build \in {"nil", "error"} THEN build ELSE "none"

\* Build implements StatusBoard: each image is registered, marked once if at
\* all, and by its own goroutine before Build answers, never after; an error
\* comes with an image that is not ready. Its nil can be relied on only where
\* one goroutine has err for itself.
KeepsBoard == Board!Spec

\* Only the shared err lets a failure pass for a success: a goroutine that ran
\* alone returns nil only with its image in the store and marked ready, and
\* its error log never meets a nil err.
OnlyRacesMaskErrors ==
    \A i \in Tagged : Alone(i) =>
        /\ pc[i] = "nil" => BuildingImages[i] = "true" /\ i \in imageStore
        /\ process # "panicked"

\* Build returns, or its process ends in the panic of Report.
BuildReturns == <>(build \in {"nil", "error"} \/ process # "up")
=============================================================================
