---------------------------- MODULE PromiseProofs ----------------------------
(***************************************************************************)
(* What the two promises of `sedona provision` amount to: Handover, for    *)
(* any two sets of containers, and Progress, for any images.               *)
(***************************************************************************)
EXTENDS Naturals, TLAPS

CONSTANTS Old, New,      \* the containers of the two environments
          Images, Tagged \* the images of the request, and those that are built

VARIABLES stage, running, started,                                   \* Handover
          building, built, starting, ran, reported, errors, over     \* Progress

H == INSTANCE Handover

P == INSTANCE Progress

-----------------------------------------------------------------------------
(* The machine.                                                            *)

\* Containers of one environment only, those of the new one from those started.
\* The command may have ended before it came to the new one.
StageInv ==
    /\ stage \in {"leaving", "entering", "ended"}
    /\ running \subseteq Old \/ running \subseteq started
    /\ stage = "leaving" => running \subseteq Old
    /\ stage = "entering" => running \subseteq started
    /\ started \subseteq New

\* StageInv holds at first and is kept by every step.
LEMMA StageInvariant == H!Spec => []StageInv
<1>1. H!Init => StageInv
  BY DEF H!Init, StageInv
<1>2. StageInv /\ [H!Next]_(H!vars) => StageInv'
  <2> SUFFICES ASSUME StageInv, [H!Next]_(H!vars) PROVE StageInv'
    OBVIOUS
  <2> USE DEF StageInv
  <2>1. CASE H!Enter BY <2>1 DEF H!Enter
  <2>2. CASE H!End BY <2>2 DEF H!End
  <2>3. ASSUME NEW c \in Old \cup New, H!Stop(c) PROVE StageInv'
    BY <2>3 DEF H!Stop
  <2>4. ASSUME NEW c \in New, H!Start(c) PROVE StageInv'
    BY <2>4 DEF H!Start
  <2>5. CASE UNCHANGED H!vars BY <2>5 DEF H!vars
  <2> QED BY <2>1, <2>2, <2>3, <2>4, <2>5 DEF H!Next
<1> QED BY <1>1, <1>2, PTL DEF H!Spec

\* A container of the old environment and one of the new never run together,
\* though containers go on running after the command has ended.
OneEnvironment == running \subseteq Old \/ running \subseteq New

\* The two environments are never mixed, for any sets of containers.
THEOREM OneEnvironmentCorrect == H!Spec => []OneEnvironment
<1>1. StageInv => OneEnvironment
  BY DEF StageInv, OneEnvironment
<1> QED BY <1>1, StageInvariant, PTL

\* What comes to run is a new container that never ran before: an old one is
\* never revived, a new one never started again after it has ended.
RunsFirst ==
    \A c \in running' \ running :
        c \in New /\ c \in started' \ started /\ running \cap (Old \ New) = {}

ComesToRunOnce == [][RunsFirst]_(H!vars)

\* No container comes to run a second time.
THEOREM ComesToRunOnceCorrect == H!Spec => ComesToRunOnce
<1>1. StageInv /\ [H!Next]_(H!vars) => [RunsFirst]_(H!vars)
  BY DEF StageInv, H!Next, H!Enter, H!End, H!Stop, H!Start, RunsFirst
<1> QED BY <1>1, StageInvariant, PTL DEF H!Spec, ComesToRunOnce

-----------------------------------------------------------------------------
(* The progress.                                                           *)

\* An error leaves an image of its stage unready, a nil of the second stage
\* leaves none, and the second stage is that of a build that succeeded. A
\* stage that has failed is the last, and its error is sent once.
BoardsInv ==
    /\ building \in [Images -> {"absent", "false", "true"}]
    /\ starting \in [Images -> {"absent", "false", "true"}]
    /\ built \in {"none", "nil", "error"} /\ ran \in {"none", "nil", "error"}
    /\ reported \in BOOLEAN /\ errors \in Nat
    /\ built # "none" => \A i \in Images : building[i] # "absent"
    /\ ran # "none" => \A i \in Images : starting[i] # "absent"
    /\ built = "error" => \E i \in Tagged : building[i] # "true"
    /\ ran = "error" => \E i \in Images : starting[i] # "true"
    /\ ran = "nil" => \A i \in Images : starting[i] = "true"
    /\ ran # "none" \/ (\E i \in Images : starting[i] # "absent") => built = "nil"
    /\ reported => built = "error" \/ ran = "error"
    /\ errors <= IF reported THEN 1 ELSE 0

\* BoardsInv holds at first and is kept by every step.
LEMMA BoardsInvariant ==
  ASSUME Tagged \subseteq Images
  PROVE  P!Spec => []BoardsInv
<1>1. P!Init => BoardsInv
  <2> SUFFICES ASSUME P!Init PROVE BoardsInv
    OBVIOUS
  <2>1. /\ building = [i \in Images |-> "absent"] /\ built = "none"
        /\ starting = [i \in Images |-> "absent"] /\ ran = "none"
        /\ reported = FALSE /\ errors = 0
    BY DEF P!Init, P!Build!Init, P!Run!Init
  <2>2. reported \in BOOLEAN /\ ~reported
    BY <2>1, Zenon
  <2> QED BY <2>1, <2>2 DEF BoardsInv
<1>2. BoardsInv /\ [P!Next]_(P!vars) => BoardsInv'
  <2> SUFFICES ASSUME BoardsInv, [P!Next]_(P!vars) PROVE BoardsInv'
    OBVIOUS
  <2> USE DEF BoardsInv
  <2>1. CASE P!BuildStep
    <3> USE <2>1 DEF P!BuildStep, P!Build!SetStatus
    <3>1. ASSUME NEW i \in Images, P!Build!Register(i) PROVE BoardsInv'
      BY <3>1 DEF P!Build!Register
    <3>2. ASSUME NEW i \in Tagged, P!Build!Mark(i) PROVE BoardsInv'
      BY <3>2 DEF P!Build!Mark
    <3>3. CASE P!Build!Answer
      BY <3>3 DEF P!Build!Answer, P!Build!AllReady
    <3> QED BY <3>1, <3>2, <3>3 DEF P!Build!Next
  <2>2. CASE P!RunStep
    <3> USE <2>2 DEF P!RunStep, P!Run!SetStatus
    <3>1. ASSUME NEW i \in Images, P!Run!Register(i) PROVE BoardsInv'
      BY <3>1 DEF P!Run!Register
    <3>2. ASSUME NEW i \in Images, P!Run!Mark(i) PROVE BoardsInv'
      BY <3>2 DEF P!Run!Mark
    <3>3. CASE P!Run!Answer
      BY <3>3 DEF P!Run!Answer, P!Run!AllReady
    <3> QED BY <3>1, <3>2, <3>3 DEF P!Run!Next
  <2>3. CASE P!Send BY <2>3 DEF P!Send
  <2>4. CASE P!Receive BY <2>4 DEF P!Receive
  <2>5. CASE P!EndWaits BY <2>5 DEF P!EndWaits, P!EndWait
  <2>6. CASE UNCHANGED P!vars BY <2>6 DEF P!vars
  <2> QED BY <2>1, <2>2, <2>3, <2>4, <2>5, <2>6 DEF P!Next
<1> QED BY <1>1, <1>2, PTL DEF P!Spec

\* An error in the channel is the only one, and that of the stage that failed;
\* the second map is empty for as long as the first stage has not succeeded.
OneFailure ==
    /\ errors <= 1
    /\ errors = 1 => (built = "error") # (ran = "error")
    /\ built # "nil" => ran = "none" /\ \A i \in Images : starting[i] = "absent"

\* One failure at most, and nothing is started after it, for any images of a
\* request and those of them that GetImagesNames returns.
THEOREM OneFailureCorrect ==
  ASSUME Tagged \subseteq Images
  PROVE  P!Spec => []OneFailure
<1>1. BoardsInv => OneFailure
  BY DEF BoardsInv, OneFailure
<1> QED BY <1>1, BoardsInvariant, PTL

\* A wait that ends after its stage has answered ends on a board on which every
\* image that the stage works on is ready: a failure never ends it, however late
\* the command looks.
TrueEnd ==
    /\ "images" \in over' \ over /\ built # "none"
          => built = "nil" /\ \A i \in Images : building[i] = "true"
    /\ "containers" \in over' \ over /\ ran # "none"
          => ran = "nil" /\ "images" \in over

EndsTruly == [][TrueEnd]_(P!vars)

\* No wait of the command takes a failed stage for a finished one.
THEOREM EndsTrulyCorrect ==
  ASSUME Tagged \subseteq Images
  PROVE  P!Spec => EndsTruly
<1>1. BoardsInv /\ [P!Next]_(P!vars) => [TrueEnd]_(P!vars)
  <2> SUFFICES ASSUME BoardsInv, P!Next PROVE TrueEnd
    OBVIOUS
  <2>1. CASE UNCHANGED over
    BY <2>1 DEF TrueEnd
  <2>2. ASSUME P!EndWait("images", building) PROVE TrueEnd
    BY <2>2 DEF P!EndWait, BoardsInv, TrueEnd
  <2>3. ASSUME "images" \in over, P!EndWait("containers", starting) PROVE TrueEnd
    BY <2>3 DEF P!EndWait, BoardsInv, TrueEnd
  <2> QED
    BY <2>1, <2>2, <2>3 DEF P!Next, P!BuildStep, P!RunStep, P!Send, P!Receive, P!EndWaits
<1> QED BY <1>1, BoardsInvariant, PTL DEF P!Spec, EndsTruly
=============================================================================
