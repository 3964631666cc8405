----------------------------- MODULE StatusBoard -----------------------------
(***************************************************************************)
(* What a stage of `sedona provision`, building or starting, promises of   *)
(* the map of statuses by which the command follows it: every image is     *)
(* registered before it is worked on, a status becomes true once and stays *)
(* true, the stage answers once, when all are registered, and nothing      *)
(* changes any more after its answer. An error comes with an image that is *)
(* not ready, and never will be; nil means, if Exact, that all are.        *)
(***************************************************************************)
CONSTANTS Images, \* the images of the request
          Worked, \* those that the stage works on
          Exact   \* whether its nil can be relied on

VARIABLES statuses, \* of each image: "absent", "false" or "true"
          answer    \* "none", and then "nil" or "error"

vars == <<statuses, answer>>

Init ==
    /\ statuses = [i \in Images |-> "absent"]
    /\ answer = "none"

SetStatus(i, from, to) ==
    /\ answer = "none"
    /\ statuses[i] = from
    /\ statuses' = [statuses EXCEPT ![i] = to]
    /\ UNCHANGED answer

Register(i) == SetStatus(i, "absent", "false")

Mark(i) == SetStatus(i, "false", "true")

AllReady == \A i \in Worked : statuses[i] = "true"

Answer ==
    /\ answer = "none"
    /\ \A i \in Images : statuses[i] # "absent"
    /\ \/ answer' = "error" /\ ~AllReady
       \/ answer' = "nil" /\ (Exact => AllReady)
    /\ UNCHANGED statuses

Next ==
    \/ \E i \in Images : Register(i)
    \/ \E i \in Worked : Mark(i)
    \/ Answer

Spec == Init /\ [][Next]_vars
=============================================================================
