------------------------------ MODULE Handover ------------------------------
(***************************************************************************)
(* What `sedona provision` promises about the machine it runs on: the      *)
(* containers of the earlier environment are gone, all of them, before the *)
(* first one of the new environment starts, each new container starts at   *)
(* most once, and the command may end in any stage.                        *)
(***************************************************************************)
CONSTANTS Old, New \* the containers of the two environments, which are disjoint

VARIABLES stage,   \* "leaving" the old environment, "entering" the new one
          running, \* the containers that run
          started  \* the new containers that have been started

vars == <<stage, running, started>>

Init ==
    /\ stage = "leaving"
    /\ running \in SUBSET Old
    /\ started = {}

\* A container ends, by itself or because it is killed.
Stop(c) ==
    /\ c \in running
    /\ running' = running \ {c}
    /\ UNCHANGED <<stage, started>>

Enter ==
    /\ stage = "leaving"
    /\ running = {}
    /\ stage' = "entering"
    /\ UNCHANGED <<running, started>>

Start(c) ==
    /\ stage = "entering"
    /\ c \in New \ started
    /\ running' = running \cup {c}
    /\ started' = started \cup {c}
    /\ UNCHANGED stage

End ==
    /\ stage # "ended"
    /\ stage' = "ended"
    /\ UNCHANGED <<running, started>>

Next ==
    \/ Enter \/ End
    \/ \E c \in Old \cup New : Stop(c)
    \/ \E c \in New : Start(c)

Spec == Init /\ [][Next]_vars
=============================================================================
