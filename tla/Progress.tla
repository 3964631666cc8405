------------------------------- MODULE Progress -------------------------------
(***************************************************************************)
(* What the background goroutine of `sedona provision` lets the command    *)
(* know of its work, and what the command makes of it: two boards of       *)
(* statuses, the second of which is used only after the first stage has    *)
(* answered nil; one error at most, after a stage has failed; and two      *)
(* waits, one after the other, each of which ends at a moment at which no  *)
(* status on its board is false. (At such a moment the board may be empty: *)
(* the command does not know what will be registered.)                     *)
(***************************************************************************)
EXTENDS Naturals

CONSTANTS Images, \* the images of the request
          Tagged  \* those that are built

VARIABLES building, built, \* the first board, and the answer of Build
          starting, ran,   \* the second board, and that of RunContainers
          reported,        \* whether the error has been sent
          errors,          \* the errors that wait to be read
          over             \* the waits of the command that have ended

vars == <<building, built, starting, ran, reported, errors, over>>

Build == INSTANCE StatusBoard WITH
            Worked <- Tagged, Exact <- \A i, j \in Tagged : i = j,
            statuses <- building, answer <- built

Run == INSTANCE StatusBoard WITH
            Worked <- Images, Exact <- TRUE, statuses <- starting, answer <- ran

Init ==
    /\ Build!Init /\ Run!Init
    /\ reported = FALSE /\ errors = 0 /\ over = {}

BuildStep ==
    /\ Build!Next
    /\ UNCHANGED <<starting, ran, reported, errors, over>>

RunStep ==
    /\ built = "nil"
    /\ Run!Next
    /\ UNCHANGED <<building, built, reported, errors, over>>

Send ==
    /\ ~reported
    /\ built = "error" \/ ran = "error"
    /\ reported' = TRUE
    /\ errors' = errors + 1
    /\ UNCHANGED <<building, built, starting, ran, over>>

Receive ==
    /\ errors > 0
    /\ errors' = errors - 1
    /\ UNCHANGED <<building, built, starting, ran, reported, over>>

EndWait(w, board) ==
    /\ w \notin over
    /\ \A i \in Images : board[i] # "false"
    /\ over' = over \cup {w}
    /\ UNCHANGED <<building, built, starting, ran, reported, errors>>

EndWaits ==
    \/ EndWait("images", building)
    \/ "images" \in over /\ EndWait("containers", starting)

Next == BuildStep \/ RunStep \/ Send \/ Receive \/ EndWaits

Spec == Init /\ [][Next]_vars
=============================================================================
