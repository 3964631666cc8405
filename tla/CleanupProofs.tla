--------------------------- MODULE CleanupProofs ---------------------------
(***************************************************************************)
(* Clear takes its list once and works through it while containers exit;   *)
(* for any number of containers, failures and interruptions its nil means  *)
(* that nothing runs any more.                                             *)
(***************************************************************************)
EXTENDS Cleanup, TLAPS

\* Every variable keeps its type.
THEOREM TypeCorrect == Spec => []TypeOK
<1>1. Init => TypeOK
  BY CleanupAssumption DEF Init, InitClear, Leftovers, TypeOK
<1>2. TypeOK /\ [Next]_vars => TypeOK'
  <2> SUFFICES ASSUME TypeOK, [Next]_vars PROVE TypeOK'
    OBVIOUS
  <2> USE CleanupAssumption DEF TypeOK, Steps, At, CallFails
  <2>1. CASE CallClear BY <2>1 DEF CallClear
  <2>2. CASE List BY <2>2 DEF List
  <2>3. CASE Kill BY <2>3 DEF Kill
  <2>4. CASE Remove BY <2>4 DEF Remove
  <2>5. CASE ListDone BY <2>5 DEF ListDone
  <2>6. CASE GetNetwork BY <2>6 DEF GetNetwork
  <2>7. CASE RemoveNetwork
    <3>1. network' \in BOOLEAN BY <2>7, Zenon DEF RemoveNetwork
    <3>2. clear' \in {"nil", "error"} /\ faults' \in 0..MaxFaults
      BY <2>7 DEF RemoveNetwork
    <3> QED BY <2>7, <3>1, <3>2 DEF RemoveNetwork
  <2>8. CASE Interrupt BY <2>8 DEF Interrupt
  <2>9. CASE Retry BY <2>9 DEF Retry
  <2>10. ASSUME NEW c \in Containers, ContainerExits(c) PROVE TypeOK'
    BY <2>10 DEF ContainerExits, clearVars
  <2>11. CASE UNCHANGED vars BY <2>11 DEF vars, clearVars
  <2> QED
    BY <2>1, <2>2, <2>3, <2>4, <2>5, <2>6, <2>7, <2>8, <2>9, <2>10, <2>11
    DEF Next, ClearStep
<1> QED BY <1>1, <1>2, PTL DEF Spec

\* The list covers what runs, from the answer of the daemon to the end.
ClearInv == ListCoversRunning /\ ClearedMeansClean

\* ClearInv holds at first and is kept by every step.
LEMMA ClearInvariant == Spec => []ClearInv
<1>1. Init => ClearInv
  BY DEF Init, InitClear, ClearInv, ListCoversRunning, ClearedMeansClean
<1>2. TypeOK /\ ClearInv /\ [Next]_vars => ClearInv'
  <2> SUFFICES ASSUME TypeOK, ClearInv, [Next]_vars PROVE ClearInv'
    OBVIOUS
  <2> USE CleanupAssumption
      DEF TypeOK, Steps, At, CallFails, ClearInv, ListCoversRunning,
          ClearedMeansClean, Running
  <2>1. CASE CallClear BY <2>1 DEF CallClear
  <2>2. CASE List BY <2>2 DEF List
  <2>3. CASE Kill BY <2>3 DEF Kill
  <2>4. CASE Remove BY <2>4 DEF Remove
  <2>5. CASE ListDone BY <2>5 DEF ListDone
  <2>6. CASE GetNetwork BY <2>6 DEF GetNetwork
  <2>7. CASE RemoveNetwork BY <2>7 DEF RemoveNetwork
  <2>8. CASE Interrupt BY <2>8 DEF Interrupt
  <2>9. CASE Retry BY <2>9 DEF Retry
  <2>10. ASSUME NEW c \in Containers, ContainerExits(c) PROVE ClearInv'
    BY <2>10 DEF ContainerExits, clearVars
  <2>11. CASE UNCHANGED vars BY <2>11 DEF vars, clearVars
  <2> QED
    BY <2>1, <2>2, <2>3, <2>4, <2>5, <2>6, <2>7, <2>8, <2>9, <2>10, <2>11
    DEF Next, ClearStep
<1> QED BY <1>1, <1>2, TypeCorrect, PTL DEF Spec

\* Nothing that runs escapes a Clear under way.
THEOREM NothingEscapes == Spec => []ListCoversRunning
<1>1. ClearInv => ListCoversRunning
  BY DEF ClearInv
<1> QED BY <1>1, ClearInvariant, PTL

\* A Clear that returns nil leaves no container running and no network.
THEOREM ClearedIsClean == Spec => []ClearedMeansClean
<1>1. ClearInv => ClearedMeansClean
  BY DEF ClearInv
<1> QED BY <1>1, ClearInvariant, PTL
-----------------------------------------------------------------------------
(* Why running Clear again is enough.                                      *)

\* How far Clear is; the loop over the list is one stage.
Stage(s) ==
    CASE s = "idle" -> 0       [] s = "list" -> 1          [] s \in {"kill", "remove"} -> 2
      [] s = "getNetwork" -> 3 [] s = "removeNetwork" -> 4 [] OTHER -> 5

\* A call takes Clear to a later stage, or from a kill to the removal of the
\* same container, or back to the loop with one container less on the list.
Advances ==
    \/ Stage(clear) < Stage(clear')
    \/ clear = "kill" /\ clear' = "remove" /\ toClear' = toClear
    \/ clear = "remove" /\ clear' = "kill" /\ toClear' = toClear \ {current} /\ current \in toClear

\* Clear gets to an end, whatever exits and fails while it works: what it has
\* removed was on its list, so that the loop cannot turn without the list
\* getting shorter.
THEOREM ClearAdvances == Spec => [][ClearStep => Advances]_vars
<1>1. TypeOK /\ ClearInv /\ [Next]_vars => [ClearStep => Advances]_vars
  <2> SUFFICES ASSUME TypeOK, ClearInv, ClearStep PROVE Advances
    OBVIOUS
  <2>0. clear = "remove" => current \in toClear
    BY DEF ClearInv, ListCoversRunning
  <2> USE DEF At, CallFails, Stage, Advances
  <2>1. CASE CallClear BY <2>1 DEF CallClear
  <2>2. CASE List BY <2>2 DEF List
  <2>3. CASE Kill BY <2>3 DEF Kill
  <2>4. CASE Remove BY <2>0, <2>4 DEF Remove
  <2>5. CASE ListDone BY <2>5 DEF ListDone
  <2>6. CASE GetNetwork
    <3>1. clear = "getNetwork" /\ clear' \in {"removeNetwork", "nil", "error"}
      BY <2>6 DEF GetNetwork
    <3> QED BY <3>1
  <2>7. CASE RemoveNetwork
    <3>1. clear = "removeNetwork" /\ clear' \in {"nil", "error"}
      BY <2>7 DEF RemoveNetwork
    <3> QED BY <3>1
  <2> QED BY <2>1, <2>2, <2>3, <2>4, <2>5, <2>6, <2>7 DEF ClearStep
<1> QED BY <1>1, TypeCorrect, ClearInvariant, PTL DEF Spec

\* A failure takes one of the faults, or leaves fewer containers running than
\* the list had: none is ever started, so that the next list is shorter.
Costs ==
    /\ clear # "error" /\ clear' = "error" =>
          \/ faults' < faults
          \/ Running' \subseteq toClear /\ Running' # toClear
    /\ Running' \subseteq Running /\ faults' <= faults

\* Clear fails for a reason that does not come back: the network, which the
\* daemon would refuse to remove while a container uses it, never is the reason.
THEOREM FailureCosts == Spec => [][Costs]_vars
<1>1. TypeOK /\ ClearInv /\ [Next]_vars => [Costs]_vars
  <2> SUFFICES ASSUME TypeOK, ClearInv, Next PROVE Costs
    OBVIOUS
  <2> USE DEF TypeOK, ClearInv, ListCoversRunning, Running, At, CallFails, Costs
  <2>1. CASE CallClear BY <2>1 DEF CallClear
  <2>2. CASE List BY <2>2 DEF List
  <2>3. CASE Kill BY <2>3 DEF Kill
  <2>4. CASE Remove BY <2>4 DEF Remove
  <2>5. CASE ListDone BY <2>5 DEF ListDone
  <2>6. CASE GetNetwork BY <2>6 DEF GetNetwork
  <2>7. CASE RemoveNetwork BY <2>7 DEF RemoveNetwork
  <2>8. CASE Interrupt BY <2>8 DEF Interrupt
  <2>9. CASE Retry BY <2>9 DEF Retry
  <2>10. ASSUME NEW c \in Containers, ContainerExits(c) PROVE Costs
    BY <2>10 DEF ContainerExits, clearVars
  <2> QED
    BY <2>1, <2>2, <2>3, <2>4, <2>5, <2>6, <2>7, <2>8, <2>9, <2>10 DEF Next, ClearStep
<1> QED BY <1>1, TypeCorrect, ClearInvariant, PTL DEF Spec
=============================================================================
