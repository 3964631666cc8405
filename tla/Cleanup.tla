------------------------------ MODULE Cleanup ------------------------------
(***************************************************************************)
(* run.Service.Clear (cli/internal/service/run/service.go) and the client  *)
(* calls under it: `sedona clear`, and the first thing Provision does.     *)
(*                                                                         *)
(* Clear lists the running containers labelled app=sedona, kills and       *)
(* removes one after the other, then removes the sedona network. It gives  *)
(* up at the first error, and containers may exit by themselves meanwhile. *)
(***************************************************************************)
EXTENDS Naturals, FiniteSets

CONSTANTS Containers, \* all containers labelled app=sedona
          MaxFaults,  \* bound: how often a call may fail for no reason of ours
          None        \* no container

ASSUME CleanupAssumption ==
    /\ IsFiniteSet(Containers)
    /\ MaxFaults \in Nat
    /\ None \notin Containers

VARIABLES
    clear,     \* where Clear is, or what it returned ("nil", "error")
    toClear,   \* what is left of the list it iterates over
    current,   \* the container it has killed and not yet removed
    container, \* the daemon: what has become of each container
    network,   \* the daemon: whether the sedona network exists
    faults,    \* how many more calls may fail
    process    \* "up", or how the process ended

clearVars == <<clear, toClear, current>>
vars == <<clearVars, container, network, faults, process>>

Steps == {"list", "kill", "remove", "getNetwork", "removeNetwork"}

TypeOK ==
    /\ clear \in Steps \cup {"idle", "nil", "error"}
    /\ toClear \subseteq Containers
    /\ current \in Containers \cup {None}
    /\ container \in [Containers -> {"none", "created", "running", "exited", "removed"}]
    /\ network \in BOOLEAN
    /\ faults \in 0..MaxFaults
    /\ process \in {"up", "panicked", "exited"}

InitClear == clear = "idle" /\ toClear = {} /\ current = None

\* What an earlier command may have left, wherever it was interrupted.
Leftovers ==
    /\ container \in [Containers -> {"none", "created", "running", "exited"}]
    /\ network \in BOOLEAN
    /\ (\E c \in Containers : container[c] = "running") => network

Init == InitClear /\ Leftovers /\ faults = MaxFaults /\ process = "up"
-----------------------------------------------------------------------------
(* Clear, one step per call to the daemon.                                 *)

At(step) == process = "up" /\ clear = step

\* The call of this step fails, and Clear returns the error.
CallFails ==
    /\ faults > 0
    /\ faults' = faults - 1
    /\ clear' = "error"
    /\ UNCHANGED <<toClear, current, container, network, process>>

CallClear ==
    /\ At("idle")
    /\ clear' = "list"
    /\ UNCHANGED <<toClear, current, container, network, faults, process>>

\* Mutant: the list holds the containers that are not running as well.
ListAll ==
    /\ At("list")
    /\ toClear' = {c \in Containers : container[c] \in {"created", "running", "exited"}}
    /\ clear' = "kill"
    /\ UNCHANGED <<current, container, network, faults, process>>

\* ListContainers: without All, the daemon lists the running ones only.
List ==
    /\ At("list")
    /\ \/ /\ toClear' = {c \in Containers : container[c] = "running"}
          /\ clear' = "kill"
          /\ UNCHANGED <<current, container, network, faults, process>>
       \/ CallFails

\* ContainerKill: it waits for the end of the container, and fails on one that
\* is no longer running. The list is in the daemon's order.
Kill ==
    /\ At("kill")
    /\ \E c \in toClear :
          \/ /\ container[c] = "running"
             /\ container' = [container EXCEPT ![c] = "exited"]
             /\ current' = c
             /\ clear' = "remove"
             /\ UNCHANGED <<toClear, network, faults, process>>
          \/ /\ container[c] # "running"
             /\ clear' = "error"
             /\ UNCHANGED <<toClear, current, container, network, faults, process>>
          \/ CallFails

\* Mutant: the removal is not awaited, and the daemon may be left with a dead one.
RemoveUnforced ==
    /\ At("remove")
    /\ \E s \in {"removed", "dead"} : container' = [container EXCEPT ![current] = s]
    /\ toClear' = toClear \ {current}
    /\ current' = None
    /\ clear' = "kill"
    /\ UNCHANGED <<network, faults, process>>

\* ContainerRemove of the container just killed.
Remove ==
    /\ At("remove")
    /\ \/ /\ container' = [container EXCEPT ![current] = "removed"]
          /\ toClear' = toClear \ {current}
          /\ current' = None
          /\ clear' = "kill"
          /\ UNCHANGED <<network, faults, process>>
       \/ CallFails

\* The end of the loop over the list.
ListDone ==
    /\ At("kill")
    /\ toClear = {}
    /\ clear' = "getNetwork"
    /\ UNCHANGED <<toClear, current, container, network, faults, process>>

\* Mutant: any error of GetNetworkID is taken for a missing network.
GetNetworkLenient ==
    /\ At("getNetwork")
    /\ clear' \in {IF network THEN "removeNetwork" ELSE "nil", "nil"}
    /\ UNCHANGED <<toClear, current, container, network, faults, process>>

\* GetNetworkID: ErrNetworkNotFound is no error to Clear.
GetNetwork ==
    /\ At("getNetwork")
    /\ \/ /\ clear' = IF network THEN "removeNetwork" ELSE "nil"
          /\ UNCHANGED <<toClear, current, container, network, faults, process>>
       \/ CallFails

\* NetworkRemove, which the daemon refuses while a running container uses it.
RemoveNetwork ==
    /\ At("removeNetwork")
    /\ \/ /\ \A c \in Containers : container[c] # "running"
          /\ network' = FALSE
          /\ clear' = "nil"
          /\ UNCHANGED <<toClear, current, container, faults, process>>
       \/ /\ \E c \in Containers : container[c] = "running"
          /\ clear' = "error"
          /\ UNCHANGED <<toClear, current, container, network, faults, process>>
       \/ CallFails

ClearStep ==
    \/ CallClear \/ List \/ Kill \/ Remove \/ ListDone
    \/ GetNetwork \/ RemoveNetwork
-----------------------------------------------------------------------------
(* The daemon and the user of the clear command.                           *)

ContainerExits(c) ==
    /\ container[c] = "running"
    /\ container' = [container EXCEPT ![c] = "exited"]
    /\ UNCHANGED <<clearVars, network, faults, process>>

\* The user interrupts the command between two calls and loses its progress.
Interrupt ==
    /\ clear \in Steps
    /\ faults > 0
    /\ faults' = faults - 1
    /\ clear' = "error"
    /\ toClear' = {}
    /\ current' = None
    /\ UNCHANGED <<container, network, process>>

\* Mutant: a new invocation continues with the list of the failed one.
RetryStale ==
    /\ At("error")
    /\ clear' = "kill"
    /\ UNCHANGED <<toClear, current, container, network, faults, process>>

\* The command failed and is run again.
Retry ==
    /\ At("error")
    /\ clear' = "idle"
    /\ toClear' = {}
    /\ current' = None
    /\ UNCHANGED <<container, network, faults, process>>

Next ==
    \/ ClearStep
    \/ Interrupt
    \/ Retry
    \/ \E c \in Containers : ContainerExits(c)

Spec == Init /\ [][Next]_vars

\* Every call returns, and the user runs the command again when it failed.
FairSpec == Spec /\ WF_vars(ClearStep) /\ WF_vars(Retry)
-----------------------------------------------------------------------------
(* Properties.                                                             *)

Running == {c \in Containers : container[c] = "running"}

\* When Clear returns nil nothing of an earlier command runs and the network is
\* gone, although the list was taken once and containers exited meanwhile.
ClearedMeansClean == clear = "nil" => Running = {} /\ ~network

\* Whatever is running has been on the list since it was taken: nothing escapes
\* a Clear that is under way, and the container just killed is still on it.
ListCoversRunning ==
    /\ clear \in {"kill", "remove"} => Running \subseteq toClear
    /\ clear = "remove" => current \in toClear /\ container[current] = "exited"
    /\ clear \in {"getNetwork", "removeNetwork"} => Running = {}

\* Run again after every failure, Clear succeeds: a container that exited under
\* its hands is not listed a second time.
EventuallyCleared == <>(clear = "nil")

\* The integration test asserts that Clear returns no error
\* (tests/integration/container/service_test.go:107), here with no failing call.
ClearNeverFails == clear # "error"
=============================================================================
