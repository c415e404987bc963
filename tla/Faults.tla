------------------------------- MODULE Faults -------------------------------
(***************************************************************************)
(* The failures of the calls that backlite makes.  Every store call and    *)
(* every docker command returns an error that the caller handles in a      *)
(* branch of its own.  A run of the model allows some kinds of failure, at *)
(* most MaxFaults times in all.                                            *)
(***************************************************************************)
EXTENDS Integers

CONSTANTS
    FaultKinds,   \* the kinds of call that may fail: a subset of Fault
    MaxFaults     \* bound: failures in one behaviour

\* "store":   an SQL statement or transaction returns an error
\* "inspect": docker inspect returns an error for a container that exists
\* "stop":    docker stop / docker rm does not remove the container
\* "run":     docker run does not start a container
\* "copy":    docker cp of the agent's log returns an error
\* "file":    an operation on the task's directory returns an error
Fault == {"store", "inspect", "stop", "run", "copy", "file"}

ASSUME FaultsAssumption == FaultKinds \subseteq Fault /\ MaxFaults \in Nat

VARIABLE faults   \* failures so far

FaultsTypeOK == faults \in 0 .. MaxFaults

FaultsInit == faults = 0

\* The call succeeds.
Works == UNCHANGED faults

\* A call of this kind fails.
Breaks(kind) ==
    /\ kind \in FaultKinds
    /\ faults < MaxFaults
    /\ faults' = faults + 1
=============================================================================
