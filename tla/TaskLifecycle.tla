---------------------------- MODULE TaskLifecycle ----------------------------
(***************************************************************************)
(* What backlite promises of a task, without store, containers or          *)
(* processes: the status lifecycle of the tasks table as its users see it, *)
(* the cap on the work in progress, and the cap on user retries.           *)
(***************************************************************************)
EXTENDS Integers, FiniteSets

CONSTANTS
    Task,
    Capacity,      \* tasks that may occupy a container slot at once
    RetryLimit     \* retries a user may ask for, per task

VARIABLES
    state,     \* state[t]: where t is in its life
    retries    \* retries[t]: user retries of t so far

State == {"none", "queued", "active", "stopping",
          "completed", "failed", "cancelled", "deleted"}

vars == <<state, retries>>

TypeOK == state \in [Task -> State] /\ retries \in [Task -> Nat]

Init == state = [t \in Task |-> "none"] /\ retries = [t \in Task |-> 0]

\* The tasks that occupy a slot: at work, or cancelled and being stopped.
Occupied == {t \in Task : state[t] \in {"active", "stopping"}}

Move(t, from, to) ==
    /\ state[t] \in from
    /\ state' = [state EXCEPT ![t] = to]
    /\ UNCHANGED retries

Submit(t) == Move(t, {"none"}, "queued")
Delete(t) ==
    /\ state[t] = "queued"
    /\ state' = [state EXCEPT ![t] = "deleted"]
    /\ retries' = [retries EXCEPT ![t] = 0]
Start(t)  == Move(t, {"queued"}, "active") /\ Cardinality(Occupied) < Capacity
Requeue(t) == Move(t, {"active"}, "queued")
Fail(t)    == Move(t, {"queued", "active"}, "failed")
Succeed(t) == Move(t, {"active"}, "completed")
Cancel(t)  == Move(t, {"active"}, "stopping") \/ Move(t, {"active"}, "cancelled")
Stopped(t) == Move(t, {"stopping"}, "cancelled")

\* A successful code task and the review it asked for: one step, both or none.
SucceedWithReview(t, child) ==
    /\ state[t] = "active" /\ state[child] = "none"
    /\ state' = [state EXCEPT ![t] = "completed", ![child] = "queued"]
    /\ UNCHANGED retries

\* The user asks for another attempt; never while the last one is being stopped.
Retry(t) ==
    /\ state[t] \in {"failed", "cancelled"}
    /\ retries[t] < RetryLimit
    /\ state' = [state EXCEPT ![t] = "queued"]
    /\ retries' = [retries EXCEPT ![t] = @ + 1]

Next ==
    \E t \in Task :
        \/ Submit(t) \/ Delete(t) \/ Start(t) \/ Requeue(t) \/ Fail(t)
        \/ Succeed(t) \/ Cancel(t) \/ Stopped(t) \/ Retry(t)
        \/ \E child \in Task : SucceedWithReview(t, child)

Spec == Init /\ [][Next]_vars
=============================================================================
