---------------------------- MODULE Orchestrator ----------------------------
(***************************************************************************)
(* The orchestrator goroutine (internal/orchestrator): recovery on         *)
(* startup, then the poll loop, whose tick visits the cancelled, the       *)
(* recovering, the running and the pending tasks in that order.  The       *)
(* transitions of a task go through internal/orchestrator/lifecycle.       *)
(*                                                                         *)
(* Each action is one call of the store or of docker together with the     *)
(* local code up to the next call, so that API handlers, agents and a      *)
(* crash may come between any two calls.  A phase lists the rows of one    *)
(* status and keeps the rows it read (snap): what it does to a task later  *)
(* is decided by the row as it was listed, not as it is then.              *)
(***************************************************************************)
EXTENDS Containers

CONSTANT MaxConcurrent   \* BACKFLOW_MAX_CONTAINERS
ASSUME CapacityAssumption == MaxConcurrent \in Nat \ {0}

VARIABLES
    running,   \* o.running: the slots in use
    fails,     \* o.inspectFailures, 0 for a task that has no entry
    phase,     \* which part of Start or tick the goroutine is in
    step,      \* the call it makes next
    todo,      \* the listed tasks not yet dealt with
    snap,      \* the rows of those tasks as they were listed
    hand,      \* what it knows of the task at hand: container and report
    found      \* recoverOnStartup: slots of the orphans listed so far

goroutine == <<phase, step, todo, snap, hand>>
orchVars == <<running, fails, goroutine, found>>

maxInspectFailures == 3

Phase == {"boot", "cancelled", "recovering", "running", "dispatch"}

\* The order of Start and tick.
NextPhase(p) ==
    CASE p = "cancelled"  -> "recovering"
      [] p = "recovering" -> "running"
      [] p = "running"    -> "dispatch"
      [] OTHER            -> "cancelled"

Step == {"list", "list_provisioning", "list_recovering", "item", "clear",
         "gate", "requeue", "promote", "kill", "complete_chain", "complete",
         "run", "start", "fail"}

EmptyHand == [cid |-> NoCid, report |-> "failed"]
NoSnap == [t \in Task |-> NoRow]

OrchestratorTypeOK ==
    /\ running \in Nat
    /\ fails \in [Task -> 0 .. maxInspectFailures - 1]
    /\ phase \in Phase
    /\ step \in Step
    /\ todo \subseteq Task
    /\ snap \in [Task -> Row]
    /\ hand \in [cid : Cid \cup {NoCid}, report : Report]
    /\ found \in Nat

\* A process that has just started: nothing of the last one's memory is left.
Booting ==
    /\ running = 0
    /\ fails = [t \in Task |-> 0]
    /\ phase = "boot"
    /\ step = "list"
    /\ todo = {}
    /\ snap = NoSnap
    /\ hand = EmptyHand
    /\ found = 0

Restarted ==
    /\ running' = 0
    /\ fails' = [t \in Task |-> 0]
    /\ phase' = "boot"
    /\ step' = "list"
    /\ todo' = {}
    /\ snap' = NoSnap
    /\ hand' = EmptyHand
    /\ found' = 0

----------------------------------------------------------------------------
(* Moving through a phase.                                                 *)

At(p, s) == phase = p /\ step = s

\* t is the listed task whose turn it is.
Turn(t) == t \in todo /\ \A u \in todo : t <= u

\* The list call returns the tasks S; without any the phase is over.
Iterate(S) ==
    /\ todo' = S
    /\ snap' = [t \in Task |-> IF t \in S THEN db[t] ELSE NoRow]
    /\ hand' = EmptyHand
    /\ IF S = {} THEN phase' = NextPhase(phase) /\ step' = "list"
                 ELSE phase' = phase /\ step' = "item"

Goto(s) == step' = s /\ UNCHANGED <<phase, todo, snap>>

\* The loop body ends for t.
Advance(t) ==
    /\ todo' = todo \ {t}
    /\ snap' = [snap EXCEPT ![t] = NoRow]
    /\ hand' = EmptyHand
    /\ IF todo = {t} THEN phase' = NextPhase(phase) /\ step' = "list"
                     ELSE phase' = phase /\ step' = "item"

\* A list call that fails is logged and ends the phase.
List(p, S) ==
    /\ At(p, "list")
    /\ \/ Works /\ Iterate(S)
       \/ Breaks("store") /\ Iterate({})
    /\ UNCHANGED <<db, ctr, running, fails, found>>

\* A write of the store, whose error is logged and otherwise ignored.
BestEffort(write) ==
    \/ write /\ Works
    \/ Breaks("store") /\ UNCHANGED db

Acquire == running' = running + 1
Released == IF running > 0 THEN running - 1 ELSE 0
Release == running' = Released

----------------------------------------------------------------------------
(* recoverOnStartup                                                        *)

\* listTasksSafe: a failed list is an empty one.
BootList(S) ==
    \/ /\ Works
       /\ todo' = todo \cup S
       /\ snap' = [t \in Task |-> IF t \in S THEN db[t] ELSE snap[t]]
    \/ Breaks("store") /\ UNCHANGED <<todo, snap>>

BootListRunning ==
    /\ At("boot", "list")
    /\ BootList(Rows("running"))
    /\ found' = Cardinality(todo')
    /\ step' = "list_provisioning"
    /\ UNCHANGED <<db, ctr, running, fails, phase, hand>>

\* Mutation: recovery leaves out the tasks found in provisioning.
BootListProvisioning_Skipped ==
    /\ At("boot", "list_provisioning")
    /\ step' = "list_recovering"
    /\ UNCHANGED <<faults, db, ctr, running, fails, phase, todo, snap, hand, found>>

BootListProvisioning ==
    /\ At("boot", "list_provisioning")
    /\ BootList(Rows("provisioning"))
    /\ step' = "list_recovering"
    /\ UNCHANGED <<db, ctr, running, fails, phase, hand, found>>

\* The loops over the orphans are over: o.running is the number of slots found.
BootDone(slots) ==
    /\ phase' = NextPhase(phase)
    /\ step' = "list"
    /\ running' = slots
    /\ found' = 0

BootListed(slots) ==
    IF todo = {} THEN BootDone(slots)
                 ELSE step' = "item" /\ found' = slots /\ UNCHANGED <<running, phase>>

\* Mutation: the tasks a restart finds already recovering are not counted.
BootListRecovering_NotCounted ==
    /\ At("boot", "list_recovering")
    /\ BootListed(found)
    /\ UNCHANGED <<faults, db, ctr, fails, todo, snap, hand>>

\* A recovering task with a container held a slot before the restart, too.
BootListRecovering ==
    /\ At("boot", "list_recovering")
    /\ \/ /\ Works
          /\ BootListed(found + Cardinality({t \in Rows("recovering") : db[t].cid # NoCid}))
       \/ Breaks("store") /\ BootListed(found)
    /\ UNCHANGED <<db, ctr, fails, todo, snap, hand>>

\* The provisioning orphans are marked before the running ones.
BootTurn(t) ==
    LET provisioning == {u \in todo : snap[u].status = "provisioning"}
        first == IF provisioning = {} THEN todo ELSE provisioning
    IN  t \in first /\ \A u \in first : t <= u

BootAdvance(t) ==
    /\ todo' = todo \ {t}
    /\ snap' = [snap EXCEPT ![t] = NoRow]
    /\ IF todo = {t} THEN BootDone(found)
                     ELSE step' = "item" /\ UNCHANGED <<phase, running, found>>

\* Mutation: the running orphans lose their container, too.
BootMark_AlwaysClears(t) ==
    /\ At("boot", "item") /\ BootTurn(t)
    /\ BestEffort(UpdateTaskStatus(t, "recovering"))
    /\ Goto("clear")
    /\ UNCHANGED <<ctr, running, found, fails, hand>>

\* MarkRecovering, the status write.
BootMark(t) ==
    /\ At("boot", "item") /\ BootTurn(t)
    /\ BestEffort(UpdateTaskStatus(t, "recovering"))
    /\ IF snap[t].status = "provisioning"
       THEN Goto("clear") /\ UNCHANGED <<running, found>>
       ELSE BootAdvance(t)
    /\ UNCHANGED <<ctr, fails, hand>>

\* MarkRecovering with clearAssignment, the second write.
BootClear(t) ==
    /\ At("boot", "clear") /\ BootTurn(t)
    /\ BestEffort(ClearTaskAssignment(t))
    /\ BootAdvance(t)
    /\ UNCHANGED <<ctr, fails, hand>>

----------------------------------------------------------------------------
(* monitorCancelled                                                        *)

\* A cancelled task without a container that is ready for retry is skipped.
CancelledList ==
    List("cancelled", {t \in Rows("cancelled") : db[t].cid # NoCid \/ ~db[t].ready})

\* Cancelled before it had a container: there is nothing to clean up.
CleanUnassigned(t) ==
    /\ At("cancelled", "item") /\ Turn(t)
    /\ snap[t].cid = NoCid
    /\ BestEffort(MarkReadyForRetry(t))
    /\ Advance(t)
    /\ UNCHANGED <<ctr, running, fails, found>>

\* Mutation: the container is left running.
CleanStop_Skipped(t) ==
    /\ At("cancelled", "item") /\ Turn(t)
    /\ snap[t].cid # NoCid
    /\ Goto("clear")
    /\ UNCHANGED <<faults, db, ctr, running, fails, hand, found>>

CleanStop(t) ==
    /\ At("cancelled", "item") /\ Turn(t)
    /\ snap[t].cid # NoCid
    /\ StopContainer(snap[t].cid)
    /\ Goto("clear")
    /\ UNCHANGED <<db, running, fails, hand, found>>

\* Mutation: the slot of a cancelled task is not released.
CleanClear_KeepsSlot(t) ==
    /\ At("cancelled", "clear") /\ Turn(t)
    /\ BestEffort(ClearTaskAssignment(t))
    /\ Goto("gate")
    /\ UNCHANGED <<ctr, running, fails, hand, found>>

\* Mutation: the assignment is not cleared, so the task is cleaned up for ever.
CleanClear_KeepsContainer(t) ==
    /\ At("cancelled", "clear") /\ Turn(t)
    /\ Release
    /\ Goto("gate")
    /\ UNCHANGED <<faults, db, ctr, fails, hand, found>>

\* releaseSlot, then ClearTaskAssignment.
CleanClear(t) ==
    /\ At("cancelled", "clear") /\ Turn(t)
    /\ Release
    /\ BestEffort(ClearTaskAssignment(t))
    /\ Goto("gate")
    /\ UNCHANGED <<ctr, fails, hand, found>>

\* Mutation: lifecycle.Complete does not open the gate.
OpenGate_OnlyCancelled(t) ==
    /\ step = "gate" /\ Turn(t)
    /\ IF phase = "cancelled" THEN BestEffort(MarkReadyForRetry(t))
                              ELSE UNCHANGED <<db, faults>>
    /\ Advance(t)
    /\ UNCHANGED <<ctr, running, fails, found>>

\* MarkReadyForRetry ends the work on t: after the clean-up of a cancelled task,
\* and, in lifecycle.Complete, after the completion of a task that failed.
OpenGate(t) ==
    /\ step = "gate" /\ Turn(t)
    /\ BestEffort(MarkReadyForRetry(t))
    /\ Advance(t)
    /\ UNCHANGED <<ctr, running, fails, found>>

----------------------------------------------------------------------------
(* Inspecting a container, in monitorRecovering and in monitorRunning.     *)

\* Mutation: the count is not started again.
InspectFailed_NoReset(t, act) ==
    /\ fails' = [fails EXCEPT ![t] = @ + 1]
    /\ IF fails[t] + 1 >= maxInspectFailures THEN Goto(act) /\ UNCHANGED hand ELSE Advance(t)

\* classifyInspectFailure: maxInspectFailures failures without a success in
\* between make it act, and start the count again.
InspectFailed(t, act) ==
    IF fails[t] + 1 >= maxInspectFailures
    THEN /\ fails' = [fails EXCEPT ![t] = 0]
         /\ Goto(act)
         /\ UNCHANGED hand
    ELSE /\ fails' = [fails EXCEPT ![t] = @ + 1]
         /\ Advance(t)

InspectSucceeded(t) == fails' = [fails EXCEPT ![t] = 0]

\* chain.Plan on the listed row: a completed code task with a pull request
\* that asked for a review and is not a review itself.
Plan(t, report) ==
    /\ report = "code_pr"
    /\ snap[t].selfReview
    /\ snap[t].parent = NoTask

\* handleCompletion up to lifecycle.Complete's first write.
HandleCompletion(t, report) ==
    /\ hand' = [hand EXCEPT !.report = report]
    /\ Goto(IF Plan(t, report) THEN "complete_chain" ELSE "complete")

\* Mutation: a container that exited counts as a success.
FinalStatus_AnyExit(report) == IF report \in Report THEN "completed" ELSE "failed"

FinalStatus(report) == IF report = "failed" THEN "failed" ELSE "completed"

----------------------------------------------------------------------------
(* lifecycle.Complete                                                      *)

\* Mutation: the child is inserted outside the transaction, before the parent.
CompleteChain_ChildFirst(t) ==
    /\ step = "complete_chain" /\ Turn(t)
    /\ \/ \E child \in Task :
            IsNext(child) /\ db' = [db EXCEPT ![child] = NewRow(FALSE, t)]
       \/ UNCHANGED db
    /\ Goto("complete")
    /\ UNCHANGED <<faults, ctr, running, fails, hand, found>>

\* WithTx: the parent's completion and the child's insertion.  A transaction
\* that fails is rolled back; Complete then falls back to the plain write.  It
\* fails on a parent that is gone (the child's foreign key) and, in the model,
\* when the bound on tasks is reached.
CompleteChain(t) ==
    /\ step = "complete_chain" /\ Turn(t)
    /\ \/ /\ Exists(t)
          /\ \E child \in Task : IsNext(child) /\ CompleteTaskWithChild(t, child)
          /\ Works
          /\ Release
          /\ Advance(t)
       \/ /\ \/ Breaks("store")
             \/ (~Exists(t) \/ \A child \in Task : ~IsNext(child)) /\ Works
          /\ Goto("complete")
          /\ UNCHANGED <<db, running, hand>>
    /\ UNCHANGED <<ctr, fails, found>>

\* Mutation: the slot is released although the write failed.
Complete_ReleasesAnyway(t) ==
    /\ step = "complete" /\ Turn(t)
    /\ Release
    /\ \/ /\ CompleteTask(t, FinalStatus(hand.report))
          /\ Works
          /\ IF hand.report = "failed" THEN Goto("gate") /\ UNCHANGED hand
                                      ELSE Advance(t)
       \/ Breaks("store") /\ Advance(t) /\ UNCHANGED db
    /\ UNCHANGED <<ctr, fails, found>>

\* Mutation: the slot is not released.
Complete_KeepsSlot(t) ==
    /\ step = "complete" /\ Turn(t)
    /\ CompleteTask(t, FinalStatus(hand.report))
    /\ IF hand.report = "failed" THEN Goto("gate") /\ UNCHANGED hand ELSE Advance(t)
    /\ UNCHANGED <<faults, ctr, running, fails, found>>

\* The plain write.  When it fails the slot stays held, and the task is
\* inspected again in the next tick.
Complete(t) ==
    /\ step = "complete" /\ Turn(t)
    /\ \/ /\ CompleteTask(t, FinalStatus(hand.report))
          /\ Works
          /\ Release
          /\ IF hand.report = "failed" THEN Goto("gate") /\ UNCHANGED hand
                                      ELSE Advance(t)
       \/ Breaks("store") /\ Advance(t) /\ UNCHANGED <<db, running>>
    /\ UNCHANGED <<ctr, fails, found>>

----------------------------------------------------------------------------
(* monitorRecovering                                                       *)

RecoveringList == List("recovering", Rows("recovering"))

\* Mutation: a task without a container is passed over.
RequeueUnassigned_Skips(t) ==
    /\ At("recovering", "item") /\ Turn(t)
    /\ snap[t].cid = NoCid
    /\ Advance(t)
    /\ UNCHANGED <<faults, db, ctr, running, fails, found>>

\* lifecycle.Requeue, of a task that never had a container...
RequeueUnassigned(t) ==
    /\ At("recovering", "item") /\ Turn(t)
    /\ snap[t].cid = NoCid
    /\ BestEffort(RequeueTask(t))
    /\ Advance(t)
    /\ UNCHANGED <<ctr, running, fails, found>>

\* ... and of one whose container cannot be inspected: the slot is released
\* first, whether or not the write succeeds.
Requeue(t) ==
    /\ At("recovering", "requeue") /\ Turn(t)
    /\ Release
    /\ BestEffort(RequeueTask(t))
    /\ Advance(t)
    /\ UNCHANGED <<ctr, fails, found>>

Probe(t) ==
    /\ At("recovering", "item") /\ Turn(t)
    /\ snap[t].cid # NoCid
    /\ \/ InspectError(snap[t].cid) /\ InspectFailed(t, "requeue")
       \/ InspectLive(snap[t].cid) /\ InspectSucceeded(t) /\ Goto("promote") /\ UNCHANGED hand
       \/ \E report \in Report :
            /\ InspectDone(snap[t].cid, report)
            /\ InspectSucceeded(t)
            /\ HandleCompletion(t, report)
    /\ UNCHANGED <<db, ctr, running, found>>

\* lifecycle.Recover of a task whose container is alive.
Promote(t) ==
    /\ At("recovering", "promote") /\ Turn(t)
    /\ BestEffort(UpdateTaskStatus(t, "running"))
    /\ Advance(t)
    /\ UNCHANGED <<ctr, running, fails, found>>

----------------------------------------------------------------------------
(* monitorRunning                                                          *)

RunningList == List("running", Rows("running"))

isTimedOut(t) == snap[t].clock = "over"

WatchTimedOut(t) ==
    /\ At("running", "item") /\ Turn(t)
    /\ isTimedOut(t)
    /\ Goto("kill")
    /\ Works
    /\ UNCHANGED <<db, ctr, running, fails, hand, found>>

Watch(t) ==
    /\ At("running", "item") /\ Turn(t)
    /\ ~isTimedOut(t)
    /\ \/ InspectError(snap[t].cid) /\ InspectFailed(t, "kill")
       \/ InspectLive(snap[t].cid) /\ InspectSucceeded(t) /\ Advance(t)
       \/ \E report \in Report :
            /\ InspectDone(snap[t].cid, report)
            /\ InspectSucceeded(t)
            /\ HandleCompletion(t, report)
    /\ UNCHANGED <<db, ctr, running, found>>

\* killTask: stop the container, if there is one, and complete the task as
\* failed whatever the container says.
KillTask(t) ==
    /\ At("running", "kill") /\ Turn(t)
    /\ StopContainer(snap[t].cid)
    /\ hand' = [hand EXCEPT !.report = "failed"]
    /\ Goto("complete")
    /\ UNCHANGED <<db, running, fails, found>>

----------------------------------------------------------------------------
(* dispatchPending                                                         *)

\* Mutation: one task more than there are free slots.
DispatchList_OffByOne ==
    List("dispatch", Oldest(Rows("pending"), MaxConcurrent - running + 1))

\* Without a free slot nothing is listed, so no store call can fail.
DispatchList ==
    IF running < MaxConcurrent
    THEN List("dispatch", Oldest(Rows("pending"), MaxConcurrent - running))
    ELSE /\ At("dispatch", "list")
         /\ Iterate({})
         /\ Works
         /\ UNCHANGED <<db, ctr, running, fails, found>>

Assign(t) ==
    /\ At("dispatch", "item") /\ Turn(t)
    /\ \/ AssignTask(t) /\ Works /\ Goto("run")
       \/ Breaks("store") /\ UNCHANGED db /\ Goto("fail")
    /\ UNCHANGED <<ctr, running, fails, hand, found>>

RunAgent(t) ==
    /\ At("dispatch", "run") /\ Turn(t)
    /\ \/ /\ \E c \in Cid : RunContainer(t, c) /\ hand' = [hand EXCEPT !.cid = c]
          /\ Goto("start")
       \/ RunFails /\ Goto("fail") /\ UNCHANGED hand
    /\ UNCHANGED <<db, running, fails, found>>

\* lifecycle.Start: the slot is taken once the write has succeeded.
Start(t) ==
    /\ At("dispatch", "start") /\ Turn(t)
    /\ \/ StartTask(t, hand.cid) /\ Works /\ Acquire /\ Advance(t)
       \/ Breaks("store") /\ Goto("fail") /\ UNCHANGED <<db, running, hand>>
    /\ UNCHANGED <<ctr, fails, found>>

\* lifecycle.FailDispatch: no slot was taken, and the retry gate stays shut.
FailDispatch(t) ==
    /\ At("dispatch", "fail") /\ Turn(t)
    /\ BestEffort(UpdateTaskStatus(t, "failed"))
    /\ Advance(t)
    /\ UNCHANGED <<ctr, running, fails, found>>

----------------------------------------------------------------------------
OrchestratorNext ==
    \/ BootListRunning \/ BootListProvisioning \/ BootListRecovering
    \/ CancelledList \/ RecoveringList \/ RunningList \/ DispatchList
    \/ \E t \in Task :
         \/ BootMark(t) \/ BootClear(t)
         \/ CleanUnassigned(t) \/ CleanStop(t) \/ CleanClear(t) \/ OpenGate(t)
         \/ RequeueUnassigned(t) \/ Probe(t) \/ Requeue(t) \/ Promote(t)
         \/ WatchTimedOut(t) \/ Watch(t) \/ KillTask(t)
         \/ CompleteChain(t) \/ Complete(t)
         \/ Assign(t) \/ RunAgent(t) \/ Start(t) \/ FailDispatch(t)
=============================================================================
