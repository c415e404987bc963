--------------------------- MODULE ContainerProofs ---------------------------
(***************************************************************************)
(* Tasks and their containers: no task is completed on the word of         *)
(* another's container or of none; no task lets go of a container that     *)
(* still runs; no container runs that no task knows of; and there are no   *)
(* more of them than there is capacity.                                    *)
(***************************************************************************)
EXTENDS CalmProofs

----------------------------------------------------------------------------
(* The invariants.                                                         *)

\* The containers belong to the tasks that name them.
OwnInv ==
    /\ \A t \in Task : db[t].cid # NoCid =>
         ctr[db[t].cid].task = t /\ ctr[db[t].cid].state # "unused"
    /\ step = "start" => \A t \in todo : Turn(t) =>
         ctr[hand.cid].task = t /\ ctr[hand.cid].state # "unused"

\* What the goroutine is about to write is what the container has reported.
ReportInv ==
    step \in {"complete", "complete_chain"} => \A t \in todo : Turn(t) =>
        /\ hand.report # "failed" => ctr[db[t].cid].state = hand.report
        /\ step = "complete_chain" => hand.report = "code_pr"

\* A server that never crashes has nothing to recover.
FirstBootInv ==
    MaxCrashes = 0 => Rows("recovering") = {} /\ (phase = "boot" => NothingFound)

\* The steps at which the container of the task at hand has stopped.
Stopped ==
    \/ step \in {"complete", "complete_chain"}
    \/ At("recovering", "requeue")
    \/ phase = "cancelled" /\ step \in {"clear", "gate"}

Idles(t) == db[t].cid # NoCid => ~Live(db[t].cid)

\* The container of a task that has ended runs no more.
DeadInv ==
    /\ \A t \in Task : db[t].status \in {"completed", "failed"} \/ db[t].ready => Idles(t)
    /\ Stopped => \A t \in todo : Turn(t) => Idles(t)

\* Every running container is named by its task, or just about to be.
LiveInv ==
    \A c \in Cid : Live(c) =>
        /\ ctr[c].task \in Task
        /\ \/ db[ctr[c].task].cid = c
           \/ step = "start" /\ hand.cid = c /\ Turn(ctr[c].task)

\* The calls that must not fail for a task to be known to be over: no docker
\* stop, and no docker inspect of a container that a restart has left behind.
Reliable == "stop" \notin FaultKinds /\ ("inspect" \notin FaultKinds \/ MaxCrashes = 0)

\* Those that must not fail for every container to be known.
Tracked == "stop" \notin FaultKinds /\ "store" \notin FaultKinds /\ MaxCrashes = 0
----------------------------------------------------------------------------
(* What happens to the containers.                                         *)

\* The goroutine stops the container of the task at hand...
Stops(t) == Turn(t) /\ StopContainer(snap[t].cid) /\ (CleanStop(t) \/ KillTask(t))

\* ... or starts one for it.
Launches(t, c) ==
    /\ At("dispatch", "run") /\ Turn(t) /\ IsNextContainer(c)
    /\ ctr' = [ctr EXCEPT ![c] = [task |-> t, state |-> "live"]]
    /\ step' = "start" /\ hand'.cid = c /\ UNCHANGED <<db, todo>>

LEMMA ContainersMove ==
    ASSUME TypeOK, [Next]_vars
    PROVE  \/ UNCHANGED ctr
           \/ Orchestrate /\ \E t \in Task : Stops(t) \/ \E c \in Cid : Launches(t, c)
           \/ AgentStops
<1>1. ASSUME NEW t \in Task, CleanStop(t) \/ KillTask(t) PROVE Stops(t)
  BY <1>1 DEF CleanStop, KillTask, Stops
<1>2. ASSUME NEW t \in Task, RunAgent(t) PROVE UNCHANGED ctr \/ \E c \in Cid : Launches(t, c)
  <2>1. CASE RunFails
    BY <2>1 DEF RunFails
  <2>2. ASSUME NEW c \in Cid, RunContainer(t, c), hand' = [hand EXCEPT !.cid = c], Goto("start")
        PROVE  Launches(t, c)
    <3>1. hand'.cid = c
      BY <2>2 DEF TypeOK, OrchestratorTypeOK
    <3> QED  BY <1>2, <2>2, <3>1 DEF RunAgent, RunContainer, Goto, Launches
  <2> QED  BY <1>2, <2>1, <2>2 DEF RunAgent
<1>3. ASSUME NEW t \in Task,
             \/ CleanUnassigned(t) \/ CleanClear(t) \/ OpenGate(t) \/ RequeueUnassigned(t)
             \/ Probe(t) \/ Requeue(t) \/ Promote(t) \/ WatchTimedOut(t) \/ Watch(t)
             \/ CompleteChain(t) \/ Complete(t) \/ Assign(t) \/ Start(t) \/ FailDispatch(t)
             \/ BootMark(t) \/ BootClear(t)
      PROVE  UNCHANGED ctr
  BY <1>3 DEF CleanUnassigned, CleanClear, OpenGate, RequeueUnassigned, Probe, Requeue, Promote,
              WatchTimedOut, Watch, CompleteChain, Complete, Assign, Start, FailDispatch, BootMark,
              BootClear
<1>4. CASE \/ BootListRunning \/ BootListProvisioning \/ BootListRecovering
           \/ CancelledList \/ RecoveringList \/ RunningList \/ DispatchList
  BY <1>4 DEF BootListRunning, BootListProvisioning, BootListRecovering, CancelledList,
              RecoveringList, RunningList, DispatchList, List
<1>5. CASE Orchestrate
  BY <1>1, <1>2, <1>3, <1>4, <1>5 DEF Orchestrate, OrchestratorNext
<1>6. CASE Serve \/ Outside \/ Crash \/ UNCHANGED vars
  BY <1>6 DEF Serve, Outside, TimePasses, Crash, vars
<1> QED  BY <1>5, <1>6 DEF Next

\* A container keeps its task; one that has stopped runs no more, and its report stays
\* until it is removed.
LEMMA ContainersKept ==
    ASSUME TypeOK, [Next]_vars, NEW c \in Cid
    PROVE  /\ ctr[c].state # "unused" =>
                /\ ctr'[c].task = ctr[c].task /\ ctr'[c].state # "unused"
                /\ Live(c)' => Live(c)
           /\ ctr[c].state = "unused" /\ Live(c)' => \E t \in Task : Orchestrate /\ Launches(t, c)
           /\ ~Orchestrate /\ ctr[c].state # "live" => ctr'[c] = ctr[c]
<1>1. ctr \in [Cid -> Container]
  BY DEF TypeOK, ContainersTypeOK
<1>2. ASSUME NEW t \in Task, Stops(t)
      PROVE  UNCHANGED ctr \/ \E d \in Cid, s \in {"removed", "failed"} :
                                /\ ctr' = [ctr EXCEPT ![d].state = s]
                                /\ s = "failed" => Live(d)
  BY <1>2 DEF Stops, StopContainer, Present
<1>3. ASSUME AgentStops
      PROVE  \E d \in Cid, s \in Report : ctr' = [ctr EXCEPT ![d].state = s] /\ Live(d)
  BY <1>3 DEF AgentStops, AgentExits
<1>4. ASSUME NEW t \in Task, NEW d \in Cid, Launches(t, d)
      PROVE  /\ ctr[d].state = "unused" /\ ctr'[d].task = t
             /\ \A e \in Cid \ {d} : ctr'[e] = ctr[e]
  BY <1>1, <1>4 DEF Launches, IsNextContainer
<1> QED
  BY <1>1, <1>2, <1>3, <1>4, ContainersMove DEF Container, Live, Report, AgentStops
----------------------------------------------------------------------------
(* Who names a container.                                                  *)

LEMMA CalmIsNext == [CalmNext]_vars => [Next]_vars
BY DEF CalmNext, Next

\* What a step does to the row of one task.
LEMMA RowMoves ==
    ASSUME TypeOK, CalmInv, [CalmNext]_vars, NEW u \in Task
    PROVE  \/ Same(u)
           \/ /\ Orchestrate /\ phase # "boot" /\ Turn(u)
              /\ WritesRow(u) \/ Completes(u)
           \/ Orchestrate /\ Marks(u)
           \/ Orchestrate /\ \E t \in Task : Reviews(t, u)
           \/ ~Orchestrate /\ (Submits(u) \/ Retries(u) \/ Withdraws(u) \/ Cancels(u))
<1>1. CASE Orchestrate /\ Moved
  BY <1>1 DEF Moved, AllSame, OthersSame
<1>2. CASE ~Orchestrate /\ Served
  BY <1>2 DEF Served, AllSame, OthersSame
<1> QED  BY <1>1, <1>2, AnyMove

\* A row takes a container from the hand of the dispatcher only.
LEMMA NamesKept ==
    ASSUME TypeOK, CalmInv, [CalmNext]_vars, NEW u \in Task
    PROVE  \/ db'[u].cid \in {NoCid, db[u].cid}
           \/ Turn(u) /\ Starts(u) /\ db'[u].cid = hand.cid
<1> USE DEF Wrote
<1>1. CASE WritesRow(u) /\ Turn(u)
  BY <1>1
     DEF WritesRow, OpensGate, Cleans, Requeues, Promotes, Completes, Assigns, Starts, Fails,
         Tried, Same
<1>2. CASE Same(u) \/ Completes(u) \/ Marks(u)
  BY <1>2 DEF Same, Completes, Marks
<1>3. CASE Submits(u) \/ Retries(u) \/ Withdraws(u) \/ Cancels(u) \/ \E t \in Task : Reviews(t, u)
  BY <1>3 DEF Submits, Retries, Withdraws, Cancels, Reviews
<1> QED  BY <1>1, <1>2, <1>3, RowMoves

\* How the goroutine comes to a step.
LEMMA StartAfterRun ==
    ASSUME TypeOK, CalmInv, Orchestrate, step' = "start"
    PROVE  \E t \in Task, c \in Cid : Launches(t, c)
<1>1. \A t \in Task : Advance(t) => step' # "start"
  BY DEF Advance
<1>2. \A S : Iterate(S) => step' # "start"
  BY DEF Iterate
<1>3. ~(BootListRunning \/ BootListProvisioning \/ BootListRecovering)
  BY DEF BootListRunning, BootListProvisioning, BootListRecovering, BootListed, BootDone
<1>4. ~(CancelledList \/ RecoveringList \/ RunningList \/ DispatchList)
  BY <1>2 DEF CancelledList, RecoveringList, RunningList, DispatchList, List
<1>5. ASSUME NEW t \in Task, BootMark(t) \/ BootClear(t) PROVE FALSE
  BY <1>5 DEF BootMark, BootClear, Goto, BootAdvance, BootDone
<1>6. ASSUME NEW t \in Task,
             \/ CleanUnassigned(t) \/ CleanStop(t) \/ CleanClear(t) \/ OpenGate(t)
             \/ RequeueUnassigned(t) \/ Probe(t) \/ Requeue(t) \/ Promote(t)
             \/ WatchTimedOut(t) \/ Watch(t) \/ KillTask(t)
             \/ CompleteChain(t) \/ Complete(t)
             \/ Assign(t) \/ Start(t) \/ FailDispatch(t)
      PROVE  FALSE
  <2>1. Advance(t) \/ \E s \in Step \ {"start"} : Goto(s)
    BY <1>6
       DEF CleanUnassigned, CleanStop, CleanClear, OpenGate, RequeueUnassigned, Probe, Requeue,
           Promote, WatchTimedOut, Watch, KillTask, CompleteChain, Complete, Assign, Start,
           FailDispatch, InspectFailed, HandleCompletion, Step
  <2> QED  BY <1>1, <2>1 DEF Goto
<1>7. PICK t \in Task : RunAgent(t)
  BY <1>3, <1>4, <1>5, <1>6 DEF Orchestrate, OrchestratorNext
<1>8. PICK c \in Cid : RunContainer(t, c) /\ hand' = [hand EXCEPT !.cid = c] /\ Goto("start")
  BY <1>7 DEF RunAgent, Goto
<1>9. hand'.cid = c
  BY <1>8 DEF TypeOK, OrchestratorTypeOK
<1> QED  BY <1>7, <1>8, <1>9 DEF RunAgent, RunContainer, Goto, Launches

\* While somebody else moves, the goroutine and the rows it has listed stand still.
LEMMA OthersMove ==
    ASSUME TypeOK, CalmInv, [CalmNext]_vars, ~Orchestrate
    PROVE  \/ UNCHANGED orchVars /\ \A u \in todo : Same(u)
           \/ Crash /\ phase' = "boot" /\ step' = "list" /\ todo' = {} /\ UNCHANGED <<db, ctr>>
BY ListedUntouched, StepIsCalm DEF Crash, Restarted

LEMMA TurnStays == UNCHANGED orchVars => \A t : Turn(t)' <=> Turn(t)
BY DEF orchVars, goroutine, Turn

\* A row names a container of its own task.
LEMMA OwnKept ==
    ASSUME TypeOK, CalmInv, OwnInv, [CalmNext]_vars
    PROVE  OwnInv'
<1>1. [Next]_vars
  BY CalmIsNext
<1>2. hand.cid \in Cid \cup {NoCid} /\ \A u \in Task : db[u].cid \in Cid \cup {NoCid}
  BY DEF TypeOK, OrchestratorTypeOK, StoreTypeOK, Row
<1>3. ASSUME NEW u \in Task, db'[u].cid # NoCid
      PROVE  ctr'[db'[u].cid].task = u /\ ctr'[db'[u].cid].state # "unused"
  <2>1. CASE db'[u].cid = db[u].cid
    BY <1>1, <1>2, <1>3, <2>1, ContainersKept DEF OwnInv
  <2>2. CASE Turn(u) /\ Starts(u) /\ db'[u].cid = hand.cid
    <3>1. u \in todo /\ step = "start" /\ hand.cid \in Cid
      BY <1>2, <1>3, <2>2, TurnIs DEF Starts, At
    <3>2. ctr[hand.cid].task = u /\ ctr[hand.cid].state # "unused"
      BY <2>2, <3>1 DEF OwnInv
    <3> QED  BY <1>1, <2>2, <3>1, <3>2, ContainersKept
  <2> QED  BY <1>3, <2>1, <2>2, NamesKept
<1>4. ASSUME step' = "start", NEW u \in todo', Turn(u)'
      PROVE  ctr'[hand'.cid].task = u /\ ctr'[hand'.cid].state # "unused"
  <2>1. ASSUME NEW t \in Task, NEW c \in Cid, Launches(t, c) PROVE t = u /\ hand'.cid = c
    <3>1. u \in Task /\ Turn(u)
      BY <1>4, <2>1 DEF Launches, Turn, TypeOK, OrchestratorTypeOK
    <3> QED  BY <2>1, <3>1, TurnIs DEF Launches
  <2>2. CASE Orchestrate
    <3>1. PICK t \in Task, c \in Cid : Launches(t, c)
      BY <1>4, <2>2, StartAfterRun
    <3>2. ctr'[c] = [task |-> t, state |-> "live"]
      BY <3>1 DEF Launches, TypeOK, ContainersTypeOK
    <3> QED  BY <2>1, <3>1, <3>2
  <2>3. CASE ~Orchestrate
    <3>1. UNCHANGED orchVars /\ u \in todo /\ step = "start" /\ Turn(u) /\ hand'.cid = hand.cid
      BY <1>4, <2>3, OthersMove, TurnStays DEF orchVars, goroutine
    <3>2. hand.cid \in Cid
      BY <1>2, <3>1 DEF CalmInv, SnapInv
    <3>3. ctr[hand.cid].task = u /\ ctr[hand.cid].state # "unused"
      BY <3>1 DEF OwnInv
    <3> QED  BY <1>1, <3>1, <3>2, <3>3, ContainersKept
  <2> QED  BY <2>2, <2>3
<1> QED  BY <1>3, <1>4 DEF OwnInv
----------------------------------------------------------------------------
(* How the goroutine learns that a container has stopped.                  *)

\* The container has exited with the report that is now in hand...
Reports(t) ==
    /\ InspectDone(db[t].cid, hand'.report) /\ hand'.report \in Report
    /\ step' = "complete_chain" => hand'.report = "code_pr"
    /\ step' \in {"complete", "complete_chain"}
    /\ UNCHANGED <<db, ctr>>

\* ... or is stopped, and what it may have reported forgotten...
Kills(t) ==
    /\ StopContainer(db[t].cid)
    /\ \/ step' = "complete" /\ hand'.report = "failed"
       \/ phase' = "cancelled" /\ step' = "clear"
    /\ UNCHANGED db

\* ... or cannot be inspected, time and again, after a restart.
Loses(t) ==
    /\ InspectError(db[t].cid) /\ db[t].status = "recovering"
    /\ step' = "requeue" /\ UNCHANGED <<db, ctr>>

\* It has been known to be stopped in the step before.
StaysStopped(t) ==
    /\ Stopped /\ db'[t].cid \in {NoCid, db[t].cid} /\ UNCHANGED ctr
    /\ step' \in {"complete", "complete_chain"} =>
         step = "complete_chain" /\ step' = "complete" /\ UNCHANGED <<db, hand>>

LEMMA StoppedAfter ==
    ASSUME TypeOK, CalmInv, Orchestrate, Stopped'
    PROVE  \E t \in Task :
             /\ Turn(t) /\ todo' = todo
             /\ Reports(t) \/ Kills(t) \/ Loses(t) \/ StaysStopped(t)
<1> USE DEF At
<1>1. OrchestratorNext /\ phase \in Phase /\ SnapInv
  BY DEF Orchestrate, TypeOK, OrchestratorTypeOK, CalmInv
<1>2. step' \in {"complete", "complete_chain", "requeue", "clear", "gate"}
  BY DEF Stopped
<1>3. /\ \A t \in Task : ~Advance(t)
      /\ \A S : ~Iterate(S)
  BY <1>2 DEF Advance, Iterate
<1>4. \A s : Goto(s) => phase' = phase /\ step' = s /\ todo' = todo
  BY DEF Goto
<1>5. /\ \A t \in Task : ~(BootMark(t) \/ BootClear(t))
      /\ ~(BootListRunning \/ BootListProvisioning \/ BootListRecovering)
  <2>1. \A t \in Task : BootMark(t) \/ BootClear(t) =>
          step' \in {"list", "item"} \/ (phase' = "boot" /\ step' = "clear")
    BY <1>4 DEF BootMark, BootClear, BootAdvance, BootDone
  <2>2. BootListRunning \/ BootListProvisioning \/ BootListRecovering =>
          step' \in {"list", "list_provisioning", "list_recovering", "item"}
    BY DEF BootListRunning, BootListProvisioning, BootListRecovering, BootListed, BootDone
  <2> QED  BY <1>2, <2>1, <2>2 DEF Stopped
<1>6. ~(CancelledList \/ RecoveringList \/ RunningList \/ DispatchList)
  BY <1>3 DEF CancelledList, RecoveringList, RunningList, DispatchList, List
<1>7. ASSUME NEW t \in Task,
             \/ CleanUnassigned(t) \/ OpenGate(t) \/ RequeueUnassigned(t) \/ Requeue(t)
             \/ Promote(t) \/ WatchTimedOut(t) \/ Assign(t) \/ RunAgent(t) \/ Start(t)
             \/ FailDispatch(t)
      PROVE  FALSE
  <2>1. Advance(t) \/ \E s \in {"kill", "run", "start", "fail"} : Goto(s)
    BY <1>7
       DEF CleanUnassigned, OpenGate, RequeueUnassigned, Requeue, Promote, WatchTimedOut, Assign,
           RunAgent, Start, FailDispatch
  <2> QED  BY <1>2, <1>3, <1>4, <2>1
<1>8. ASSUME NEW t \in Task, Turn(t), phase # "boot", step \in Before \cup {"clear"}
      PROVE  /\ db[t].cid = snap[t].cid /\ db[t].status \in Listed[phase] /\ Exists(t)
             /\ hand \in [cid : Cid \cup {NoCid}, report : Report]
  BY <1>1, <1>8, AtHand DEF TypeOK, OrchestratorTypeOK
<1>9. ASSUME NEW t \in Task, NEW report \in Report, Turn(t), phase # "boot", step = "item",
             InspectDone(snap[t].cid, report), HandleCompletion(t, report), UNCHANGED <<db, ctr>>
      PROVE  Turn(t) /\ todo' = todo /\ Reports(t)
  <2>1. db[t].cid = snap[t].cid /\ hand'.report = report
    BY <1>8, <1>9 DEF HandleCompletion, Before
  <2>2. step' = "complete" \/ (step' = "complete_chain" /\ report = "code_pr")
    BY <1>4, <1>9 DEF HandleCompletion, Plan
  <2> QED  BY <1>4, <1>9, <2>1, <2>2 DEF Reports, HandleCompletion
<1>10. ASSUME NEW t \in Task, Watch(t) PROVE Turn(t) /\ todo' = todo /\ Reports(t)
  <2>1. ~InspectFailed(t, "kill")
    BY <1>2, <1>3, <1>4 DEF InspectFailed
  <2> QED  BY <1>3, <1>9, <1>10, <2>1 DEF Watch
<1>11. ASSUME NEW t \in Task, Probe(t) PROVE Turn(t) /\ todo' = todo /\ (Reports(t) \/ Loses(t))
  <2>1. Turn(t) /\ phase = "recovering" /\ step = "item" /\ UNCHANGED <<db, ctr>>
    BY <1>11 DEF Probe
  <2>2. db[t].cid = snap[t].cid /\ db[t].status = "recovering"
    BY <1>8, <2>1 DEF Before, Listed
  <2>3. CASE InspectError(snap[t].cid) /\ InspectFailed(t, "requeue")
    <3>1. Goto("requeue")
      BY <1>3, <2>3 DEF InspectFailed
    <3> QED  BY <1>4, <2>1, <2>2, <2>3, <3>1 DEF Loses
  <2>4. ~Goto("promote")
    BY <1>2, <1>4
  <2> QED  BY <1>9, <1>11, <2>1, <2>3, <2>4 DEF Probe
<1>12. ASSUME NEW t \in Task, CleanStop(t) \/ KillTask(t)
       PROVE  Turn(t) /\ todo' = todo /\ Kills(t)
  <2>1. Turn(t) /\ phase # "boot" /\ step \in Before /\ StopContainer(snap[t].cid) /\ UNCHANGED db
    BY <1>12 DEF CleanStop, KillTask, Before
  <2>2. db[t].cid = snap[t].cid
    BY <1>8, <2>1
  <2>3. \/ Goto("clear") /\ phase = "cancelled"
        \/ Goto("complete") /\ hand' = [hand EXCEPT !.report = "failed"]
    BY <1>12 DEF CleanStop, KillTask
  <2>4. hand' = [hand EXCEPT !.report = "failed"] => hand'.report = "failed"
    BY <1>8, <2>1
  <2> QED  BY <1>4, <2>1, <2>2, <2>3, <2>4 DEF Kills
<1>13. ASSUME NEW t \in Task, CleanClear(t) PROVE Turn(t) /\ todo' = todo /\ StaysStopped(t)
  <2>1. /\ Turn(t) /\ phase = "cancelled" /\ step = "clear" /\ Goto("gate") /\ UNCHANGED ctr
        /\ ClearTaskAssignment(t) \/ UNCHANGED db
    BY <1>13 DEF CleanClear, BestEffort
  <2>2. Exists(t)
    BY <1>8, <2>1
  <2>3. db'[t].cid \in {NoCid, db[t].cid}
    BY <2>1, <2>2, Effects DEF Wrote
  <2> QED  BY <1>4, <2>1, <2>3 DEF StaysStopped, Stopped
<1>14. ASSUME NEW t \in Task, CompleteChain(t) PROVE Turn(t) /\ todo' = todo /\ StaysStopped(t)
  <2>1. /\ Turn(t) /\ step = "complete_chain" /\ UNCHANGED ctr
        /\ Goto("complete") /\ UNCHANGED <<db, hand>>
    BY <1>3, <1>14 DEF CompleteChain
  <2> QED  BY <1>4, <2>1 DEF StaysStopped, Stopped
<1>15. ASSUME NEW t \in Task, Complete(t) PROVE FALSE
  <2>1. phase \in {"recovering", "running"}
    BY <1>1, <1>15 DEF Complete, SnapInv, Steps, Phase
  <2>2. Goto("gate")
    BY <1>3, <1>15 DEF Complete
  <2> QED  BY <1>4, <2>1, <2>2 DEF Stopped
<1> QED
  BY <1>1, <1>5, <1>6, <1>7, <1>10, <1>11, <1>12, <1>13, <1>14, <1>15 DEF OrchestratorNext
----------------------------------------------------------------------------
(* Only a container's own report completes its task.                       *)

\* A task about to be completed has a container.
LEMMA CompletedHasContainer ==
    ASSUME TypeOK, CalmInv, step \in {"complete", "complete_chain"}, NEW t \in todo, Turn(t)
    PROVE  t \in Task /\ db[t].cid \in Cid
<1>1. t \in Task /\ phase \in {"recovering", "running"}
  BY DEF TypeOK, OrchestratorTypeOK, CalmInv, SnapInv, Steps, Phase
<1>2. db[t].status = phase /\ (phase = "recovering" => db[t].cid # NoCid)
  BY <1>1, AtHand DEF CalmInv, Before, HasContainer, Listed
<1>3. db[t].cid # NoCid
  BY <1>1, <1>2 DEF CalmInv, RowInv, RowOK
<1> QED  BY <1>1, <1>3 DEF TypeOK, StoreTypeOK, Row

LEMMA ReportKept ==
    ASSUME TypeOK, CalmInv, ReportInv, [CalmNext]_vars
    PROVE  ReportInv'
<1>1. SUFFICES ASSUME step' \in {"complete", "complete_chain"}, NEW u \in todo', Turn(u)'
               PROVE  /\ hand'.report # "failed" => ctr'[db'[u].cid].state = hand'.report
                      /\ step' = "complete_chain" => hand'.report = "code_pr"
  BY DEF ReportInv
<1>2. CASE Orchestrate
  <2>1. PICK t \in Task : /\ Turn(t) /\ todo' = todo
                          /\ Reports(t) \/ Kills(t) \/ Loses(t) \/ StaysStopped(t)
    BY <1>1, <1>2, StoppedAfter DEF Stopped
  <2>2. u = t /\ t \in todo
    BY <1>1, <2>1, TurnIs DEF Turn, TypeOK, OrchestratorTypeOK
  <2>3. CASE Reports(t)
    BY <1>1, <2>2, <2>3 DEF Reports, InspectDone
  <2>4. CASE Kills(t)
    BY <1>1, <2>4 DEF Kills
  <2>5. CASE StaysStopped(t)
    BY <1>1, <2>1, <2>2, <2>5 DEF StaysStopped, ReportInv
  <2> QED  BY <1>1, <2>1, <2>3, <2>4, <2>5 DEF Loses
<1>3. CASE ~Orchestrate
  <2>1. UNCHANGED orchVars /\ \A v \in todo : Same(v)
    BY <1>1, <1>3, OthersMove
  <2>2. step' = step /\ hand' = hand /\ todo' = todo /\ u \in todo /\ Turn(u)
    BY <1>1, <2>1, TurnStays DEF orchVars, goroutine
  <2>3. u \in Task /\ db[u].cid \in Cid /\ db'[u].cid = db[u].cid
    BY <1>1, <2>1, <2>2, CompletedHasContainer DEF Same, Wrote
  <2>4. ASSUME hand.report # "failed" PROVE ctr'[db[u].cid].state = hand.report
    <3>1. ctr[db[u].cid].state = hand.report
      BY <1>1, <2>2, <2>4 DEF ReportInv
    <3>2. hand.report # "live"
      BY DEF TypeOK, OrchestratorTypeOK, Report
    <3> QED  BY <1>3, <2>3, <3>1, <3>2, CalmIsNext, ContainersKept
  <2> QED  BY <1>1, <2>2, <2>3, <2>4 DEF ReportInv
<1> QED  BY <1>2, <1>3

LEMMA ContainersStart == Init => OwnInv /\ ReportInv
BY DEF Init, Booting, StoreInit, NoRow, NewRow, OwnInv, ReportInv

LEMMA ReportsAlways == Undisturbed => [](OwnInv /\ ReportInv)
<1>1. TypeOK /\ CalmInv /\ OwnInv /\ ReportInv /\ [CalmNext]_vars => OwnInv' /\ ReportInv'
  BY OwnKept, ReportKept
<1>2. Undisturbed => Init
  BY DEF Undisturbed, Spec, QuietSpec
<1> QED  BY <1>1, <1>2, ContainersStart, CalmAlways, PTL

\* A task becomes completed only if the container of its own, current attempt has
\* reported so: whatever fails and wherever the server crashes, no kill, lost
\* container, earlier attempt or other task's container can pass for a success.
THEOREM SuccessIsGenuine == Undisturbed => SuccessIsReported
<1>1. ASSUME TypeOK, CalmInv, OwnInv, ReportInv, [CalmNext]_vars, NEW t \in Task,
             db[t].status # "completed", db'[t].status = "completed"
      PROVE  db[t].cid # NoCid /\ ctr[db[t].cid] \in [task : {t}, state : {"code_pr", "plain"}]
  <2>1. Turn(t) /\ Completes(t)
    <3>1. ~Same(t) /\ ~Marks(t) /\ ~(\E u \in Task : Reviews(u, t))
      BY <1>1 DEF Same, Marks, Reviews, Wrote
    <3>2. ~(Submits(t) \/ Retries(t) \/ Withdraws(t) \/ Cancels(t))
      BY <1>1 DEF Submits, Retries, Withdraws, Cancels, Wrote
    <3>3. Turn(t) /\ (WritesRow(t) \/ Completes(t))
      BY <1>1, <3>1, <3>2, RowMoves
    <3> QED
      BY <1>1, <3>1, <3>3
         DEF WritesRow, OpensGate, Cleans, Requeues, Promotes, Assigns, Starts, Fails, Tried,
             Wrote
  <2>2. t \in todo /\ step \in {"complete", "complete_chain"} /\ db[t].cid \in Cid
    BY <1>1, <2>1, TurnIs, CompletedHasContainer DEF Completes
  <2>3. hand.report # "failed"
    <3>1. step = "complete" => FinalStatus(hand.report) = "completed"
      BY <1>1, <2>1 DEF Completes, Wrote
    <3>2. step = "complete_chain" => hand.report = "code_pr"
      BY <1>1, <2>1, <2>2 DEF ReportInv
    <3> QED  BY <2>2, <3>1, <3>2 DEF FinalStatus
  <2>4. ctr[db[t].cid].state = hand.report /\ ctr[db[t].cid].task = t
    BY <1>1, <2>1, <2>2, <2>3 DEF ReportInv, OwnInv, Completes
  <2>5. ctr[db[t].cid] \in Container /\ hand.report \in {"code_pr", "plain"}
    BY <1>1, <2>2, <2>3 DEF TypeOK, ContainersTypeOK, OrchestratorTypeOK, Report
  <2>6. db[t].cid # NoCid
    BY <2>1 DEF Completes
  <2> QED  BY <2>4, <2>5, <2>6 DEF Container
<1>2. TypeOK /\ CalmInv /\ OwnInv /\ ReportInv /\ [CalmNext]_vars =>
        [\A t \in Task :
           db[t].status # "completed" /\ db'[t].status = "completed" =>
              db[t].cid # NoCid /\ ctr[db[t].cid] \in
                  [task : {t}, state : {"code_pr", "plain"}]]_vars
  BY <1>1
<1> QED  BY <1>2, ReportsAlways, CalmAlways, PTL DEF SuccessIsReported
----------------------------------------------------------------------------
(* The container of a task that has ended is dead.                         *)

LEMMA FirstBootKept ==
    ASSUME TypeOK, CalmInv, FirstBootInv, [CalmNext]_vars
    PROVE  FirstBootInv'
<1>1. MaxCrashes = 0 => ~Crash
  BY DEF Crash, TypeOK
<1> QED  BY <1>1, NothingToRecover DEF FirstBootInv

Ended(t) == db[t].status \in {"completed", "failed"} \/ db[t].ready

\* A task ends in the hand of the goroutine, after its container, or has none.
LEMMA EndsStopped ==
    ASSUME TypeOK, CalmInv, [CalmNext]_vars, NEW u \in Task, Ended(u)'
    PROVE  /\ db'[u].cid \in {NoCid, db[u].cid}
           /\ Ended(u) \/ (Turn(u) /\ Stopped) \/ db'[u].cid = NoCid
<1> USE DEF Ended, Wrote, At, Stopped
<1>1. RowOK(db[u])
  BY DEF CalmInv, RowInv
<1>2. CASE Same(u) \/ Marks(u)
  BY <1>2 DEF Same, Marks
<1>3. CASE Submits(u) \/ Retries(u) \/ Withdraws(u) \/ Cancels(u) \/ \E t \in Task : Reviews(t, u)
  BY <1>3 DEF Submits, Retries, Withdraws, Cancels, Reviews
<1>4. CASE Completes(u) /\ Turn(u)
  BY <1>4 DEF Completes
<1>5. CASE Cleans(u) \/ Requeues(u) \/ Promotes(u)
  BY <1>5 DEF Cleans, Requeues, Promotes, Tried, Same
<1>6. CASE Assigns(u) \/ Starts(u) \/ Fails(u)
  BY <1>1, <1>6 DEF Assigns, Starts, Fails, RowOK
<1>7. CASE OpensGate(u) /\ Turn(u)
  <2>1. CASE step = "gate" /\ phase = "cancelled"
    BY <1>7, <2>1 DEF OpensGate
  <2>2. CASE phase # "cancelled"
    BY <1>7, <2>2 DEF OpensGate
  <2>3. CASE step = "item" /\ db[u].cid = NoCid
    BY <1>7, <2>3 DEF OpensGate
  <2> QED  BY <1>7, <2>1, <2>2, <2>3 DEF OpensGate
<1> QED  BY <1>2, <1>3, <1>4, <1>5, <1>6, <1>7, RowMoves DEF WritesRow

LEMMA IdlesKept ==
    ASSUME TypeOK, OwnInv, [CalmNext]_vars, NEW u \in Task, Idles(u),
           db'[u].cid \in {NoCid, db[u].cid}
    PROVE  Idles(u)'
<1>1. SUFFICES ASSUME db'[u].cid # NoCid PROVE ctr'[db'[u].cid].state # "live"
  BY DEF Idles, Live
<1>2. db'[u].cid = db[u].cid /\ db[u].cid \in Cid
  BY <1>1 DEF TypeOK, StoreTypeOK, Row
<1>3. ctr[db[u].cid].state # "unused" /\ ~Live(db[u].cid)
  BY <1>1, <1>2 DEF OwnInv, Idles
<1> QED  BY <1>2, <1>3, CalmIsNext, ContainersKept DEF Live

LEMMA StopsForGood ==
    ASSUME Reliable, TypeOK, CalmInv, FirstBootInv, NEW t \in Task,
           Reports(t) \/ Kills(t) \/ Loses(t)
    PROVE  Idles(t)'
<1>1. db[t].cid \in Cid \cup {NoCid} /\ ctr \in [Cid -> Container] /\ UNCHANGED db
  BY DEF TypeOK, StoreTypeOK, Row, ContainersTypeOK, Reports, Kills, Loses
<1>2. CASE Reports(t)
  BY <1>1, <1>2 DEF Reports, InspectDone, Idles, Live, Report
<1>3. CASE Kills(t)
  <2>1. ctr' = IF db[t].cid \in Cid THEN [ctr EXCEPT ![db[t].cid].state = "removed"] ELSE ctr
    BY <1>3 DEF Kills, StopContainer, Reliable, Breaks
  <2> QED  BY <1>1, <2>1 DEF Idles, Live
<1>4. CASE Loses(t)
  <2>1. t \in Rows("recovering") /\ UNCHANGED ctr
    BY <1>4 DEF Loses, Rows
  <2>2. "inspect" \notin FaultKinds
    BY <2>1 DEF Reliable, FirstBootInv
  <2>3. db[t].cid \notin Present
    BY <1>4, <2>2 DEF Loses, InspectError, Breaks
  <2> QED  BY <1>1, <2>1, <2>3 DEF Present, Idles, Live
<1> QED  BY <1>2, <1>3, <1>4

LEMMA DeadKept ==
    ASSUME Reliable, TypeOK, CalmInv, OwnInv, FirstBootInv, DeadInv, [CalmNext]_vars
    PROVE  DeadInv'
<1>1. ASSUME NEW u \in Task, Ended(u)' PROVE Idles(u)'
  <2>1. /\ db'[u].cid \in {NoCid, db[u].cid}
        /\ Ended(u) \/ (Turn(u) /\ Stopped) \/ db'[u].cid = NoCid
    BY <1>1, EndsStopped
  <2>2. CASE Ended(u) \/ (Turn(u) /\ Stopped)
    <3>1. Idles(u)
      BY <2>2, TurnIs DEF DeadInv, Ended
    <3> QED  BY <2>1, <3>1, IdlesKept
  <2>3. CASE db'[u].cid = NoCid
    BY <2>3 DEF Idles
  <2> QED  BY <2>1, <2>2, <2>3
<1>2. ASSUME Stopped', NEW u \in todo', Turn(u)' PROVE Idles(u)'
  <2>1. CASE Orchestrate
    <3>1. PICK t \in Task : /\ Turn(t) /\ todo' = todo
                            /\ Reports(t) \/ Kills(t) \/ Loses(t) \/ StaysStopped(t)
      BY <1>2, <2>1, StoppedAfter
    <3>2. u = t /\ t \in todo
      BY <1>2, <3>1, TurnIs DEF Turn, TypeOK, OrchestratorTypeOK
    <3>3. CASE StaysStopped(t)
      <4>1. Idles(t)
        BY <3>1, <3>2, <3>3 DEF StaysStopped, DeadInv
      <4> QED  BY <3>2, <3>3, <4>1, IdlesKept DEF StaysStopped
    <3> QED  BY <3>1, <3>2, <3>3, StopsForGood
  <2>2. CASE ~Orchestrate
    <3>1. UNCHANGED orchVars /\ \A v \in todo : Same(v)
      BY <1>2, <2>2, OthersMove
    <3>2. Stopped /\ u \in todo /\ Turn(u)
      BY <1>2, <3>1, TurnStays DEF orchVars, goroutine, Stopped, At
    <3>3. u \in Task /\ Idles(u) /\ db'[u].cid = db[u].cid
      BY <3>1, <3>2 DEF DeadInv, Same, Wrote, TypeOK, OrchestratorTypeOK
    <3> QED  BY <3>3, IdlesKept
  <2> QED  BY <2>1, <2>2
<1> QED  BY <1>1, <1>2 DEF DeadInv, Ended

\* No row drops the name of a running container.
LEMMA NamesLive ==
    ASSUME TypeOK, CalmInv, DeadInv, [CalmNext]_vars, NEW u \in Task,
           db[u].cid # NoCid, Live(db[u].cid)
    PROVE  db'[u].cid = db[u].cid
<1> USE DEF Wrote, At
<1>1. RowOK(db[u]) /\ ~Idles(u)
  BY DEF CalmInv, RowInv, Idles
<1>2. ~(Turn(u) /\ Stopped) /\ ~db[u].ready
  BY <1>1, TurnIs DEF DeadInv
<1>3. db[u].status \notin NotARow \cup {"pending", "provisioning"}
  BY <1>1 DEF RowOK
<1>4. CASE WritesRow(u) /\ Turn(u)
  BY <1>2, <1>3, <1>4
     DEF WritesRow, OpensGate, Cleans, Requeues, Promotes, Completes, Assigns, Starts, Fails,
         Tried, Same, Stopped
<1>5. CASE Same(u) \/ Marks(u) \/ Completes(u)
  BY <1>5 DEF Same, Marks, Completes
<1>6. ~(Submits(u) \/ Retries(u) \/ Withdraws(u) \/ \E t \in Task : Reviews(t, u))
  BY <1>2, <1>3 DEF Submits, Retries, Withdraws, Reviews, NotARow
<1>7. CASE Cancels(u)
  BY <1>7 DEF Cancels
<1> QED  BY <1>4, <1>5, <1>6, <1>7, RowMoves

LEMMA DeadStart == Init => FirstBootInv /\ DeadInv
BY DEF Init, Booting, StoreInit, NoRow, NewRow, FirstBootInv, NothingFound, DeadInv, Rows, Stopped,
       At, Idles

LEMMA DeadAlways ==
    ASSUME Reliable
    PROVE  Undisturbed => [](FirstBootInv /\ DeadInv)
<1>1. TypeOK /\ CalmInv /\ OwnInv /\ FirstBootInv /\ DeadInv /\ [CalmNext]_vars =>
        FirstBootInv' /\ DeadInv'
  BY FirstBootKept, DeadKept
<1>2. Undisturbed => Init
  BY DEF Undisturbed, Spec, QuietSpec
<1> QED  BY <1>1, <1>2, DeadStart, ReportsAlways, CalmAlways, PTL

\* No attempt is abandoned while its agent is at work: if docker stop works, and docker
\* inspect does or there is no restart, a completion, clean-up, requeue, retry or
\* restart takes a container from its task only when it runs no more.
THEOREM NothingRunningIsDropped ==
    ASSUME Reliable
    PROVE  Undisturbed => LetsGoOfNoLiveContainer
<1>1. TypeOK /\ CalmInv /\ DeadInv /\ [CalmNext]_vars =>
        [\A t \in Task :
           db[t].cid # NoCid /\ Live(db[t].cid) => db'[t].cid = db[t].cid]_vars
  BY NamesLive
<1> QED  BY <1>1, DeadAlways, CalmAlways, PTL DEF LetsGoOfNoLiveContainer
----------------------------------------------------------------------------
(* Every running container is known.                                       *)

\* StartTask writes down the container that was just started.
LEMMA StartWrites ==
    ASSUME Tracked, TypeOK, CalmInv, OwnInv, Orchestrate, step = "start", NEW t \in Task, Turn(t)
    PROVE  db'[t].cid = hand.cid
<1>1. phase = "dispatch" /\ OrchestratorNext
  BY DEF CalmInv, SnapInv, Steps, TypeOK, OrchestratorTypeOK, Phase, Orchestrate
<1>2. PICK u \in Task : Start(u)
  BY <1>1
     DEF OrchestratorNext, BootListRunning, BootListProvisioning, BootListRecovering, BootMark,
         BootClear, CancelledList, RecoveringList, RunningList, DispatchList, List, CleanUnassigned,
         CleanStop, CleanClear, OpenGate, RequeueUnassigned, Probe, Requeue, Promote, WatchTimedOut,
         Watch, KillTask, CompleteChain, Complete, Assign, RunAgent, FailDispatch, At
<1>3. u = t /\ StartTask(t, hand.cid)
  BY <1>2, TurnIs DEF Start, Breaks, Tracked
<1>4. Exists(t)
  BY <1>1, AfterWrite DEF CalmInv
<1>5. StartTask(t, hand.cid) => Wrote(t, "running", hand.cid, db[t].ready, db[t].userRetries)
  BY <1>4, Effects
<1> QED  BY <1>3, <1>5 DEF Wrote

LEMMA LiveKept ==
    ASSUME Tracked, TypeOK, CalmInv, OwnInv, DeadInv, LiveInv, [CalmNext]_vars
    PROVE  LiveInv'
<1>1. SUFFICES ASSUME NEW c \in Cid, Live(c)'
               PROVE  \E u \in Task :
                        /\ ctr'[c].task = u
                        /\ \/ db'[u].cid = c
                           \/ step' = "start" /\ hand'.cid = c /\ Turn(u)'
  BY DEF LiveInv, Turn
<1>2. ASSUME NEW t \in Task, Launches(t, c)
      PROVE  ctr'[c].task = t /\ step' = "start" /\ hand'.cid = c /\ Turn(t)'
  BY <1>2 DEF Launches, Turn, TypeOK, ContainersTypeOK
<1>3. CASE ctr[c].state = "unused"
  BY <1>1, <1>2, <1>3, CalmIsNext, ContainersKept
<1>4. CASE ctr[c].state # "unused"
  <2>1. Live(c) /\ ctr'[c].task = ctr[c].task
    BY <1>1, <1>4, CalmIsNext, ContainersKept
  <2>2. PICK u \in Task : ctr[c].task = u
    BY <2>1 DEF LiveInv
  <2>3. c # NoCid
    BY DEF Cid, NoCid
  <2>4. CASE db[u].cid = c
    BY <2>1, <2>2, <2>3, <2>4, NamesLive
  <2>5. CASE step = "start" /\ hand.cid = c /\ Turn(u)
    <3>1. CASE Orchestrate
      BY <2>1, <2>2, <2>5, <3>1, StartWrites
    <3>2. CASE ~Orchestrate
      <4>1. ~Crash
        BY DEF Crash, TypeOK, Tracked
      <4>2. UNCHANGED orchVars
        BY <3>2, <4>1, OthersMove
      <4> QED  BY <2>1, <2>2, <2>5, <4>2, TurnStays DEF orchVars, goroutine
    <3> QED  BY <3>1, <3>2
  <2> QED  BY <2>1, <2>2, <2>4, <2>5 DEF LiveInv
<1> QED  BY <1>3, <1>4

LEMMA LiveStart == Init => LiveInv
BY DEF Init, ContainersInit, Live, LiveInv

LEMMA TrackedIsReliable == Tracked => Reliable
BY DEF Tracked, Reliable

LEMMA LiveAlways ==
    ASSUME Tracked
    PROVE  Undisturbed => [](OwnInv /\ DeadInv /\ LiveInv)
<1>1. TypeOK /\ CalmInv /\ OwnInv /\ DeadInv /\ LiveInv /\ [CalmNext]_vars => LiveInv'
  BY LiveKept
<1>2. Undisturbed => Init
  BY DEF Undisturbed, Spec, QuietSpec
<1>3. Undisturbed => [](FirstBootInv /\ DeadInv)
  BY TrackedIsReliable, DeadAlways
<1> QED  BY <1>1, <1>2, <1>3, LiveStart, ReportsAlways, CalmAlways, PTL

\* The task of a running container holds a slot, or is just being dispatched.
LEMMA LiveHoldsSlot ==
    ASSUME TypeOK, CalmInv, DeadInv, LiveInv, NEW c \in Cid, Live(c)
    PROVE  /\ ctr[c].task \in Task
           /\ \/ HoldsSlot(ctr[c].task) /\ db[ctr[c].task].cid = c
              \/ step = "start" /\ hand.cid = c /\ Turn(ctr[c].task)
<1>1. PICK u \in Task : ctr[c].task = u
  BY DEF LiveInv
<1>2. CASE db[u].cid = c
  <2>1. c # NoCid /\ ~Idles(u)
    BY <1>2 DEF Cid, NoCid, Idles
  <2>2. db[u].status \in {"running", "recovering", "cancelled"}
    <3>1. db[u].status \in Status \cup NotARow /\ RowOK(db[u])
      BY DEF TypeOK, StoreTypeOK, Row, CalmInv, RowInv
    <3>2. db[u].status \notin {"completed", "failed"}
      BY <2>1 DEF DeadInv
    <3> QED  BY <1>2, <2>1, <3>1, <3>2 DEF RowOK, Status, Active, Terminal, NotARow
  <2> QED  BY <1>1, <1>2, <2>1, <2>2 DEF HoldsSlot
<1> QED  BY <1>1, <1>2 DEF LiveInv

\* No container runs on unknown: at every step its task names it and holds a slot for
\* it, but for the moment between docker run and StartTask.
THEOREM NothingOrphaned ==
    ASSUME Tracked
    PROVE  Undisturbed => []NoOrphanContainer
<1>1. TypeOK /\ CalmInv /\ DeadInv /\ LiveInv => NoOrphanContainer
  BY LiveHoldsSlot DEF NoOrphanContainer
<1> QED  BY <1>1, LiveAlways, CalmAlways, PTL

\* A retry that the guarded UPDATE lets through finds no container of an earlier
\* attempt running: the gate, opened in one place and shut in another, tells the truth.
THEOREM RetriesAreClean ==
    ASSUME Tracked
    PROVE  Undisturbed => RetryAfterCleanup
<1>1. ASSUME TypeOK, CalmInv, OwnInv, DeadInv, LiveInv, [CalmNext]_vars, NEW t \in Task,
             db'[t].userRetries > db[t].userRetries, NEW c \in Cid, ctr[c].task = t, Live(c)
      PROVE  FALSE
  <2>1. db[t].userRetries \in Nat /\ RowOK(db[t])
    BY <1>1 DEF TypeOK, StoreTypeOK, Row, CalmInv, RowInv
  <2>2. db'[t].userRetries # db[t].userRetries /\ db'[t].userRetries # 0
    BY <1>1, <2>1
  <2>3. ~Same(t) /\ ~Marks(t) /\ ~Completes(t) /\ ~(\E u \in Task : Reviews(u, t)) /\ ~WritesRow(t)
    BY <2>2
       DEF Same, Marks, Completes, Reviews, WritesRow, OpensGate, Cleans, Requeues, Promotes,
           Assigns, Starts, Fails, Tried, Wrote
  <2>4. ~Submits(t) /\ ~Withdraws(t) /\ ~Cancels(t)
    BY <2>2 DEF Submits, Withdraws, Cancels, Wrote
  <2>5. db[t].ready /\ db[t].status \in {"failed", "cancelled"}
    BY <1>1, <2>3, <2>4, RowMoves DEF Retries
  <2>6. CASE HoldsSlot(t) /\ db[t].cid = c
    BY <1>1, <2>5, <2>6 DEF DeadInv, Idles, Cid, NoCid
  <2>7. CASE step = "start" /\ Turn(t)
    <3>1. phase # "boot"
      BY <1>1, <2>7 DEF CalmInv, SnapInv, Steps
    <3> QED  BY <1>1, <2>5, <2>7, <3>1, AfterWrite DEF CalmInv, HandOK
  <2> QED  BY <1>1, <2>6, <2>7, LiveHoldsSlot
<1>2. TypeOK /\ CalmInv /\ OwnInv /\ DeadInv /\ LiveInv /\ [CalmNext]_vars =>
        [\A t \in Task :
           db'[t].userRetries > db[t].userRetries =>
              \A c \in Cid : ctr[c].task = t => ~Live(c)]_vars
  BY <1>1
<1> QED  BY <1>2, LiveAlways, CalmAlways, PTL DEF RetryAfterCleanup
----------------------------------------------------------------------------
(* There are no more containers than there is capacity.                    *)

\* What the counter never exceeds.
FullInv == phase # "boot" => running <= MaxConcurrent

LEMMA NoSlotAtBoot ==
    ASSUME Tracked, TypeOK, CalmInv, SlotInv, FirstBootInv, phase = "boot"
    PROVE  SlotHolders = {} /\ \A t \in Task : ~BootTurn(t)
<1>1. /\ Rows("running") = {} /\ Rows("recovering") = {} /\ Rows("cancelled") = {}
      /\ todo = {}
  BY DEF Tracked, FirstBootInv, NothingFound, SlotInv, QuietInv
<1> QED  BY <1>1, TurnIs DEF SlotHolders, HoldsSlot, Rows

LEMMA FullKept ==
    ASSUME Tracked, TypeOK, CalmInv, SlotInv, RoomInv, FirstBootInv, FullInv, [CalmNext]_vars,
           SlotsExact'
    PROVE  FullInv'
<1>1. running \in Nat /\ MaxConcurrent \in Nat /\ todo \in SUBSET Task
  BY CapacityAssumption DEF TypeOK, OrchestratorTypeOK
<1>2. CASE ~Orchestrate
  BY <1>2, OthersMove DEF FullInv, orchVars, goroutine
<1>3. CASE Orchestrate /\ phase = "boot"
  <2>1. AllSame
    BY <1>3, AnyMove, NoSlotAtBoot DEF Moved
  <2>2. SlotHolders' = {}
    BY <1>3, <2>1, NoSlotAtBoot, SlotByRow DEF Keeps
  <2>3. Cardinality(SlotHolders') = 0
    BY <2>2, FS_EmptySet
  <2> QED  BY <1>1, <2>3 DEF SlotsExact, FullInv
<1>4. CASE Orchestrate /\ phase # "boot"
  <2>1. running <= MaxConcurrent /\ Moved
    BY <1>4, AnyMove DEF FullInv
  <2>2. CASE UNCHANGED running \/ Release
    BY <1>1, <2>1, <2>2 DEF FullInv, Release, Released
  <2>3. ASSUME NEW t \in Task, Turn(t), Starts(t) PROVE FullInv'
    <3>1. t \in todo /\ phase = "dispatch" /\ step # "list" /\ running' = running + 1
      BY <2>3, TurnIs DEF Starts, At, Acquire
    <3>2. Cardinality(todo) > 0 /\ Cardinality(todo) \in Nat
      BY <1>1, <3>1, SlotHoldersFinite
    <3>3. running + Cardinality(todo) <= MaxConcurrent
      BY <3>1 DEF RoomInv
    <3> QED  BY <1>1, <3>1, <3>2, <3>3 DEF FullInv
  <2>4. \A t \in Task :
          /\ WritesRow(t) => UNCHANGED running \/ Release \/ Starts(t)
          /\ Completes(t) => Release
          /\ ~Marks(t)
    BY <1>4
       DEF WritesRow, OpensGate, Cleans, Requeues, Promotes, Completes, Assigns, Fails, Marks, At
  <2> QED  BY <1>4, <2>1, <2>2, <2>3, <2>4 DEF Moved
<1> QED  BY <1>2, <1>3, <1>4

\* A task has one running container.
LEMMA OneEach ==
    ASSUME TypeOK, CalmInv, DeadInv, LiveInv, NEW c \in Cid, NEW d \in Cid, Live(c), Live(d),
           ctr[c].task = ctr[d].task
    PROVE  c = d
<1>1. PICK u \in Task : u = ctr[c].task
  BY LiveHoldsSlot
<1>2. ASSUME step = "start", Turn(u) PROVE ~HoldsSlot(u)
  <2>1. phase # "boot"
    BY <1>2 DEF CalmInv, SnapInv, Steps
  <2>2. db[u].status = "provisioning"
    BY <1>2, <2>1, AfterWrite DEF CalmInv, HandOK
  <2> QED  BY <2>2 DEF HoldsSlot
<1> QED  BY <1>1, <1>2, LiveHoldsSlot

LEMMA InjectedInto ==
    ASSUME TypeOK, CalmInv, DeadInv, LiveInv, NEW S \in SUBSET Task,
           \A c \in Cid : Live(c) => ctr[c].task \in S
    PROVE  Cardinality({c \in Cid : Live(c)}) <= Cardinality(S)
<1> DEFINE Lives == {c \in Cid : Live(c)}
           owner == [c \in Lives |-> ctr[c].task]
<1>1. owner \in [Lives -> S]
  OBVIOUS
<1>2. \A c, d \in Lives : owner[c] = owner[d] => c = d
  BY OneEach
<1>3. owner \in Injection(Lives, S)
  BY <1>1, <1>2 DEF Injection, IsInjective
<1>4. IsFiniteSet(S)
  BY TaskSets
<1> HIDE DEF owner, Lives
<1>5. Cardinality(Lives) <= Cardinality(S)
  BY <1>3, <1>4, FS_Injection
<1> QED  BY <1>5 DEF Lives

LEMMA WithinCapacity ==
    ASSUME Tracked, TypeOK, CalmInv, SlotInv, RoomInv, FirstBootInv, FullInv, DeadInv, LiveInv
    PROVE  CapacityRespected
<1> DEFINE N == Cardinality({c \in Cid : Live(c)})
<1>1. /\ SlotHolders \in SUBSET Task /\ todo \in SUBSET Task
      /\ running \in Nat /\ MaxConcurrent \in Nat /\ phase \in Phase
  BY CapacityAssumption DEF TypeOK, OrchestratorTypeOK, SlotHolders
<1>2. {c \in Cid : Live(c)} \in SUBSET Cid /\ IsFiniteSet(Cid)
  BY FS_Interval, StoreAssumption DEF Cid
<1>3. N \in Nat
  BY <1>2, FS_Subset, FS_CardinalityType
<1>4. CASE phase = "boot"
  <2>1. \A c \in Cid : ~Live(c)
    BY <1>4, NoSlotAtBoot, LiveHoldsSlot DEF SlotHolders, CalmInv, SnapInv, Steps
  <2>2. {c \in Cid : Live(c)} = {}
    BY <2>1
  <2>3. N = 0
    BY <2>2, FS_EmptySet
  <2> QED  BY <1>1, <2>3 DEF CapacityRespected
<1>5. CASE phase # "boot" /\ ~(step = "start" /\ \E u \in Task : Turn(u))
  <2>1. \A c \in Cid : Live(c) => ctr[c].task \in SlotHolders
    BY <1>5, LiveHoldsSlot DEF SlotHolders
  <2>2. N <= Cardinality(SlotHolders)
    BY <1>1, <2>1, InjectedInto
  <2>3. running = Cardinality(SlotHolders) /\ running <= MaxConcurrent
    BY <1>5 DEF SlotInv, SlotsExact, FullInv
  <2> QED  BY <1>1, <1>3, <2>2, <2>3 DEF CapacityRespected
<1>6. ASSUME step = "start", NEW u \in Task, Turn(u) PROVE CapacityRespected
  <2>1. phase = "dispatch" /\ u \in todo
    BY <1>1, <1>6, TurnIs DEF CalmInv, SnapInv, Steps, Phase
  <2>2. \A c \in Cid : Live(c) => ctr[c].task \in SlotHolders \cup {u}
    BY <1>6, LiveHoldsSlot, TurnIs DEF SlotHolders
  <2>3. SlotHolders \cup {u} \in SUBSET Task
    BY <1>1
  <2>4. N <= Cardinality(SlotHolders \cup {u})
    BY <2>2, <2>3, InjectedInto
  <2>5. Cardinality(SlotHolders \cup {u}) <= Cardinality(SlotHolders) + 1
    <3>1. Cardinality(SlotHolders) \in Nat
      BY <1>1, TaskSets
    <3>2. CASE u \in SlotHolders
      <4>1. SlotHolders \cup {u} = SlotHolders
        BY <3>2
      <4>2. Cardinality(SlotHolders \cup {u}) = Cardinality(SlotHolders)
        BY <4>1
      <4> QED  BY <3>1, <4>2
    <3>3. CASE u \notin SlotHolders
      <4>1. Cardinality(SlotHolders \cup {u}) = Cardinality(SlotHolders) + 1
        BY <1>1, <3>3, SlotHoldersFinite
      <4> QED  BY <3>1, <4>1
    <3> QED  BY <3>2, <3>3
  <2>6. running = Cardinality(SlotHolders) /\ running + Cardinality(todo) <= MaxConcurrent
    BY <1>6, <2>1 DEF SlotInv, SlotsExact, RoomInv
  <2>7. Cardinality(todo) \in Nat /\ Cardinality(todo) > 0
    BY <1>1, <2>1, SlotHoldersFinite
  <2>8. Cardinality(SlotHolders \cup {u}) \in Nat
    BY <2>3, TaskSets
  <2> QED  BY <1>1, <1>3, <2>4, <2>5, <2>6, <2>7, <2>8 DEF CapacityRespected
<1> QED  BY <1>4, <1>5, <1>6

\* No more containers run than BACKFLOW_MAX_CONTAINERS allows: the slots counted, the
\* limit of the dispatch query and the rows that name the containers together see to it.
THEOREM CapacityKept ==
    ASSUME Tracked
    PROVE  Undisturbed => []CapacityRespected
<1>1. TypeOK /\ CalmInv /\ SlotInv /\ [CalmNext]_vars => SlotInv'
  BY QuietKept, SlotsKept DEF SlotInv, Tracked, OneDisturbance
<1>2. TypeOK /\ CalmInv /\ RoomInv /\ [CalmNext]_vars => RoomInv'
  BY RoomKept DEF Tracked
<1>3. TypeOK /\ CalmInv /\ SlotInv /\ RoomInv /\ FirstBootInv /\ FullInv /\ [CalmNext]_vars
        /\ SlotInv' => FullInv'
  BY FullKept DEF SlotInv
<1>4. Init => RoomInv /\ FullInv
  BY DEF Init, Booting, RoomInv, FullInv, At
<1>5. Undisturbed => Init
  BY DEF Undisturbed, Spec, QuietSpec
<1>6. Undisturbed => [](FirstBootInv /\ DeadInv)
  BY TrackedIsReliable, DeadAlways
<1>7. TypeOK /\ CalmInv /\ SlotInv /\ RoomInv /\ FirstBootInv /\ FullInv /\ DeadInv /\ LiveInv
        => CapacityRespected
  BY WithinCapacity
<1> QED
  BY <1>1, <1>2, <1>3, <1>4, <1>5, <1>6, <1>7, SlotsStart, LiveAlways, CalmAlways, PTL
=============================================================================
