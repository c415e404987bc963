--------------------------- MODULE BackliteProofs ---------------------------
(***************************************************************************)
(* Theorems about the server, for every number of tasks, containers,       *)
(* slots, requests, retries, failures and crashes: types, the cap on       *)
(* retries, reviews, and the rows in provisioning.                         *)
(***************************************************************************)
EXTENDS Backlite, FiniteSetTheorems, TLAPS

USE StoreAssumption

----------------------------------------------------------------------------
(* Typing of the store's statements.                                       *)

\* A set of tasks is finite, so it has a cardinality.
LEMMA TaskSets ==
    ASSUME NEW S \in SUBSET Task
    PROVE  IsFiniteSet(S) /\ Cardinality(S) \in Nat
<1>1. IsFiniteSet(Task)
  BY FS_Interval DEF Task
<1>2. IsFiniteSet(S)
  BY <1>1, FS_Subset
<1> QED  BY <1>2, FS_CardinalityType

LEMMA NewRowType ==
    ASSUME NEW selfReview \in BOOLEAN, NEW parent \in Task \cup {NoTask}
    PROVE  NewRow(selfReview, parent) \in Row
BY DEF NewRow, Row, Status, Active, Terminal, NotARow, Clock

LEMMA NoRowType == NoRow \in Row /\ DeletedRow \in Row
BY DEF NoRow, DeletedRow, NewRow, Row, Status, NotARow, Clock

LEMMA UpdatedType ==
    ASSUME StoreTypeOK, NEW t \in Task, NEW row \in Row
    PROVE  Updated(t, row) \in [Task -> Row]
BY DEF StoreTypeOK, Updated

\* Every statement keeps the table well typed.
LEMMA StatementsType ==
    ASSUME StoreTypeOK, NEW t \in Task
    PROVE  /\ \A b \in BOOLEAN : CreateTask(t, b) => StoreTypeOK'
           /\ \A s \in Status : UpdateTaskStatus(t, s) => StoreTypeOK'
           /\ AssignTask(t) => StoreTypeOK'
           /\ \A c \in Cid \cup {NoCid} : StartTask(t, c) => StoreTypeOK'
           /\ \A u \in Task : CompleteTaskWithChild(t, u) => StoreTypeOK'
           /\ RequeueTask(t) => StoreTypeOK'
           /\ CancelTask(t) => StoreTypeOK'
           /\ ClearTaskAssignment(t) => StoreTypeOK'
           /\ MarkReadyForRetry(t) => StoreTypeOK'
           /\ RetryTask(t) => StoreTypeOK'
           /\ DeleteTask(t) => StoreTypeOK'
<1> USE DEF StoreTypeOK
<1>0. db[t] \in Row
  OBVIOUS
<1>1. \A b \in BOOLEAN : CreateTask(t, b) => StoreTypeOK'
  BY NewRowType DEF CreateTask
<1>2. \A s \in Status : UpdateTaskStatus(t, s) => StoreTypeOK'
  <2> SUFFICES ASSUME NEW s \in Status, UpdateTaskStatus(t, s)
               PROVE  StoreTypeOK'
    OBVIOUS
  <2>1. [db[t] EXCEPT !.status = s] \in Row
    BY <1>0 DEF Row
  <2> QED  BY <2>1, UpdatedType DEF UpdateTaskStatus
<1>3. AssignTask(t) => StoreTypeOK'
  BY <1>2 DEF AssignTask, Status, Active
<1>4. \A c \in Cid \cup {NoCid} : StartTask(t, c) => StoreTypeOK'
  <2> SUFFICES ASSUME NEW c \in Cid \cup {NoCid}, StartTask(t, c)
               PROVE  StoreTypeOK'
    OBVIOUS
  <2>1. [db[t] EXCEPT !.status = "running", !.cid = c, !.clock = "ticking"] \in Row
    BY <1>0 DEF Row, Status, Active, Clock
  <2> QED  BY <2>1, UpdatedType DEF StartTask
<1>5. \A u \in Task : CompleteTaskWithChild(t, u) => StoreTypeOK'
  <2> SUFFICES ASSUME NEW u \in Task, CompleteTaskWithChild(t, u)
               PROVE  StoreTypeOK'
    OBVIOUS
  <2>1. [db[t] EXCEPT !.status = "completed"] \in Row
    BY <1>0 DEF Row, Status, Terminal
  <2>2. NewRow(FALSE, t) \in Row
    BY NewRowType
  <2> QED  BY <2>1, <2>2, UpdatedType DEF CompleteTaskWithChild
<1>6. Requeued(db[t]) \in Row
  BY <1>0 DEF Requeued, Row, Status, Clock
<1>7. RequeueTask(t) => StoreTypeOK'
  BY <1>6, UpdatedType DEF RequeueTask
<1>8. CancelTask(t) => StoreTypeOK'
  BY <1>2 DEF CancelTask, Status, Terminal
<1>9. ClearTaskAssignment(t) => StoreTypeOK'
  <2>1. [db[t] EXCEPT !.cid = NoCid] \in Row
    BY <1>0 DEF Row
  <2> QED  BY <2>1, UpdatedType DEF ClearTaskAssignment
<1>10. MarkReadyForRetry(t) => StoreTypeOK'
  <2>1. [db[t] EXCEPT !.ready = TRUE] \in Row
    BY <1>0 DEF Row
  <2> QED  BY <2>1, UpdatedType DEF MarkReadyForRetry
<1>11. RetryTask(t) => StoreTypeOK'
  <2>1. [Requeued(db[t]) EXCEPT !.userRetries = @ + 1] \in Row
    BY <1>6 DEF Row
  <2> QED  BY <2>1 DEF RetryTask
<1>12. DeleteTask(t) => StoreTypeOK'
  <2>1. \A u \in Task : [db[u] EXCEPT !.parent = NoTask] \in Row
    BY DEF Row
  <2> QED  BY <2>1, NoRowType DEF DeleteTask
<1> QED  BY <1>1, <1>2, <1>3, <1>4, <1>5, <1>7, <1>8, <1>9, <1>10, <1>11, <1>12

----------------------------------------------------------------------------
(* What a step does to the table: at most one statement.                   *)

\* The statements that the steps execute, with what decides later whether they
\* were right: completions end the goroutine's work on the task.
Statement(t) ==
    \/ IsNext(t) /\ \E selfReview \in BOOLEAN : CreateTask(t, selfReview)
    \/ \E status \in Status \ {"completed"} : UpdateTaskStatus(t, status)
    \/ \E c \in Cid \cup {NoCid} : StartTask(t, c)
    \/ CompleteTask(t, "completed") /\ t \notin todo'
    \/ /\ t \in todo /\ Exists(t) /\ t \notin todo'
       /\ \E child \in Task : IsNext(child) /\ CompleteTaskWithChild(t, child)
    \/ RequeueTask(t)
    \/ ClearTaskAssignment(t)
    \/ MarkReadyForRetry(t)
    \/ RetryTask(t)
    \/ DeleteTask(t)
    \/ DeadlinePasses(t)

Writes == todo' \subseteq todo /\ \E t \in Task : Statement(t)
Reads == UNCHANGED db /\ \A t \in todo' : t \in todo \/ db[t].status # "completed"

LEMMA ListsRead ==
    ASSUME TypeOK, NEW p, NEW S \in SUBSET Task, \A t \in S : db[t].status # "completed",
           List(p, S)
    PROVE  Reads
BY DEF List, Iterate, Reads

LEMMA AdvanceTodo ==
    ASSUME TypeOK, NEW t \in Task, Advance(t) \/ UNCHANGED todo
    PROVE  todo' \subseteq todo
BY DEF Advance

LEMMA OrchestratorStatements ==
    ASSUME TypeOK, OrchestratorNext
    PROVE  Writes \/ Reads
<1> USE DEF Writes, Reads, Goto, Advance
<1>1. CASE BootListRunning
  BY <1>1 DEF BootListRunning, BootList, Rows
<1>2. CASE BootListProvisioning
  BY <1>2 DEF BootListProvisioning, BootList, Rows
<1>3. CASE BootListRecovering
  BY <1>3 DEF BootListRecovering
<1>4. CASE CancelledList
  BY <1>4, ListsRead DEF CancelledList, Rows
<1>5. CASE RecoveringList
  BY <1>5, ListsRead DEF RecoveringList, Rows
<1>6. CASE RunningList
  BY <1>6, ListsRead DEF RunningList, Rows
<1>7. CASE DispatchList
  BY <1>7, ListsRead DEF DispatchList, Rows, Oldest, Iterate
<1>8. ASSUME NEW t \in Task, BootMark(t) PROVE Writes \/ Reads
  BY <1>8 DEF BootMark, BootAdvance, BestEffort, Statement, Status, Active
<1>9. ASSUME NEW t \in Task, BootClear(t) PROVE Writes \/ Reads
  BY <1>9 DEF BootClear, BootAdvance, BestEffort, Statement
<1>10. ASSUME NEW t \in Task, CleanUnassigned(t) \/ OpenGate(t) PROVE Writes \/ Reads
  BY <1>10 DEF CleanUnassigned, OpenGate, BestEffort, Statement
<1>11. ASSUME NEW t \in Task, CleanStop(t) \/ KillTask(t) \/ WatchTimedOut(t) \/ RunAgent(t)
       PROVE  Reads
  BY <1>11 DEF CleanStop, KillTask, WatchTimedOut, RunAgent
<1>12. ASSUME NEW t \in Task, CleanClear(t) PROVE Writes \/ Reads
  BY <1>12 DEF CleanClear, BestEffort, Statement
<1>13. ASSUME NEW t \in Task, RequeueUnassigned(t) \/ Requeue(t) PROVE Writes \/ Reads
  BY <1>13 DEF RequeueUnassigned, Requeue, BestEffort, Statement
<1>14. ASSUME NEW t \in Task, Probe(t) \/ Watch(t) PROVE Reads
  BY <1>14 DEF Probe, Watch, InspectFailed, HandleCompletion
<1>15. ASSUME NEW t \in Task, Promote(t) PROVE Writes \/ Reads
  BY <1>15 DEF Promote, BestEffort, Statement, Status, Active
<1>16. ASSUME NEW t \in Task, CompleteChain(t) PROVE Writes \/ Reads
  BY <1>16 DEF CompleteChain, Turn, Statement
<1>17. ASSUME NEW t \in Task, Complete(t) PROVE Writes \/ Reads
  BY <1>17 DEF Complete, FinalStatus, CompleteTask, Statement, Status, Terminal
<1>18. ASSUME NEW t \in Task, Assign(t) PROVE Writes \/ Reads
  BY <1>18 DEF Assign, AssignTask, Statement, Status, Active
<1>19. ASSUME NEW t \in Task, Start(t) PROVE Writes \/ Reads
  BY <1>19 DEF Start, Statement, TypeOK, OrchestratorTypeOK
<1>20. ASSUME NEW t \in Task, FailDispatch(t) PROVE Writes \/ Reads
  BY <1>20 DEF FailDispatch, BestEffort, Statement, Status, Terminal
<1> QED
  BY <1>1, <1>2, <1>3, <1>4, <1>5, <1>6, <1>7, <1>8, <1>9, <1>10, <1>11, <1>12, <1>13,
     <1>14, <1>15, <1>16, <1>17, <1>18, <1>19, <1>20 DEF OrchestratorNext

LEMMA Statements ==
    ASSUME TypeOK, [Next]_vars
    PROVE  Writes \/ Reads
<1>1. CASE Orchestrate
  BY <1>1, OrchestratorStatements DEF Orchestrate
<1>2. CASE Serve
  <2>1. UNCHANGED todo
    BY <1>2 DEF Serve, orchVars, goroutine
  <2>2. \A c \in Client : req[c].op \in {"cancel", "delete", "retry"} => req[c].task \in Task
    BY DEF TypeOK, RequestsTypeOK, Request, Idle
  <2>3. CASE Create
    BY <2>1, <2>3 DEF Create, Writes, Statement
  <2>4. ASSUME NEW c \in Client, NEW t \in Task, DeletePreflight(c, t) \/ RetryPreflight(c, t)
        PROVE  Reads
    BY <2>1, <2>4 DEF DeletePreflight, RetryPreflight, Reads
  <2>5. ASSUME NEW c \in Client, DeleteCancels(c) PROVE Writes
    BY <2>1, <2>2, <2>5 DEF DeleteCancels, CancelTask, Writes, Statement, Status, Terminal
  <2>6. ASSUME NEW c \in Client, DeleteDeletes(c) PROVE Writes
    BY <2>1, <2>2, <2>6 DEF DeleteDeletes, Writes, Statement
  <2>7. ASSUME NEW c \in Client, RetryRequeues(c) PROVE Writes
    BY <2>1, <2>2, <2>7 DEF RetryRequeues, Writes, Statement
  <2>8. ASSUME NEW c \in Client, RequestFails(c) PROVE Reads
    BY <2>1, <2>8 DEF RequestFails, Reads
  <2> QED  BY <1>2, <2>3, <2>4, <2>5, <2>6, <2>7, <2>8 DEF Serve, HandlerNext
<1>3. CASE AgentStops
  BY <1>3 DEF AgentStops, orchVars, goroutine, Reads
<1>4. ASSUME NEW t \in Task, TimePasses(t) PROVE Writes
  BY <1>4 DEF TimePasses, orchVars, goroutine, Writes, Statement
<1>5. CASE Crash
  BY <1>5 DEF Crash, Restarted, Reads
<1>6. CASE UNCHANGED vars
  BY <1>6 DEF vars, orchVars, goroutine, Reads
<1> QED  BY <1>1, <1>2, <1>3, <1>4, <1>5, <1>6 DEF Next, Outside

----------------------------------------------------------------------------
(* Type correctness.                                                       *)

LEMMA StoreTypeKept ==
    ASSUME TypeOK, [Next]_vars
    PROVE  StoreTypeOK'
<1>1. CASE Reads
  BY <1>1 DEF TypeOK, Reads, StoreTypeOK
<1>2. ASSUME NEW t \in Task, Statement(t) PROVE StoreTypeOK'
  <2>1. StoreTypeOK
    BY DEF TypeOK
  <2>2. CASE DeadlinePasses(t)
    <3>1. [db[t] EXCEPT !.clock = "over"] \in Row
      BY <2>1 DEF StoreTypeOK, Row, Clock
    <3> QED  BY <2>1, <2>2, <3>1 DEF DeadlinePasses, StoreTypeOK
  <2>3. CASE CompleteTask(t, "completed")
    BY <2>1, <2>3, StatementsType DEF CompleteTask, Status, Terminal
  <2> QED  BY <1>2, <2>1, <2>2, <2>3, StatementsType DEF Statement
<1> QED  BY <1>1, <1>2, Statements DEF Writes

\* The orchestrator calls something that works or breaks in each of its steps.
LEMMA FaultsTypeKept ==
    ASSUME TypeOK, [Next]_vars
    PROVE  FaultsTypeOK'
<1> DEFINE Call == Works \/ \E kind \in FaultKinds : Breaks(kind)
<1>1. Call => FaultsTypeOK'
  BY FaultsAssumption DEF TypeOK, FaultsTypeOK, Works, Breaks
<1>2. ASSUME OrchestratorNext PROVE Call
  <2>1. ASSUME BootListRunning \/ BootListProvisioning \/ BootListRecovering
        PROVE  Call
    BY <2>1 DEF BootListRunning, BootListProvisioning, BootListRecovering, BootList, Breaks
  <2>2. ASSUME CancelledList \/ RecoveringList \/ RunningList \/ DispatchList
        PROVE  Call
    BY <2>2 DEF CancelledList, RecoveringList, RunningList, DispatchList, List, Breaks
  <2>3. ASSUME NEW t \in Task,
               \/ BootMark(t) \/ BootClear(t) \/ CleanUnassigned(t) \/ CleanClear(t)
               \/ OpenGate(t) \/ RequeueUnassigned(t) \/ Requeue(t) \/ Promote(t)
               \/ FailDispatch(t)
        PROVE  Call
    BY <2>3 DEF BootMark, BootClear, CleanUnassigned, CleanClear, OpenGate, RequeueUnassigned,
                Requeue, Promote, FailDispatch, BestEffort, Breaks
  <2>4. ASSUME NEW t \in Task, CleanStop(t) \/ KillTask(t) \/ RunAgent(t)
        PROVE  Call
    BY <2>4 DEF CleanStop, KillTask, RunAgent, StopContainer, RunContainer, RunFails, Breaks
  <2>5. ASSUME NEW t \in Task, Probe(t) \/ Watch(t) \/ WatchTimedOut(t)
        PROVE  Call
    BY <2>5 DEF Probe, Watch, WatchTimedOut, InspectError, InspectLive, InspectDone, Breaks
  <2>6. ASSUME NEW t \in Task, CompleteChain(t) \/ Complete(t) \/ Assign(t) \/ Start(t)
        PROVE  Call
    BY <2>6 DEF CompleteChain, Complete, Assign, Start, Breaks
  <2> QED  BY <1>2, <2>1, <2>2, <2>3, <2>4, <2>5, <2>6 DEF OrchestratorNext
<1>3. CASE UNCHANGED faults
  BY <1>3 DEF TypeOK, FaultsTypeOK
<1> QED
  BY <1>1, <1>2, <1>3 DEF Next, Orchestrate, Serve, Outside, AgentStops, TimePasses, Crash, vars

LEMMA ContainersTypeKept ==
    ASSUME TypeOK, [Next]_vars
    PROVE  ContainersTypeOK'
<1> USE DEF ContainersTypeOK
<1>1. ContainersTypeOK
  BY DEF TypeOK
<1>2. CASE UNCHANGED ctr
  BY <1>1, <1>2
<1>3. ASSUME NEW c, StopContainer(c) PROVE ContainersTypeOK'
  <2>1. ASSUME NEW s \in {"removed", "failed"}, c \in Cid, ctr' = [ctr EXCEPT ![c].state = s]
        PROVE  ContainersTypeOK'
    BY <1>1, <2>1 DEF Container, Report
  <2> QED  BY <1>1, <1>3, <2>1 DEF StopContainer, Present
<1>4. ASSUME NEW t \in Task, NEW c \in Cid, RunContainer(t, c) PROVE ContainersTypeOK'
  BY <1>1, <1>4 DEF RunContainer, Container
<1>5. ASSUME NEW c \in Cid, NEW report \in Report, AgentExits(c, report)
      PROVE  ContainersTypeOK'
  BY <1>1, <1>5 DEF AgentExits, Container
<1>6. CASE Orchestrate
  <2>1. ASSUME NEW t \in Task, CleanStop(t) \/ KillTask(t) PROVE ContainersTypeOK'
    BY <1>3, <2>1 DEF CleanStop, KillTask
  <2>2. ASSUME NEW t \in Task, RunAgent(t) PROVE ContainersTypeOK'
    BY <1>2, <1>4, <2>2 DEF RunAgent, RunFails
  <2>3. ASSUME BootListRunning \/ BootListProvisioning \/ BootListRecovering \/ CancelledList
               \/ RecoveringList \/ RunningList \/ DispatchList
        PROVE  UNCHANGED ctr
    BY <2>3 DEF BootListRunning, BootListProvisioning, BootListRecovering, CancelledList,
                RecoveringList, RunningList, DispatchList, List
  <2>4. ASSUME NEW t \in Task,
               \/ BootMark(t) \/ BootClear(t) \/ CleanUnassigned(t) \/ CleanClear(t)
               \/ OpenGate(t) \/ RequeueUnassigned(t) \/ Probe(t) \/ Requeue(t) \/ Promote(t)
               \/ WatchTimedOut(t) \/ Watch(t) \/ CompleteChain(t) \/ Complete(t)
               \/ Assign(t) \/ Start(t) \/ FailDispatch(t)
        PROVE  UNCHANGED ctr
    BY <2>4 DEF BootMark, BootClear, CleanUnassigned, CleanClear, OpenGate, RequeueUnassigned,
                Probe, Requeue, Promote, WatchTimedOut, Watch, CompleteChain, Complete, Assign,
                Start, FailDispatch
  <2> QED  BY <1>2, <1>6, <2>1, <2>2, <2>3, <2>4 DEF Orchestrate, OrchestratorNext
<1> QED
  BY <1>2, <1>5, <1>6 DEF Next, Serve, Outside, AgentStops, TimePasses, Crash, vars

\* The typing of what a tick remembers.
TickTypeOK ==
    /\ phase \in Phase
    /\ step \in Step
    /\ todo \subseteq Task
    /\ snap \in [Task -> Row]
    /\ hand \in [cid : Cid \cup {NoCid}, report : Report]

LEMMA NextPhaseType == \A p \in Phase : NextPhase(p) \in Phase
BY DEF NextPhase, Phase

LEMMA MovesType ==
    ASSUME TypeOK, NEW t \in Task
    PROVE  /\ Advance(t) => TickTypeOK'
           /\ \A s \in Step : Goto(s) /\ UNCHANGED hand => TickTypeOK'
           /\ \A S \in SUBSET Task : Iterate(S) => TickTypeOK'
<1> USE DEF TypeOK, OrchestratorTypeOK, TickTypeOK
<1>1. EmptyHand \in [cid : Cid \cup {NoCid}, report : Report]
  BY DEF EmptyHand, Report
<1>2. Advance(t) => TickTypeOK'
  BY <1>1, NoRowType, NextPhaseType DEF Advance, Step
<1>3. \A s \in Step : Goto(s) /\ UNCHANGED hand => TickTypeOK'
  BY DEF Goto
<1>4. \A S \in SUBSET Task : Iterate(S) => TickTypeOK'
  BY <1>1, NoRowType, NextPhaseType DEF Iterate, Step, StoreTypeOK
<1> QED  BY <1>2, <1>3, <1>4

LEMMA BootMovesType ==
    ASSUME TypeOK, NEW t \in Task, BootAdvance(t), UNCHANGED hand
    PROVE  TickTypeOK' /\ running' \in Nat /\ found' \in Nat
BY NoRowType, NextPhaseType
   DEF TypeOK, OrchestratorTypeOK, TickTypeOK, BootAdvance, BootDone, Step

LEMMA ListsType ==
    ASSUME TypeOK, NEW p, NEW S \in SUBSET Task, List(p, S)
    PROVE  OrchestratorTypeOK'
<1>1. TickTypeOK'
  BY MovesType, Task # {} DEF List, Task
<1> QED  BY <1>1 DEF TypeOK, OrchestratorTypeOK, TickTypeOK, List

LEMMA OrchestratorTypeKept ==
    ASSUME TypeOK, [Next]_vars
    PROVE  OrchestratorTypeOK'
<1> USE DEF TypeOK, OrchestratorTypeOK, TickTypeOK
<1>1. CASE UNCHANGED orchVars
  BY <1>1 DEF orchVars, goroutine
<1>2. CASE BootListRunning
  <2>1. todo' \subseteq Task /\ snap' \in [Task -> Row]
    BY <1>2 DEF BootListRunning, BootList, Rows, StoreTypeOK
  <2> QED  BY <1>2, <2>1, TaskSets DEF BootListRunning, Step
<1>3. CASE BootListProvisioning
  <2>1. todo' \subseteq Task /\ snap' \in [Task -> Row]
    BY <1>3 DEF BootListProvisioning, BootList, Rows, StoreTypeOK
  <2> QED  BY <1>3, <2>1 DEF BootListProvisioning, Step
<1>4. CASE BootListRecovering
  <2>1. Cardinality({t \in Rows("recovering") : db[t].cid # NoCid}) \in Nat
    BY TaskSets DEF Rows
  <2>2. ASSUME NEW slots \in Nat, BootListed(slots)
        PROVE  /\ phase' \in Phase /\ step' \in Step
               /\ running' \in Nat /\ found' \in Nat
    BY <2>2, NextPhaseType DEF BootListed, BootDone, Step
  <2> QED  BY <1>4, <2>1, <2>2 DEF BootListRecovering
<1>5. ASSUME CancelledList \/ RecoveringList \/ RunningList PROVE OrchestratorTypeOK'
  BY <1>5, ListsType DEF CancelledList, RecoveringList, RunningList, Rows
<1>6. CASE DispatchList
  <2>1. Oldest(Rows("pending"), MaxConcurrent - running) \in SUBSET Task
    BY DEF Oldest, Rows
  <2>2. CASE running < MaxConcurrent
    BY <1>6, <2>1, <2>2, ListsType DEF DispatchList
  <2>3. CASE ~(running < MaxConcurrent)
    <3>1. TickTypeOK'
      BY <1>6, <2>3, MovesType, 1 \in Task DEF DispatchList, Task
    <3> QED  BY <1>6, <2>3, <3>1 DEF DispatchList
  <2> QED  BY <2>2, <2>3
<1>7. ASSUME NEW t \in Task, BootMark(t) PROVE OrchestratorTypeOK'
  BY <1>7, MovesType, BootMovesType DEF BootMark, Step
<1>8. ASSUME NEW t \in Task, BootClear(t) PROVE OrchestratorTypeOK'
  BY <1>8, BootMovesType DEF BootClear
<1>9. ASSUME NEW t \in Task,
             \/ CleanUnassigned(t) \/ OpenGate(t) \/ RequeueUnassigned(t) \/ Promote(t)
             \/ FailDispatch(t)
      PROVE  OrchestratorTypeOK'
  BY <1>9, MovesType DEF CleanUnassigned, OpenGate, RequeueUnassigned, Promote, FailDispatch
<1>10. Released \in Nat
  BY DEF Released
<1>11. ASSUME NEW t \in Task, CleanStop(t) \/ CleanClear(t) \/ WatchTimedOut(t)
       PROVE  OrchestratorTypeOK'
  BY <1>10, <1>11, MovesType DEF CleanStop, CleanClear, WatchTimedOut, Release, Step
<1>12. ASSUME NEW t \in Task, Requeue(t) PROVE OrchestratorTypeOK'
  BY <1>10, <1>12, MovesType DEF Requeue, Release
<1>13. ASSUME NEW t \in Task, Probe(t) \/ Watch(t) PROVE OrchestratorTypeOK'
  <2>1. ASSUME NEW act \in Step, InspectFailed(t, act)
        PROVE  TickTypeOK' /\ fails' \in [Task -> 0 .. maxInspectFailures - 1]
    BY <2>1, MovesType DEF InspectFailed, maxInspectFailures
  <2>2. InspectSucceeded(t) => fails' \in [Task -> 0 .. maxInspectFailures - 1]
    BY DEF InspectSucceeded, maxInspectFailures
  <2>3. ASSUME NEW report \in Report, HandleCompletion(t, report) PROVE TickTypeOK'
    BY <2>3 DEF HandleCompletion, Goto, Step
  <2>4. {"requeue", "kill", "promote"} \subseteq Step
    BY DEF Step
  <2> QED  BY <1>13, <2>1, <2>2, <2>3, <2>4, MovesType DEF Probe, Watch
<1>14. ASSUME NEW t \in Task, KillTask(t) PROVE OrchestratorTypeOK'
  BY <1>14 DEF KillTask, Goto, Step, Report
<1>15. ASSUME NEW t \in Task, CompleteChain(t) \/ Complete(t) PROVE OrchestratorTypeOK'
  BY <1>10, <1>15, MovesType DEF CompleteChain, Complete, Release, Step
<1>16. ASSUME NEW t \in Task, Assign(t) PROVE OrchestratorTypeOK'
  BY <1>16, MovesType DEF Assign, Step
<1>17. ASSUME NEW t \in Task, RunAgent(t) PROVE OrchestratorTypeOK'
  BY <1>17 DEF RunAgent, Goto, Step
<1>18. ASSUME NEW t \in Task, Start(t) PROVE OrchestratorTypeOK'
  BY <1>18, MovesType DEF Start, Acquire, Step
<1>19. CASE Crash
  BY <1>19, NoRowType
     DEF Crash, Restarted, Phase, Step, NoSnap, EmptyHand, Report, maxInspectFailures
<1> QED
  BY <1>1, <1>2, <1>3, <1>4, <1>5, <1>6, <1>7, <1>8, <1>9, <1>11, <1>12, <1>13, <1>14, <1>15,
     <1>16, <1>17, <1>18, <1>19
     DEF Next, Orchestrate, OrchestratorNext, Serve, Outside, AgentStops, TimePasses, vars

LEMMA RequestsTypeKept ==
    ASSUME TypeOK, [Next]_vars
    PROVE  RequestsTypeOK' /\ crashes' \in 0 .. MaxCrashes
<1> USE DEF TypeOK, RequestsTypeOK
<1>1. CASE UNCHANGED req
  <2>1. crashes' \in 0 .. MaxCrashes
    BY CrashAssumption
       DEF Next, Orchestrate, Serve, Outside, AgentStops, TimePasses, Crash, vars
  <2> QED  BY <1>1, <2>1
<1>2. CASE Serve
  <2>1. ASSUME NEW c \in Client, NEW t \in Task, DeletePreflight(c, t) \/ RetryPreflight(c, t)
        PROVE  RequestsTypeOK'
    BY <2>1 DEF DeletePreflight, RetryPreflight, Decide, Request
  <2>2. ASSUME NEW c \in Client,
               DeleteCancels(c) \/ DeleteDeletes(c) \/ RetryRequeues(c) \/ RequestFails(c)
        PROVE  RequestsTypeOK'
    BY <2>2 DEF DeleteCancels, DeleteDeletes, RetryRequeues, RequestFails, Finish, Request
  <2> QED  BY <1>2, <2>1, <2>2 DEF Serve, HandlerNext, Create
<1>3. CASE Crash
  BY <1>3, CrashAssumption DEF Crash, Request
<1> QED
  BY <1>1, <1>2, <1>3 DEF Next, Orchestrate, Outside, AgentStops, TimePasses, vars

LEMMA InitType ==
    ASSUME Init
    PROVE  TypeOK
<1> USE DEF Init, TypeOK
<1>1. FaultsTypeOK
  BY FaultsAssumption DEF FaultsInit, FaultsTypeOK
<1>2. StoreTypeOK
  BY NoRowType DEF StoreInit, StoreTypeOK
<1>3. ContainersTypeOK
  BY DEF ContainersInit, ContainersTypeOK, Container
<1>4. OrchestratorTypeOK
  BY NoRowType
     DEF Booting, OrchestratorTypeOK, Phase, Step, NoSnap, EmptyHand, Report, maxInspectFailures
<1>5. RequestsTypeOK
  BY DEF RequestsInit, RequestsTypeOK, Request
<1> QED  BY <1>1, <1>2, <1>3, <1>4, <1>5, CrashAssumption

\* The rows, the containers, the counters and the memory of the goroutine keep
\* their types through every handler, every step of a tick, every failure and
\* every restart; the count of inspect failures stays below its threshold.
THEOREM TypeCorrect == Spec => []TypeOK
<1>1. Init => TypeOK
  BY InitType
<1>2. TypeOK /\ [Next]_vars => TypeOK'
  BY FaultsTypeKept, StoreTypeKept, ContainersTypeKept, OrchestratorTypeKept, RequestsTypeKept
     DEF TypeOK
<1> QED  BY <1>1, <1>2, PTL DEF Spec

----------------------------------------------------------------------------
(* The cap on user retries.                                                *)

\* No statement but RetryTask's raises the count, and its condition stops it.
LEMMA StatementKeepsCap ==
    ASSUME TypeOK, RetriesWithinCap, NEW t \in Task, Statement(t)
    PROVE  RetriesWithinCap'
<1> USE DEF TypeOK, StoreTypeOK, RetriesWithinCap
<1>1. \A u \in Task : db[u] \in Row
  OBVIOUS
<1>2. ASSUME NEW row \in Row, row.userRetries <= MaxUserRetries, db' = Updated(t, row)
      PROVE  RetriesWithinCap'
  BY <1>2 DEF Updated
<1>3. ASSUME NEW status \in Status, UpdateTaskStatus(t, status) PROVE RetriesWithinCap'
  BY <1>1, <1>3 DEF UpdateTaskStatus, Updated, Row
<1>4. ASSUME NEW c, StartTask(t, c) PROVE RetriesWithinCap'
  BY <1>1, <1>4 DEF StartTask, Updated, Row
<1>5. ASSUME NEW b \in BOOLEAN, CreateTask(t, b) PROVE RetriesWithinCap'
  BY <1>1, <1>5 DEF CreateTask, NewRow
<1>6. CASE CompleteTask(t, "completed")
  BY <1>3, <1>6 DEF CompleteTask, Status, Terminal
<1>7. ASSUME NEW child \in Task, CompleteTaskWithChild(t, child) PROVE RetriesWithinCap'
  BY <1>1, <1>7 DEF CompleteTaskWithChild, Updated, NewRow, Row
<1>8. CASE RequeueTask(t)
  BY <1>1, <1>8 DEF RequeueTask, Requeued, Updated, Row
<1>9. ASSUME ClearTaskAssignment(t) \/ MarkReadyForRetry(t) PROVE RetriesWithinCap'
  BY <1>1, <1>9 DEF ClearTaskAssignment, MarkReadyForRetry, Updated, Row
<1>10. CASE RetryTask(t)
  BY <1>1, <1>10 DEF RetryTask, Retryable, Requeued, Row
<1>11. CASE DeleteTask(t)
  BY <1>1, <1>11 DEF DeleteTask, DeletedRow, NoRow, NewRow, Row
<1>12. CASE DeadlinePasses(t)
  BY <1>1, <1>12 DEF DeadlinePasses, Row
<1> QED
  BY <1>3, <1>4, <1>5, <1>6, <1>7, <1>8, <1>9, <1>10, <1>11, <1>12 DEF Statement

\* The conditional UPDATE of RetryTask alone keeps the number of user retries
\* within BACKFLOW_MAX_USER_RETRIES: the preflight check of the handler may be
\* out of date when the write comes, whatever other requests and the
\* orchestrator have done in between.
THEOREM RetriesCapped == Spec => []RetriesWithinCap
<1>1. Init => RetriesWithinCap
  BY DEF Init, StoreInit, RetriesWithinCap, NoRow, NewRow
<1>2. TypeOK /\ RetriesWithinCap /\ [Next]_vars => RetriesWithinCap'
  BY Statements, StatementKeepsCap DEF Writes, Reads, RetriesWithinCap
<1> QED  BY <1>1, <1>2, TypeCorrect, PTL DEF Spec

----------------------------------------------------------------------------
(* Reviews.                                                                *)

\* Why a review is never inserted twice: the goroutine holds no task that has
\* completed, so it cannot complete one again; and a row that is not in the
\* table is nobody's review.
ReviewInv ==
    /\ \A t \in todo : db[t].status # "completed"
    /\ \A u \in Task : ~Exists(u) => db[u].parent = NoTask

ReviewStep ==
    \A u \in Task :
        ~Exists(u) /\ db'[u].parent # NoTask =>
            LET t == db'[u].parent
            IN  db[t].status # "completed" /\ db'[t].status = "completed"

\* A statement that leaves the parent of its row alone, and completes the row
\* only if the goroutine is done with it.
LEMMA RowUpdate ==
    ASSUME TypeOK, ReviewInv, todo' \subseteq todo, NEW t \in Task, NEW row \in Row,
           db' = Updated(t, row),
           Exists(t) => row.status \in Status,
           row.parent = db[t].parent,
           row.status # "completed" \/ row.status = db[t].status \/ t \notin todo'
    PROVE  ReviewInv' /\ ReviewStep
<1> USE DEF TypeOK, StoreTypeOK, OrchestratorTypeOK, ReviewInv, ReviewStep
<1>1. CASE ~Exists(t)
  BY <1>1 DEF Updated, Exists
<1>2. CASE Exists(t)
  <2>1. db' = [db EXCEPT ![t] = row]
    BY <1>2 DEF Updated
  <2>2. \A u \in todo' : db'[u].status # "completed"
    BY <2>1
  <2>3. row.status \notin NotARow
    BY <1>2 DEF Status, Active, Terminal, NotARow
  <2>4. \A u \in Task : u # t => db'[u] = db[u]
    BY <2>1
  <2> QED  BY <1>2, <2>1, <2>2, <2>3, <2>4 DEF Exists
<1> QED  BY <1>1, <1>2

LEMMA StatementKeepsReviews ==
    ASSUME TypeOK, ReviewInv, todo' \subseteq todo, NEW t \in Task, Statement(t)
    PROVE  ReviewInv' /\ ReviewStep
<1> USE DEF TypeOK, StoreTypeOK
<1>1. db[t] \in Row
  OBVIOUS
<1>2. Exists(t) => db[t].status \in Status
  BY <1>1 DEF Exists, Row
<1>3. ASSUME NEW b \in BOOLEAN, IsNext(t), CreateTask(t, b) PROVE ReviewInv' /\ ReviewStep
  BY <1>3 DEF CreateTask, NewRow, ReviewInv, ReviewStep, Exists, NotARow, OrchestratorTypeOK
<1>4. ASSUME NEW s \in Status, s # "completed" \/ t \notin todo', UpdateTaskStatus(t, s)
      PROVE  ReviewInv' /\ ReviewStep
  <2>1. [db[t] EXCEPT !.status = s] \in Row
    BY <1>1 DEF Row
  <2> QED  BY <1>1, <1>4, <2>1, RowUpdate DEF UpdateTaskStatus, Row
<1>5. ASSUME NEW c \in Cid \cup {NoCid}, StartTask(t, c) PROVE ReviewInv' /\ ReviewStep
  <2>1. [db[t] EXCEPT !.status = "running", !.cid = c, !.clock = "ticking"] \in Row
    BY <1>1 DEF Row, Status, Active, Clock
  <2> QED  BY <1>1, <1>5, <2>1, RowUpdate DEF StartTask, Row, Status, Active
<1>6. CASE CompleteTask(t, "completed") /\ t \notin todo'
  BY <1>4, <1>6 DEF CompleteTask, Status, Terminal
<1>7. ASSUME t \in todo, Exists(t), t \notin todo', NEW child \in Task, IsNext(child),
             CompleteTaskWithChild(t, child)
      PROVE  ReviewInv' /\ ReviewStep
  <2>1. child # t /\ ~Exists(child)
    BY <1>7 DEF IsNext, Exists, NotARow
  <2>2. /\ db'[t] = [db[t] EXCEPT !.status = "completed"]
        /\ db'[child] = NewRow(FALSE, t)
        /\ \A u \in Task \ {t, child} : db'[u] = db[u]
    BY <1>7, <2>1 DEF CompleteTaskWithChild, Updated
  <2>3. db[t].status # "completed"
    BY <1>7 DEF ReviewInv
  <2>4. db'[t].status = "completed"
    BY <1>1, <2>2 DEF Row
  <2>5. db'[child].status = "pending" /\ db'[child].parent = t
    BY <2>2 DEF NewRow
  <2>6. \A u \in Task \ {child} : ~Exists(u) => db'[u].parent = NoTask
    BY <1>7, <2>2 DEF ReviewInv
  <2>7. ReviewStep
    BY <2>3, <2>4, <2>5, <2>6, NoTask \notin Task DEF ReviewStep, NoTask, Task
  <2> QED
    BY <1>7, <2>2, <2>4, <2>5, <2>7 DEF ReviewInv, Exists, NotARow, OrchestratorTypeOK
<1>8. CASE RequeueTask(t)
  <2>1. Requeued(db[t]) \in Row
    BY <1>1 DEF Requeued, Row, Status, Clock
  <2> QED  BY <1>1, <1>8, <2>1, RowUpdate DEF RequeueTask, Requeued, Row, Status
<1>9. CASE ClearTaskAssignment(t)
  <2>1. [db[t] EXCEPT !.cid = NoCid] \in Row
    BY <1>1 DEF Row
  <2> QED  BY <1>1, <1>2, <1>9, <2>1, RowUpdate DEF ClearTaskAssignment, Row
<1>10. CASE MarkReadyForRetry(t)
  <2>1. [db[t] EXCEPT !.ready = TRUE] \in Row
    BY <1>1 DEF Row
  <2> QED  BY <1>1, <1>2, <1>10, <2>1, RowUpdate DEF MarkReadyForRetry, Row
<1>11. CASE RetryTask(t)
  <2>0. Requeued(db[t]) \in Row
    BY <1>1 DEF Requeued, Row, Status, Clock
  <2>1. [Requeued(db[t]) EXCEPT !.userRetries = @ + 1] \in Row
    BY <2>0 DEF Row
  <2>2. CASE Retryable(t)
    BY <1>1, <1>11, <2>1, <2>2, RowUpdate DEF RetryTask, Retryable, Updated, Requeued, Row, Status
  <2>3. CASE ~Retryable(t)
    BY <1>11, <2>3 DEF RetryTask, ReviewInv, ReviewStep, Exists
  <2> QED  BY <2>2, <2>3
<1>12. CASE DeleteTask(t)
  <2>1. db'[t].status = "deleted" /\ db'[t].parent = NoTask
    BY <1>12 DEF DeleteTask, DeletedRow, NoRow, NewRow
  <2>2. \A u \in Task \ {t} : /\ db'[u].status = db[u].status
                              /\ db'[u].parent \in {db[u].parent, NoTask}
    BY <1>12 DEF DeleteTask, Row
  <2> QED
    BY <1>1, <2>1, <2>2 DEF ReviewInv, ReviewStep, Exists, NotARow, OrchestratorTypeOK
<1>13. CASE DeadlinePasses(t)
  <2>1. [db[t] EXCEPT !.clock = "over"] \in Row /\ Exists(t)
    BY <1>1, <1>13 DEF Row, Clock, DeadlinePasses, Exists, NotARow
  <2> QED  BY <1>1, <1>2, <1>13, <2>1, RowUpdate DEF DeadlinePasses, Updated, Row
<1> QED
  BY <1>3, <1>4, <1>5, <1>6, <1>7, <1>8, <1>9, <1>10, <1>11, <1>12, <1>13 DEF Statement

\* chain.Plan's child is inserted by the transaction that completes its parent
\* and by no other step, once: whatever fails, crashes or comes in between, no
\* review is created for a task that has already completed.
THEOREM ReviewsWithCompletions == Spec => ReviewComesWithCompletion
<1>1. Init => ReviewInv
  BY DEF Init, StoreInit, Booting, ReviewInv, NoRow, NewRow
<1>2. TypeOK /\ ReviewInv /\ [Next]_vars => ReviewInv' /\ ReviewStep
  <2> SUFFICES ASSUME TypeOK, ReviewInv, [Next]_vars PROVE ReviewInv' /\ ReviewStep
    OBVIOUS
  <2>1. CASE Writes
    BY <2>1, StatementKeepsReviews DEF Writes
  <2>2. CASE Reads
    BY <2>2 DEF Reads, ReviewInv, ReviewStep, Exists, TypeOK, OrchestratorTypeOK
  <2> QED  BY <2>1, <2>2, Statements
<1>3. (ReviewStep <=>
         \A u \in Task :
           ~Exists(u) /\ db'[u].parent # NoTask =>
              LET t == db'[u].parent
              IN  db[t].status # "completed" /\ db'[t].status = "completed")
  BY DEF ReviewStep
<1> QED  BY <1>1, <1>2, <1>3, TypeCorrect, PTL DEF Spec, ReviewComesWithCompletion
----------------------------------------------------------------------------
(* No task is left behind in provisioning, if the store's calls succeed.   *)

Provisioning == Rows("provisioning")

\* How the tick owns the provisioning rows.  The first part is the property; the
\* second says that recovery clears the container of a row it has marked; the
\* third that a completion or the opening of a gate is no part of a dispatch.
ProvisioningInv ==
    /\ ProvisioningIsOwned
    /\ At("boot", "clear") => \A t \in Task : BootTurn(t) => t \notin Provisioning
    /\ step \in {"gate", "complete", "complete_chain"} => phase \notin {"boot", "dispatch"}

\* Neither boot nor dispatch: nothing is provisioning.
LEMMA OwnedOnlyThere ==
    ASSUME ProvisioningInv, phase \notin {"boot", "dispatch"} \/ At("dispatch", "list")
    PROVE  Provisioning = {}
BY DEF ProvisioningInv, ProvisioningIsOwned, Provisioning, At

LEMMA UpdateProvisioning ==
    ASSUME TypeOK, NEW t \in Task, NEW row \in Row, db' = Updated(t, row),
           Exists(t) => row.status # "provisioning"
    PROVE  Provisioning' \subseteq Provisioning \ {t}
BY DEF TypeOK, StoreTypeOK, Updated, Provisioning, Rows, Exists, NotARow

\* Only AssignTask makes a row provisioning, and only its own.
LEMMA StatementProvisioning ==
    ASSUME TypeOK, NEW t \in Task
    PROVE  /\ \A s \in Status \ {"provisioning"} :
                UpdateTaskStatus(t, s) => Provisioning' \subseteq Provisioning \ {t}
           /\ \A c \in Cid \cup {NoCid} :
                StartTask(t, c) => Provisioning' \subseteq Provisioning \ {t}
           /\ AssignTask(t) => Provisioning' \subseteq Provisioning \cup {t}
           /\ RequeueTask(t) => Provisioning' \subseteq Provisioning \ {t}
           /\ \/ ClearTaskAssignment(t) \/ MarkReadyForRetry(t) \/ RetryTask(t)
              \/ DeleteTask(t) \/ DeadlinePasses(t)
              \/ \E b \in BOOLEAN : CreateTask(t, b)
              \/ \E child \in Task : CompleteTaskWithChild(t, child)
              => Provisioning' \subseteq Provisioning
<1> USE DEF TypeOK, StoreTypeOK
<1>1. \A u \in Task : db[u] \in Row
  OBVIOUS
<1>2. ASSUME NEW s \in Status \ {"provisioning"}, UpdateTaskStatus(t, s)
      PROVE  Provisioning' \subseteq Provisioning \ {t}
  <2>1. [db[t] EXCEPT !.status = s] \in Row
    BY <1>1 DEF Row
  <2> QED  BY <1>1, <1>2, <2>1, UpdateProvisioning DEF UpdateTaskStatus, Row
<1>3. ASSUME NEW c \in Cid \cup {NoCid}, StartTask(t, c)
      PROVE  Provisioning' \subseteq Provisioning \ {t}
  <2>1. [db[t] EXCEPT !.status = "running", !.cid = c, !.clock = "ticking"] \in Row
    BY <1>1 DEF Row, Status, Active, Clock
  <2> QED  BY <1>1, <1>3, <2>1, UpdateProvisioning DEF StartTask, Row
<1>4. ASSUME AssignTask(t) PROVE Provisioning' \subseteq Provisioning \cup {t}
  BY <1>4 DEF AssignTask, UpdateTaskStatus, Updated, Provisioning, Rows
<1>5. Requeued(db[t]) \in Row /\ Requeued(db[t]).status = "pending"
  BY <1>1 DEF Requeued, Row, Status, Clock
<1>6. ASSUME RequeueTask(t) PROVE Provisioning' \subseteq Provisioning \ {t}
  BY <1>5, <1>6, UpdateProvisioning DEF RequeueTask
<1>7. ASSUME ClearTaskAssignment(t) \/ MarkReadyForRetry(t)
      PROVE  Provisioning' \subseteq Provisioning
  BY <1>1, <1>7 DEF ClearTaskAssignment, MarkReadyForRetry, Updated, Provisioning, Rows, Row
<1>8. ASSUME RetryTask(t) PROVE Provisioning' \subseteq Provisioning
  <2>1. [Requeued(db[t]) EXCEPT !.userRetries = @ + 1].status = "pending"
    BY <1>1, <1>5 DEF Requeued, Row
  <2> QED  BY <1>8, <2>1 DEF RetryTask, Provisioning, Rows
<1>9. ASSUME DeleteTask(t) PROVE Provisioning' \subseteq Provisioning
  BY <1>1, <1>9 DEF DeleteTask, DeletedRow, NoRow, NewRow, Provisioning, Rows, Row
<1>10. ASSUME DeadlinePasses(t) PROVE Provisioning' \subseteq Provisioning
  BY <1>1, <1>10 DEF DeadlinePasses, Provisioning, Rows, Row
<1>11. ASSUME NEW b \in BOOLEAN, CreateTask(t, b) PROVE Provisioning' \subseteq Provisioning
  BY <1>11 DEF CreateTask, NewRow, Provisioning, Rows
<1>12. ASSUME NEW child \in Task, CompleteTaskWithChild(t, child)
       PROVE  Provisioning' \subseteq Provisioning
  BY <1>1, <1>12 DEF CompleteTaskWithChild, Updated, NewRow, Provisioning, Rows, Row
<1> QED
  BY <1>2, <1>3, <1>4, <1>6, <1>7, <1>8, <1>9, <1>10, <1>11, <1>12

LEMMA OneTurn ==
    ASSUME TypeOK, NEW t \in Task, NEW u \in Task
    PROVE  /\ Turn(t) /\ Turn(u) => t = u
           /\ BootTurn(t) /\ BootTurn(u) => t = u
BY DEF Turn, BootTurn, Task, TypeOK, OrchestratorTypeOK

\* A step after which nothing is provisioning, and which does not enter a dispatch
\* or a boot in the middle, keeps the invariant.
LEMMA NothingLeft ==
    ASSUME Provisioning' = {}, ~At("boot", "clear")',
           step' \in {"gate", "complete", "complete_chain"} => phase' \notin {"boot", "dispatch"}
    PROVE  ProvisioningInv'
BY DEF ProvisioningInv, ProvisioningIsOwned, Provisioning

LEMMA AdvanceLeavesNothing ==
    ASSUME TypeOK, NEW t \in Task, phase # "boot", Advance(t), Provisioning' = {}
    PROVE  ProvisioningInv'
<1>1. phase' # "boot" /\ step' \in {"list", "item"}
  BY DEF Advance, NextPhase, TypeOK, OrchestratorTypeOK, Phase
<1> QED  BY <1>1, NothingLeft DEF At

\* recoverOnStartup: the rows that it has not marked yet are on its list.
LEMMA BootKeeps ==
    ASSUME TypeOK, ProvisioningInv, "store" \notin FaultKinds,
           \/ BootListRunning \/ BootListProvisioning \/ BootListRecovering
           \/ \E t \in Task : BootMark(t) \/ BootClear(t)
    PROVE  ProvisioningInv'
<1> USE DEF At
<1>1. CASE BootListRunning
  BY <1>1 DEF BootListRunning, ProvisioningInv, ProvisioningIsOwned
<1>2. CASE BootListProvisioning
  <2>1. Provisioning' = Provisioning /\ Provisioning \subseteq todo'
    BY <1>2 DEF BootListProvisioning, BootList, Breaks, Provisioning, Rows
  <2>2. phase' = "boot" /\ step' = "list_recovering"
    BY <1>2 DEF BootListProvisioning
  <2> QED  BY <2>1, <2>2 DEF ProvisioningInv, ProvisioningIsOwned, Provisioning
<1>3. CASE BootListRecovering
  <2>1. Provisioning' = Provisioning /\ Provisioning \subseteq todo /\ UNCHANGED todo
    BY <1>3 DEF BootListRecovering, ProvisioningInv, ProvisioningIsOwned, Provisioning, Rows
  <2>2. \/ todo = {} /\ phase' = "cancelled" /\ step' = "list"
        \/ phase' = "boot" /\ step' = "item"
    BY <1>3 DEF BootListRecovering, BootListed, BootDone, NextPhase
  <2> QED  BY <2>1, <2>2 DEF ProvisioningInv, ProvisioningIsOwned, Provisioning
<1>4. ASSUME NEW t \in Task, BootAdvance(t), At("boot", "item") \/ At("boot", "clear"),
             Provisioning' \subseteq Provisioning \ {t}
      PROVE  ProvisioningInv'
  <2>1. Provisioning \subseteq todo
    BY <1>4 DEF ProvisioningInv, ProvisioningIsOwned, Provisioning
  <2>2. todo' = todo \ {t}
    BY <1>4 DEF BootAdvance
  <2>3. \/ todo = {t} /\ phase' = "cancelled" /\ step' = "list"
        \/ phase' = "boot" /\ step' = "item"
    BY <1>4 DEF BootAdvance, BootDone, NextPhase
  <2> QED  BY <1>4, <2>1, <2>2, <2>3 DEF ProvisioningInv, ProvisioningIsOwned, Provisioning
<1>5. ASSUME NEW t \in Task, BootMark(t) PROVE ProvisioningInv'
  <2>1. Provisioning' \subseteq Provisioning \ {t}
    BY <1>5, StatementProvisioning DEF BootMark, BestEffort, Breaks, Status, Active
  <2>2. CASE snap[t].status = "provisioning"
    <3>1. phase' = "boot" /\ step' = "clear" /\ UNCHANGED <<todo, snap>>
      BY <1>5, <2>2 DEF BootMark, Goto
    <3>2. Provisioning' \subseteq todo'
      BY <1>5, <2>1, <3>1 DEF BootMark, ProvisioningInv, ProvisioningIsOwned, Provisioning
    <3>3. \A u \in Task : BootTurn(u)' => u = t
      BY <1>5, <3>1, OneTurn DEF BootMark, BootTurn
    <3> QED
      BY <2>1, <3>1, <3>2, <3>3 DEF ProvisioningInv, ProvisioningIsOwned, Provisioning
  <2>3. CASE snap[t].status # "provisioning"
    BY <1>4, <1>5, <2>1, <2>3 DEF BootMark
  <2> QED  BY <2>2, <2>3
<1>6. ASSUME NEW t \in Task, BootClear(t) PROVE ProvisioningInv'
  <2>1. Provisioning' \subseteq Provisioning
    BY <1>6, StatementProvisioning DEF BootClear, BestEffort, Breaks
  <2>2. t \notin Provisioning
    BY <1>6 DEF BootClear, ProvisioningInv
  <2> QED  BY <1>4, <1>6, <2>1, <2>2 DEF BootClear
<1> QED  BY <1>1, <1>2, <1>3, <1>5, <1>6

\* dispatchPending: the one row it makes provisioning is the one at hand.
LEMMA DispatchKeeps ==
    ASSUME TypeOK, ProvisioningInv, "store" \notin FaultKinds, NEW t \in Task,
           Assign(t) \/ RunAgent(t) \/ Start(t) \/ FailDispatch(t)
    PROVE  ProvisioningInv'
<1> USE DEF At
<1>1. \A u \in Provisioning : u \in Task /\ Turn(u)
  BY DEF Assign, RunAgent, Start, FailDispatch, ProvisioningInv, ProvisioningIsOwned,
         Provisioning, Rows
<1>2. Turn(t) => Provisioning \subseteq {t}
  BY <1>1, OneTurn
<1>3. CASE Assign(t)
  <2>1. Provisioning = {}
    BY <1>3 DEF Assign, ProvisioningInv, ProvisioningIsOwned, Provisioning
  <2>2. Provisioning' \subseteq {t}
    BY <1>3, <2>1, StatementProvisioning DEF Assign, Breaks
  <2>3. phase' = "dispatch" /\ step' = "run" /\ Turn(t)'
    BY <1>3 DEF Assign, Breaks, Goto, Turn
  <2> QED  BY <2>2, <2>3 DEF ProvisioningInv, ProvisioningIsOwned, Provisioning
<1>4. CASE RunAgent(t)
  <2>1. Provisioning' = Provisioning /\ Turn(t)'
    BY <1>4 DEF RunAgent, Goto, Turn, Provisioning, Rows
  <2>2. phase' = "dispatch" /\ step' \in {"start", "fail"}
    BY <1>4 DEF RunAgent, Goto
  <2> QED
    BY <1>2, <1>4, <2>1, <2>2 DEF RunAgent, ProvisioningInv, ProvisioningIsOwned, Provisioning
<1>5. CASE Start(t)
  <2>1. Advance(t) /\ StartTask(t, hand.cid)
    BY <1>5 DEF Start, Breaks
  <2>2. hand.cid \in Cid \cup {NoCid}
    BY DEF TypeOK, OrchestratorTypeOK
  <2>3. Provisioning' = {}
    BY <1>2, <1>5, <2>1, <2>2, StatementProvisioning DEF Start
  <2> QED  BY <1>5, <2>1, <2>3, AdvanceLeavesNothing DEF Start
<1>6. CASE FailDispatch(t)
  <2>1. Provisioning' = {}
    BY <1>2, <1>6, StatementProvisioning DEF FailDispatch, BestEffort, Breaks, Status, Terminal
  <2> QED  BY <1>6, <2>1, AdvanceLeavesNothing DEF FailDispatch
<1> QED  BY <1>3, <1>4, <1>5, <1>6

\* The lists of the tick read; none of them is made in the middle of a dispatch.
LEMMA ListKeeps ==
    ASSUME TypeOK, ProvisioningInv,
           CancelledList \/ RecoveringList \/ RunningList \/ DispatchList
    PROVE  ProvisioningInv'
<1> USE DEF At
<1>1. Provisioning' = Provisioning /\ step = "list" /\ phase # "boot"
  BY DEF CancelledList, RecoveringList, RunningList, DispatchList, List, Iterate,
         Provisioning, Rows
<1>2. Provisioning = {}
  BY <1>1, OwnedOnlyThere DEF ProvisioningInv, ProvisioningIsOwned, Provisioning
<1>3. phase' # "boot" /\ step' \in {"list", "item"}
  BY <1>1 DEF CancelledList, RecoveringList, RunningList, DispatchList, List, Iterate,
         NextPhase, TypeOK, OrchestratorTypeOK, Phase
<1> QED  BY <1>1, <1>2, <1>3, NothingLeft

\* The rest of the tick starts and ends with nothing provisioning.
LEMMA MonitorsKeep ==
    ASSUME TypeOK, ProvisioningInv, NEW t \in Task,
           \/ CleanUnassigned(t) \/ CleanStop(t) \/ CleanClear(t) \/ OpenGate(t)
           \/ RequeueUnassigned(t) \/ Probe(t) \/ Requeue(t) \/ Promote(t)
           \/ WatchTimedOut(t) \/ Watch(t) \/ KillTask(t) \/ CompleteChain(t) \/ Complete(t)
    PROVE  ProvisioningInv'
<1> USE DEF At
<1>1. phase \notin {"boot", "dispatch"}
  BY DEF CleanUnassigned, CleanStop, CleanClear, OpenGate, RequeueUnassigned, Probe, Requeue,
         Promote, WatchTimedOut, Watch, KillTask, CompleteChain, Complete, ProvisioningInv
<1>2. Provisioning = {}
  BY <1>1, OwnedOnlyThere
<1>3. ASSUME UNCHANGED db PROVE Provisioning' = {}
  BY <1>2, <1>3 DEF Provisioning, Rows
<1>4. ASSUME CleanUnassigned(t) \/ OpenGate(t) \/ RequeueUnassigned(t) \/ Requeue(t) \/ Promote(t)
      PROVE  ProvisioningInv'
  <2>1. Provisioning' = {}
    BY <1>2, <1>3, <1>4, StatementProvisioning
       DEF CleanUnassigned, OpenGate, RequeueUnassigned, Requeue, Promote, BestEffort,
           Status, Active
  <2> QED
    BY <1>1, <1>4, <2>1, AdvanceLeavesNothing
       DEF CleanUnassigned, OpenGate, RequeueUnassigned, Requeue, Promote
<1>5. CASE CleanClear(t)
  <2>1. Provisioning' = {}
    BY <1>2, <1>3, <1>5, StatementProvisioning DEF CleanClear, BestEffort
  <2> QED  BY <1>5, <2>1, NothingLeft DEF CleanClear, Goto
<1>6. ASSUME CleanStop(t) \/ WatchTimedOut(t) \/ KillTask(t) PROVE ProvisioningInv'
  BY <1>1, <1>3, <1>6, NothingLeft DEF CleanStop, WatchTimedOut, KillTask, Goto
<1>7. ASSUME Probe(t) \/ Watch(t) PROVE ProvisioningInv'
  <2>1. Provisioning' = {}
    BY <1>3, <1>7 DEF Probe, Watch
  <2>2. Advance(t) \/ UNCHANGED phase
    BY <1>7 DEF Probe, Watch, InspectFailed, HandleCompletion, Goto
  <2> QED  BY <1>1, <2>1, <2>2, NothingLeft, AdvanceLeavesNothing
<1>8. ASSUME CompleteChain(t) \/ Complete(t) PROVE ProvisioningInv'
  <2>1. Provisioning' = {}
    BY <1>2, <1>3, <1>8, StatementProvisioning
       DEF CompleteChain, Complete, CompleteTask, FinalStatus, Status, Terminal
  <2>2. Advance(t) \/ UNCHANGED phase
    BY <1>8 DEF CompleteChain, Complete, Goto
  <2> QED  BY <1>1, <2>1, <2>2, NothingLeft, AdvanceLeavesNothing
<1> QED  BY <1>4, <1>5, <1>6, <1>7, <1>8

\* Handlers, agents, the clock and a crash.
LEMMA OthersKeep ==
    ASSUME TypeOK, ProvisioningInv, Serve \/ Outside \/ Crash \/ UNCHANGED vars
    PROVE  ProvisioningInv'
<1>1. ASSUME UNCHANGED orchVars, Provisioning' \subseteq Provisioning PROVE ProvisioningInv'
  BY <1>1
     DEF orchVars, goroutine, ProvisioningInv, ProvisioningIsOwned, Provisioning, At, Turn, BootTurn
<1>2. ASSUME UNCHANGED db PROVE Provisioning' \subseteq Provisioning
  BY <1>2 DEF Provisioning, Rows
<1>3. CASE Serve
  <2>1. \A c \in Client : req[c].op \in {"cancel", "delete", "retry"} => req[c].task \in Task
    BY DEF TypeOK, RequestsTypeOK, Request, Idle
  <2>2. Provisioning' \subseteq Provisioning
    <3>1. CASE Create
      BY <3>1, StatementProvisioning DEF Create
    <3>2. ASSUME NEW c \in Client, DeleteCancels(c) PROVE Provisioning' \subseteq Provisioning
      BY <2>1, <3>2, StatementProvisioning DEF DeleteCancels, CancelTask, Status, Terminal
    <3>3. ASSUME NEW c \in Client, DeleteDeletes(c) \/ RetryRequeues(c)
          PROVE  Provisioning' \subseteq Provisioning
      BY <2>1, <3>3, StatementProvisioning DEF DeleteDeletes, RetryRequeues
    <3>4. ASSUME NEW c \in Client,
                 \/ RequestFails(c)
                 \/ \E t \in Task : DeletePreflight(c, t) \/ RetryPreflight(c, t)
          PROVE  UNCHANGED db
      BY <3>4 DEF RequestFails, DeletePreflight, RetryPreflight
    <3> QED  BY <1>2, <1>3, <3>1, <3>2, <3>3, <3>4 DEF Serve, HandlerNext
  <2> QED  BY <1>1, <1>3, <2>2 DEF Serve
<1>4. CASE AgentStops \/ UNCHANGED vars
  BY <1>1, <1>2, <1>4 DEF AgentStops, vars
<1>5. ASSUME NEW t \in Task, TimePasses(t) PROVE ProvisioningInv'
  BY <1>1, <1>5, StatementProvisioning DEF TimePasses
<1>6. CASE Crash
  BY <1>6 DEF Crash, Restarted, At, ProvisioningInv, ProvisioningIsOwned
<1> QED  BY <1>3, <1>4, <1>5, <1>6 DEF Outside

\* If the store's own calls succeed, a task is in provisioning only while the
\* dispatcher is at work on it or, after a crash, until recovery has marked it:
\* dispatch's failure branch and recoverOnStartup leave nothing behind, whatever
\* docker, the agents, the users and further crashes do.
THEOREM ProvisioningOwned ==
    ASSUME "store" \notin FaultKinds
    PROVE  Spec => []ProvisioningIsOwned
<1>1. Init => ProvisioningInv
  BY DEF Init, StoreInit, Booting, ProvisioningInv, ProvisioningIsOwned, At
<1>2. TypeOK /\ ProvisioningInv /\ [Next]_vars => ProvisioningInv'
  BY BootKeeps, DispatchKeeps, ListKeeps, MonitorsKeep, OthersKeep
     DEF Next, Orchestrate, OrchestratorNext
<1>3. ProvisioningInv => ProvisioningIsOwned
  BY DEF ProvisioningInv
<1> QED  BY <1>1, <1>2, <1>3, TypeCorrect, PTL DEF Spec
=============================================================================
