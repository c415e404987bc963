----------------------------- MODULE CalmProofs -----------------------------
(***************************************************************************)
(* What the orchestrator does right if no write of a delete handler comes  *)
(* in the middle of its work: either no task is ever deleted or cancelled, *)
(* or requests are served between two ticks.  Ended tasks stay ended, the  *)
(* count of slots is exact, and the server implements TaskLifecycle.       *)
(***************************************************************************)
EXTENDS BackliteProofs

----------------------------------------------------------------------------
(* The interleavings.                                                      *)

\* The two ways to be undisturbed.
Undisturbed == (Spec /\ "delete" \notin Requests) \/ QuietSpec

Requested == \E c \in Client : req[c].op \in {"cancel", "delete"}
Undeleted == ~Requested /\ Rows("cancelled") = {}

\* What both have in common.
Calm == BetweenTicks \/ NoRequest \/ Undeleted

CalmNext ==
    \/ Orchestrate /\ (NoRequest \/ Undeleted)
    \/ Serve /\ (BetweenTicks \/ (Undeleted /\ ~Requested'))
    \/ Outside
    \/ Crash

----------------------------------------------------------------------------
(* The invariant.                                                          *)

RowOK(row) ==
    /\ row.status # "interrupted"
    /\ row.ready => row.status \in {"failed", "cancelled"}
    /\ row.status \in NotARow \cup {"pending", "provisioning"} => row.cid = NoCid
    /\ row.status = "running" => row.cid # NoCid
    /\ row.status \in NotARow => row.userRetries = 0

RowInv == \A t \in Task : RowOK(db[t])

\* A decision of a delete handler is still right when it is written.
RequestInv ==
    \A c \in Client :
        /\ req[c].op = "cancel" =>
             \/ db[req[c].task].status \in Active
             \/ db[req[c].task].status = "cancelled" /\ ~db[req[c].task].ready
        /\ req[c].op = "delete" => db[req[c].task].status \in {"pending", "deleted"}

Listed == [boot       |-> {"running", "provisioning"},
           cancelled  |-> {"cancelled"},
           recovering |-> {"recovering"},
           running    |-> {"running"},
           dispatch   |-> {"pending"}]

Steps == [boot       |-> {"list", "list_provisioning", "list_recovering", "item", "clear"},
          cancelled  |-> {"list", "item", "clear", "gate"},
          recovering |-> {"list", "item", "requeue", "promote", "complete_chain", "complete", "gate"},
          running    |-> {"list", "item", "kill", "complete_chain", "complete", "gate"},
          dispatch   |-> {"list", "item", "run", "start", "fail"}]

\* The goroutine has written to the row of t since it was listed.
InHand(t) ==
    \/ phase # "boot" /\ Turn(t) /\ step \in {"gate", "run", "start", "fail"}
    \/ At("boot", "clear") /\ BootTurn(t)

\* Nobody has written to it: it is as it was listed.
Fresh(t) ==
    /\ snap[t].status \in Listed[phase]
    /\ db[t].status = snap[t].status /\ db[t].cid = snap[t].cid

HandOK(t) ==
    /\ step = "clear" =>
         /\ snap[t].status = "provisioning"
         /\ db[t].status \in {"provisioning", "recovering"} /\ db[t].cid = NoCid
    /\ step = "gate" =>
         IF phase = "cancelled" THEN db[t].status = "cancelled"
                                ELSE db[t].status = "failed" /\ ~db[t].ready
    /\ step \in {"run", "start"} => db[t].status = "provisioning"
    /\ step = "fail" => db[t].status \in {"pending", "provisioning"}

\* The steps at which the row at hand has a container.
HasContainer ==
    \/ At("cancelled", "clear")
    \/ phase = "recovering" /\ step \in {"requeue", "promote", "complete_chain", "complete"}

\* What the goroutine remembers of the rows it has listed is true.
SnapInv ==
    /\ step \in Steps[phase]
    /\ step \in {"list", "list_provisioning"} /\ phase # "boot" => todo = {}
    /\ \A t \in todo : InHand(t) => HandOK(t)
    /\ \A t \in todo : ~InHand(t) => Fresh(t)
    /\ HasContainer => \A t \in todo : Turn(t) => snap[t].cid # NoCid
    /\ step = "start" => hand.cid # NoCid

CalmInv == Calm /\ RowInv /\ RequestInv /\ SnapInv

\* At most one of: failures of the store, deletions, restarts.
OneDisturbance ==
    \/ "store" \notin FaultKinds /\ ("delete" \notin Requests \/ MaxCrashes = 0)
    \/ "delete" \notin Requests /\ MaxCrashes = 0

\* What cannot be there without the disturbances that make it.
QuietInv ==
    /\ "delete" \notin Requests => Undeleted
    /\ phase = "boot" => Rows("cancelled") = {}
    /\ "store" \in FaultKinds =>
         /\ Rows("recovering") = {} /\ Rows("cancelled") = {}
         /\ phase = "boot" => todo = {} /\ Rows("running") = {} /\ Rows("provisioning") = {}
    /\ "store" \notin FaultKinds =>
         /\ \A t \in Task : db[t].status = "cancelled" /\ db[t].ready => db[t].cid = NoCid
         /\ At("cancelled", "gate") => \A t \in todo : Turn(t) => db[t].cid = NoCid

\* recoverOnStartup counts the slots that the tasks it found will hold.
BootInv ==
    /\ At("boot", "list") => todo = {} /\ found = 0
    /\ At("boot", "list_provisioning") =>
         found = Cardinality(Rows("running")) /\ todo = Rows("running")
    /\ At("boot", "list_recovering") =>
         /\ found = Cardinality(Rows("running"))
         /\ todo = Rows("running") \cup Rows("provisioning")
    /\ phase = "boot" /\ step \in {"item", "clear"} => found = Cardinality(SlotHolders)

SlotInv == QuietInv /\ BootInv /\ SlotsExact

Unassigned == {t \in Rows("recovering") : db[t].cid = NoCid}

\* A dispatch has a slot for every task that it has listed, and no task takes part of
\* the capacity that is not counted.
RoomInv ==
    /\ phase = "dispatch" /\ step # "list" => running + Cardinality(todo) <= MaxConcurrent
    /\ phase = "recovering" /\ step # "list" => Unassigned \subseteq todo
    /\ phase \in {"running", "dispatch"} => Unassigned = {}
----------------------------------------------------------------------------
(* What the statements write.                                              *)

\* The columns that decide what becomes of a task.
Wrote(t, status, cid, ready, userRetries) ==
    /\ db'[t].status = status /\ db'[t].cid = cid
    /\ db'[t].ready = ready /\ db'[t].userRetries = userRetries

Same(t) == Wrote(t, db[t].status, db[t].cid, db[t].ready, db[t].userRetries)
AllSame == \A u \in Task : Same(u)
OthersSame(t) == \A u \in Task \ {t} : Same(u)

LEMMA RowIs ==
    ASSUME TypeOK, NEW t \in Task
    PROVE  db[t] \in Row /\ db \in [Task -> Row] /\ (Exists(t) => db[t].status \in Status)
BY DEF TypeOK, StoreTypeOK, Exists, Row

LEMMA Unchanged == UNCHANGED db => AllSame
BY DEF AllSame, Same, Wrote

LEMMA Effects ==
    ASSUME TypeOK, NEW t \in Task, Exists(t)
    PROVE  /\ \A s : UpdateTaskStatus(t, s) =>
                Wrote(t, s, db[t].cid, db[t].ready, db[t].userRetries) /\ OthersSame(t)
           /\ \A c : StartTask(t, c) =>
                Wrote(t, "running", c, db[t].ready, db[t].userRetries) /\ OthersSame(t)
           /\ RequeueTask(t) =>
                Wrote(t, "pending", NoCid, FALSE, db[t].userRetries) /\ OthersSame(t)
           /\ ClearTaskAssignment(t) =>
                Wrote(t, db[t].status, NoCid, db[t].ready, db[t].userRetries) /\ OthersSame(t)
           /\ MarkReadyForRetry(t) =>
                Wrote(t, db[t].status, db[t].cid, TRUE, db[t].userRetries) /\ OthersSame(t)
<1> USE RowIs DEF Updated, OthersSame, Same, Wrote, Row
<1>1. ASSUME NEW s, UpdateTaskStatus(t, s)
      PROVE  Wrote(t, s, db[t].cid, db[t].ready, db[t].userRetries) /\ OthersSame(t)
  BY <1>1 DEF UpdateTaskStatus
<1>2. ASSUME NEW c, StartTask(t, c)
      PROVE  Wrote(t, "running", c, db[t].ready, db[t].userRetries) /\ OthersSame(t)
  BY <1>2 DEF StartTask
<1>3. ASSUME RequeueTask(t)
      PROVE  Wrote(t, "pending", NoCid, FALSE, db[t].userRetries) /\ OthersSame(t)
  BY <1>3 DEF RequeueTask, Requeued
<1>4. ASSUME ClearTaskAssignment(t)
      PROVE  Wrote(t, db[t].status, NoCid, db[t].ready, db[t].userRetries) /\ OthersSame(t)
  BY <1>4 DEF ClearTaskAssignment
<1>5. ASSUME MarkReadyForRetry(t)
      PROVE  Wrote(t, db[t].status, db[t].cid, TRUE, db[t].userRetries) /\ OthersSame(t)
  BY <1>5 DEF MarkReadyForRetry
<1> QED  BY <1>1, <1>2, <1>3, <1>4, <1>5

LEMMA MoreEffects ==
    ASSUME TypeOK, NEW t \in Task
    PROVE  /\ \A b : CreateTask(t, b) => Wrote(t, "pending", NoCid, FALSE, 0) /\ OthersSame(t)
           /\ RetryTask(t) =>
                \/ /\ db[t].ready /\ Wrote(t, "pending", NoCid, FALSE, db[t].userRetries + 1)
                   /\ db[t].userRetries < MaxUserRetries /\ OthersSame(t)
                \/ AllSame
           /\ DeleteTask(t) => Wrote(t, "deleted", NoCid, FALSE, 0) /\ OthersSame(t)
           /\ DeadlinePasses(t) => AllSame
           /\ UNCHANGED db => AllSame
<1> USE RowIs DEF AllSame, OthersSame, Same, Wrote, Row
<1>1. ASSUME NEW b, CreateTask(t, b)
      PROVE  Wrote(t, "pending", NoCid, FALSE, 0) /\ OthersSame(t)
  BY <1>1 DEF CreateTask, NewRow
<1>2. ASSUME RetryTask(t), Retryable(t)
      PROVE  /\ db[t].ready /\ Wrote(t, "pending", NoCid, FALSE, db[t].userRetries + 1)
             /\ db[t].userRetries < MaxUserRetries /\ OthersSame(t)
  <2>1. db' = [db EXCEPT ![t] = [Requeued(db[t]) EXCEPT !.userRetries = @ + 1]]
    BY <1>2 DEF RetryTask
  <2>2. Requeued(db[t]) \in Row /\ Requeued(db[t]).userRetries = db[t].userRetries
    BY DEF Requeued, Status, Clock
  <2>3. db'[t] = [Requeued(db[t]) EXCEPT !.userRetries = Requeued(db[t]).userRetries + 1]
    BY <2>1
  <2> QED  BY <1>2, <2>1, <2>2, <2>3 DEF Retryable, Requeued
<1>3. ASSUME RetryTask(t), ~Retryable(t) PROVE AllSame
  BY <1>3 DEF RetryTask
<1>4. ASSUME DeleteTask(t) PROVE Wrote(t, "deleted", NoCid, FALSE, 0) /\ OthersSame(t)
  BY <1>4 DEF DeleteTask, DeletedRow, NoRow, NewRow
<1>5. ASSUME DeadlinePasses(t) PROVE AllSame
  BY <1>5 DEF DeadlinePasses
<1> QED  BY <1>1, <1>2, <1>3, <1>4, <1>5

\* The transaction of a completion with a review writes two rows.
LEMMA ChainEffects ==
    ASSUME TypeOK, NEW t \in Task, Exists(t), NEW child \in Task, IsNext(child),
           CompleteTaskWithChild(t, child)
    PROVE  /\ child # t /\ ~Exists(child)
           /\ Wrote(t, "completed", db[t].cid, db[t].ready, db[t].userRetries)
           /\ Wrote(child, "pending", NoCid, FALSE, 0)
           /\ \A u \in Task \ {t, child} : Same(u)
<1>1. child # t /\ ~Exists(child)
  BY DEF IsNext, Exists, NotARow
<1>2. /\ db'[t] = [db[t] EXCEPT !.status = "completed"] /\ db'[child] = NewRow(FALSE, t)
      /\ \A u \in Task \ {t, child} : db'[u] = db[u]
  BY <1>1, RowIs DEF CompleteTaskWithChild, Updated
<1> QED  BY <1>1, <1>2, RowIs DEF Same, Wrote, Row, NewRow
----------------------------------------------------------------------------
(* Moving through a phase.                                                 *)

LEMMA TurnIs ==
    ASSUME TypeOK, NEW t \in Task
    PROVE  /\ Turn(t) => t \in todo /\ \A u \in Task : u # t => ~Turn(u)
           /\ BootTurn(t) => t \in todo /\ \A u \in Task : u # t => ~BootTurn(u)
BY OneTurn DEF Turn, BootTurn

\* A listed task exists.
LEMMA ListedExist ==
    ASSUME TypeOK, SnapInv, NEW t \in todo
    PROVE  t \in Task /\ Exists(t) /\ db[t].status \notin {"absent", "deleted"}
<1>1. t \in Task /\ phase \in Phase
  BY DEF TypeOK, OrchestratorTypeOK
<1>2. CASE ~InHand(t)
  BY <1>1, <1>2 DEF SnapInv, Fresh, Listed, Exists, NotARow, Phase
<1>3. CASE InHand(t)
  BY <1>1, <1>3 DEF SnapInv, InHand, HandOK, Exists, NotARow, At
<1> QED  BY <1>2, <1>3

\* The next turn is of a task that nobody has touched.
LEMMA TurnKeeps ==
    ASSUME TypeOK, SnapInv, NEW t \in Task, Turn(t), phase # "boot",
           \A u \in todo \ {t} : Same(u), Advance(t)
    PROVE  SnapInv'
<1>1. phase \in Phase /\ todo \subseteq Task /\ t \in todo
  BY TurnIs DEF TypeOK, OrchestratorTypeOK
<1>2. \/ todo = {t} /\ phase' = NextPhase(phase) /\ step' = "list"
      \/ todo # {t} /\ phase' = phase /\ step' = "item"
  BY DEF Advance
<1>3. phase' \in Phase /\ phase' # "boot" /\ step' \in {"list", "item"} /\ step' \in Steps[phase']
  BY <1>1, <1>2 DEF NextPhase, Phase, Steps
<1>4. \A u : ~InHand(u)'
  BY <1>3 DEF InHand, At
<1>5. ASSUME NEW u \in todo' PROVE Fresh(u)'
  <2>1. u \in todo /\ u # t /\ u \in Task /\ phase' = phase /\ snap'[u] = snap[u]
    BY <1>1, <1>2 DEF Advance, TypeOK, OrchestratorTypeOK
  <2>2. ~InHand(u)
    BY <2>1, TurnIs DEF InHand, At
  <2> QED  BY <2>1, <2>2 DEF SnapInv, Fresh, Same, Wrote
<1>6. step' = "list" => todo' = {}
  BY <1>1, <1>2 DEF Advance
<1>7. ~HasContainer' /\ step' # "start" /\ step' # "list_provisioning"
  BY <1>3 DEF HasContainer, At
<1> QED  BY <1>3, <1>4, <1>5, <1>6, <1>7 DEF SnapInv

LEMMA AdvanceKeeps ==
    ASSUME TypeOK, SnapInv, NEW t \in Task, Turn(t), phase # "boot", OthersSame(t), Advance(t)
    PROVE  SnapInv'
BY TurnKeeps DEF OthersSame, TypeOK, OrchestratorTypeOK

\* The steps before the first write to the row at hand.
Before == {"item", "requeue", "promote", "kill", "complete_chain", "complete"}

\* To another step, at which the row at hand is still untouched...
LEMMA GotoKeeps ==
    ASSUME TypeOK, SnapInv, NEW t \in Task, Turn(t), phase # "boot", AllSame,
           step \in Before \cup {"clear"},
           NEW s \in (Before \cup {"clear"}) \cap Steps[phase], Goto(s),
           snap[t].cid # NoCid \/ phase = "running"
    PROVE  SnapInv'
<1>1. phase' = phase /\ step' = s /\ UNCHANGED <<todo, snap>>
  BY DEF Goto
<1>2. \A u : ~InHand(u) /\ ~InHand(u)'
  BY <1>1 DEF InHand, Before, At
<1>3. \A u \in todo' : Fresh(u)'
  BY <1>1, <1>2 DEF SnapInv, Fresh, AllSame, Same, Wrote, TypeOK, OrchestratorTypeOK
<1>4. HasContainer' => \A u \in todo' : Turn(u)' => snap'[u].cid # NoCid
  <2>1. ASSUME NEW u \in todo, Turn(u) PROVE u = t
    BY <2>1, TurnIs DEF TypeOK, OrchestratorTypeOK
  <2> QED  BY <1>1, <2>1 DEF HasContainer, At, Turn
<1> QED  BY <1>1, <1>2, <1>3, <1>4 DEF SnapInv, Before

\* ... and to one at which it has been written.
LEMMA GotoHandKeeps ==
    ASSUME TypeOK, SnapInv, NEW t \in Task, Turn(t), phase # "boot", OthersSame(t),
           NEW s \in {"gate", "run", "start", "fail"} \cap Steps[phase], Goto(s),
           HandOK(t)', s = "start" => hand'.cid # NoCid
    PROVE  SnapInv'
<1>1. phase' = phase /\ step' = s /\ UNCHANGED <<todo, snap>>
  BY DEF Goto
<1>2. ASSUME NEW u \in todo, u # t PROVE ~InHand(u)' /\ Fresh(u)'
  <2>1. u \in Task /\ ~Turn(u)
    BY <1>2, TurnIs DEF TypeOK, OrchestratorTypeOK
  <2>2. ~InHand(u) /\ ~InHand(u)'
    BY <1>1, <2>1 DEF InHand, At, Turn
  <2> QED  BY <1>1, <1>2, <2>1, <2>2 DEF SnapInv, Fresh, OthersSame, Same, Wrote
<1>3. InHand(t)'
  BY <1>1 DEF InHand, Turn
<1>4. ~HasContainer'
  BY <1>1 DEF HasContainer, At
<1>5. \A u \in todo' : (InHand(u)' => u = t)
  BY <1>1, <1>2
<1>6. \A u \in todo' : (InHand(u) => HandOK(u))'
  BY <1>5
<1>7. \A u \in todo' : (~InHand(u) => Fresh(u))'
  BY <1>1, <1>2, <1>3
<1> QED  BY <1>1, <1>4, <1>6, <1>7 DEF SnapInv
----------------------------------------------------------------------------
(* What the goroutine does to the row at hand.                             *)

\* A write that may fail.
Tried(t, write) == write \/ ("store" \in FaultKinds /\ Same(t))

OpensGate(t) ==
    /\ \/ step = "gate"
       \/ At("cancelled", "item") /\ db[t].cid = NoCid
    /\ phase = "cancelled" => db[t].status = "cancelled"
    /\ phase # "cancelled" => db[t].status = "failed"
    /\ Wrote(t, db[t].status, db[t].cid, TRUE, db[t].userRetries)
    /\ UNCHANGED running

Cleans(t) ==
    /\ At("cancelled", "clear") /\ db[t].status = "cancelled" /\ db[t].cid # NoCid
    /\ Tried(t, Wrote(t, "cancelled", NoCid, db[t].ready, db[t].userRetries))
    /\ Release

Requeues(t) ==
    /\ phase = "recovering" /\ db[t].status = "recovering"
    /\ \/ step = "item" /\ db[t].cid = NoCid /\ UNCHANGED running
       \/ step = "requeue" /\ db[t].cid # NoCid /\ Release
    /\ Tried(t, Wrote(t, "pending", NoCid, FALSE, db[t].userRetries))

Promotes(t) ==
    /\ At("recovering", "promote") /\ db[t].status = "recovering" /\ db[t].cid # NoCid
    /\ Wrote(t, "running", db[t].cid, db[t].ready, db[t].userRetries)
    /\ UNCHANGED running

Completes(t) ==
    /\ phase \in {"recovering", "running"} /\ db[t].status = phase /\ db[t].cid # NoCid
    /\ \E s \in {"completed", "failed"} :
         /\ \/ step = "complete" /\ s = FinalStatus(hand.report)
            \/ step = "complete_chain" /\ s = "completed"
         /\ Wrote(t, s, db[t].cid, db[t].ready, db[t].userRetries)
    /\ Release

Assigns(t) ==
    /\ At("dispatch", "item") /\ db[t].status = "pending"
    /\ Wrote(t, "provisioning", db[t].cid, db[t].ready, db[t].userRetries)
    /\ UNCHANGED running

Starts(t) ==
    /\ At("dispatch", "start") /\ db[t].status = "provisioning" /\ hand.cid # NoCid
    /\ Wrote(t, "running", hand.cid, db[t].ready, db[t].userRetries)
    /\ Acquire

Fails(t) ==
    /\ At("dispatch", "fail") /\ db[t].status \in {"pending", "provisioning"}
    /\ Wrote(t, "failed", db[t].cid, db[t].ready, db[t].userRetries)
    /\ UNCHANGED running

Marks(t) ==
    /\ At("boot", "item") /\ db[t].status \in {"running", "provisioning"}
    /\ Wrote(t, "recovering", db[t].cid, db[t].ready, db[t].userRetries)

\* The review of a completed task.
Reviews(t, child) ==
    /\ step = "complete_chain" /\ ~Exists(child) /\ db[child].status = "absent"
    /\ Wrote(child, "pending", NoCid, FALSE, 0)

WritesRow(t) ==
    \/ OpensGate(t) \/ Cleans(t) \/ Requeues(t) \/ Promotes(t) \/ Completes(t)
    \/ Assigns(t) \/ Starts(t) \/ Fails(t)

Moved ==
    \/ AllSame /\ (phase = "boot" \/ UNCHANGED running)
    \/ \E t \in Task :
         \/ phase # "boot" /\ Turn(t) /\ WritesRow(t) /\ OthersSame(t)
         \/ Marks(t) /\ BootTurn(t) /\ OthersSame(t)
         \/ /\ phase # "boot" /\ Turn(t) /\ Completes(t)
            /\ \E child \in Task \ {t} : Reviews(t, child) /\ \A u \in Task \ {t, child} : Same(u)

\* The row at hand before its first write.
LEMMA AtHand ==
    ASSUME TypeOK, SnapInv, NEW t \in Task, Turn(t), phase # "boot", step \in Before \cup {"clear"}
    PROVE  /\ db[t].status \in Listed[phase] /\ db[t].status = snap[t].status
           /\ db[t].cid = snap[t].cid /\ Exists(t)
           /\ HasContainer => db[t].cid # NoCid
<1>1. t \in todo /\ ~InHand(t)
  BY TurnIs DEF InHand, At, Before
<1> QED  BY <1>1, ListedExist DEF SnapInv, Fresh

\* ... and after it.
LEMMA AfterWrite ==
    ASSUME TypeOK, SnapInv, NEW t \in Task, Turn(t), phase # "boot",
           step \in {"gate", "run", "start", "fail"}
    PROVE  HandOK(t) /\ Exists(t)
BY TurnIs, ListedExist DEF InHand, SnapInv

\* monitorCancelled
LEMMA CancelledPhase ==
    ASSUME TypeOK, SnapInv, NEW t \in Task, CleanUnassigned(t) \/ CleanStop(t) \/ CleanClear(t)
    PROVE  Moved /\ SnapInv'
<1> USE DEF At
<1>1. Turn(t) /\ phase = "cancelled" /\ step \in {"item", "clear"}
  BY DEF CleanUnassigned, CleanStop, CleanClear
<1>2. /\ db[t].status = "cancelled" /\ db[t].cid = snap[t].cid /\ Exists(t)
      /\ step = "clear" => db[t].cid # NoCid
  BY <1>1, AtHand DEF Before, Listed, HasContainer
<1>3. UNCHANGED db => AllSame /\ OthersSame(t) /\ Same(t)
  BY MoreEffects DEF AllSame, OthersSame
<1>4. CASE CleanUnassigned(t)
  <2>1. AllSame \/ (Wrote(t, db[t].status, db[t].cid, TRUE, db[t].userRetries) /\ OthersSame(t))
    BY <1>2, <1>3, <1>4, Effects DEF CleanUnassigned, BestEffort
  <2>2. OthersSame(t) /\ Advance(t) /\ step = "item" /\ snap[t].cid = NoCid /\ UNCHANGED running
    BY <1>4, <2>1 DEF CleanUnassigned, AllSame, OthersSame
  <2>3. Moved
    BY <1>1, <1>2, <2>1, <2>2 DEF Moved, WritesRow, OpensGate
  <2> QED  BY <1>1, <2>2, <2>3, AdvanceKeeps
<1>5. CASE CleanStop(t)
  <2>1. AllSame /\ UNCHANGED running /\ Goto("clear") /\ snap[t].cid # NoCid
    BY <1>3, <1>5 DEF CleanStop
  <2>2. "clear" \in Steps[phase]
    BY <1>1 DEF Steps
  <2> QED  BY <1>1, <2>1, <2>2, GotoKeeps DEF Moved, Before
<1>6. CASE CleanClear(t)
  <2>1. /\ \/ Wrote(t, "cancelled", NoCid, db[t].ready, db[t].userRetries)
           \/ "store" \in FaultKinds /\ Same(t)
        /\ OthersSame(t)
    BY <1>2, <1>3, <1>6, Effects DEF CleanClear, BestEffort, Breaks
  <2>2. step = "clear" /\ Release /\ Goto("gate")
    BY <1>6 DEF CleanClear
  <2>3. Moved
    BY <1>1, <1>2, <2>1, <2>2 DEF Moved, WritesRow, Cleans, Tried
  <2>4. HandOK(t)' /\ "gate" \in Steps[phase]
    BY <1>1, <1>2, <2>1, <2>2 DEF HandOK, Goto, Wrote, Same, Steps
  <2> QED  BY <1>1, <2>1, <2>2, <2>3, <2>4, GotoHandKeeps
<1> QED  BY <1>4, <1>5, <1>6

LEMMA GateStep ==
    ASSUME TypeOK, SnapInv, NEW t \in Task, OpenGate(t)
    PROVE  Moved /\ SnapInv'
<1>1. phase \in {"cancelled", "recovering", "running"} /\ Turn(t) /\ step = "gate"
  BY DEF OpenGate, SnapInv, Steps, TypeOK, OrchestratorTypeOK, Phase
<1>2. HandOK(t) /\ Exists(t)
  BY <1>1, AfterWrite
<1>3. \/ AllSame
      \/ Wrote(t, db[t].status, db[t].cid, TRUE, db[t].userRetries) /\ OthersSame(t)
  BY <1>2, Effects, MoreEffects DEF OpenGate, BestEffort
<1>4. OthersSame(t) /\ Advance(t) /\ UNCHANGED running
  BY <1>3 DEF OpenGate, AllSame, OthersSame
<1>5. Moved
  BY <1>1, <1>2, <1>3, <1>4 DEF Moved, WritesRow, OpensGate, HandOK
<1> QED  BY <1>1, <1>4, <1>5, AdvanceKeeps

\* The answer of an inspection moves the goroutine on.
LEMMA InspectKeeps ==
    ASSUME TypeOK, SnapInv, NEW t \in Task, Turn(t), phase # "boot", UNCHANGED db,
           step = "item", snap[t].cid # NoCid \/ phase = "running",
           NEW act \in Before \cap Steps[phase], Advance(t) \/ Goto(act)
    PROVE  SnapInv'
<1>1. AllSame /\ OthersSame(t)
  BY MoreEffects DEF AllSame, OthersSame
<1>2. step \in Before \cup {"clear"}
  BY DEF Before
<1> QED  BY <1>1, <1>2, AdvanceKeeps, GotoKeeps

\* monitorRecovering
LEMMA RecoveringPhase ==
    ASSUME TypeOK, SnapInv, NEW t \in Task,
           RequeueUnassigned(t) \/ Probe(t) \/ Requeue(t) \/ Promote(t)
    PROVE  Moved /\ SnapInv'
<1> USE DEF At
<1>1. Turn(t) /\ phase = "recovering" /\ step \in {"item", "requeue", "promote"}
  BY DEF RequeueUnassigned, Probe, Requeue, Promote
<1>2. /\ db[t].status = "recovering" /\ db[t].cid = snap[t].cid /\ Exists(t)
      /\ step \in {"requeue", "promote"} => db[t].cid # NoCid
  BY <1>1, AtHand DEF Before, Listed, HasContainer
<1>3. UNCHANGED db => AllSame /\ OthersSame(t) /\ Same(t)
  BY MoreEffects DEF AllSame, OthersSame
<1>4. CASE RequeueUnassigned(t) \/ Requeue(t)
  <2>1. /\ Tried(t, Wrote(t, "pending", NoCid, FALSE, db[t].userRetries))
        /\ OthersSame(t)
    BY <1>2, <1>3, <1>4, Effects
       DEF RequeueUnassigned, Requeue, BestEffort, Breaks, Tried
  <2>2. /\ Advance(t)
        /\ \/ step = "item" /\ snap[t].cid = NoCid /\ UNCHANGED running
           \/ step = "requeue" /\ Release
    BY <1>4 DEF RequeueUnassigned, Requeue
  <2>3. Moved
    BY <1>1, <1>2, <2>1, <2>2 DEF Moved, WritesRow, Requeues
  <2> QED  BY <1>1, <2>1, <2>2, <2>3, AdvanceKeeps
<1>5. CASE Promote(t)
  <2>1. /\ AllSame \/ Wrote(t, "running", db[t].cid, db[t].ready, db[t].userRetries)
        /\ OthersSame(t)
    BY <1>2, <1>3, <1>5, Effects DEF Promote, BestEffort
  <2>2. Advance(t) /\ step = "promote" /\ UNCHANGED running
    BY <1>5 DEF Promote
  <2>3. Moved
    BY <1>1, <1>2, <2>1, <2>2 DEF Moved, WritesRow, Promotes
  <2> QED  BY <1>1, <2>1, <2>2, <2>3, AdvanceKeeps
<1>6. CASE Probe(t)
  <2>1. /\ AllSame /\ UNCHANGED <<db, running>> /\ step = "item" /\ snap[t].cid # NoCid
        /\ Advance(t) \/ \E act \in {"requeue", "promote", "complete_chain", "complete"} : Goto(act)
    BY <1>3, <1>6 DEF Probe, InspectFailed, HandleCompletion
  <2>2. {"requeue", "promote", "complete_chain", "complete"} \subseteq Before \cap Steps[phase]
    BY <1>1 DEF Before, Steps
  <2>3. SnapInv'
    BY <1>1, <2>1, <2>2, InspectKeeps
  <2> QED  BY <2>1, <2>3 DEF Moved
<1> QED  BY <1>4, <1>5, <1>6

\* monitorRunning, up to the completion.
LEMMA RunningPhase ==
    ASSUME TypeOK, SnapInv, NEW t \in Task, WatchTimedOut(t) \/ Watch(t) \/ KillTask(t)
    PROVE  Moved /\ SnapInv'
<1> USE DEF At
<1>1. /\ Turn(t) /\ phase = "running" /\ step \in {"item", "kill"}
      /\ UNCHANGED <<db, running>>
  BY DEF WatchTimedOut, Watch, KillTask
<1>2. AllSame
  BY <1>1, MoreEffects
<1>3. {"kill", "complete_chain", "complete"} \subseteq Before \cap Steps[phase]
  BY <1>1 DEF Before, Steps
<1>4. CASE WatchTimedOut(t) \/ Watch(t)
  <2>1. /\ step = "item"
        /\ Advance(t) \/ \E act \in {"kill", "complete_chain", "complete"} : Goto(act)
    BY <1>4 DEF WatchTimedOut, Watch, InspectFailed, HandleCompletion
  <2>2. SnapInv'
    BY <1>1, <1>3, <2>1, InspectKeeps
  <2> QED  BY <1>1, <1>2, <2>2 DEF Moved
<1>5. CASE KillTask(t)
  <2>1. step \in Before \cup {"clear"} /\ Goto("complete")
    BY <1>5 DEF KillTask, Before
  <2>2. SnapInv'
    BY <1>1, <1>2, <1>3, <2>1, GotoKeeps
  <2> QED  BY <1>1, <1>2, <2>2 DEF Moved
<1> QED  BY <1>4, <1>5

\* lifecycle.Complete
LEMMA Completion ==
    ASSUME TypeOK, SnapInv, RowInv, NEW t \in Task, CompleteChain(t) \/ Complete(t)
    PROVE  Moved /\ SnapInv'
<1>1. /\ Turn(t) /\ step \in {"complete_chain", "complete"} /\ phase \in {"recovering", "running"}
      /\ phase # "boot"
  BY DEF CompleteChain, Complete, SnapInv, Steps, TypeOK, OrchestratorTypeOK, Phase
<1>2. /\ db[t].status = phase /\ db[t].cid = snap[t].cid /\ Exists(t)
      /\ step \in Before \cup {"clear"}
  BY <1>1, AtHand DEF Before, Listed
<1>3. /\ db[t].cid # NoCid /\ ~db[t].ready
      /\ snap[t].cid # NoCid
  BY <1>1, <1>2, AtHand DEF HasContainer, RowInv, RowOK
<1>4. UNCHANGED db => AllSame /\ OthersSame(t)
  BY MoreEffects DEF AllSame, OthersSame
<1>5. ASSUME AllSame, UNCHANGED running, Advance(t) \/ Goto("complete")
      PROVE  Moved /\ SnapInv'
  <2>1. OthersSame(t)
    BY <1>5 DEF AllSame, OthersSame
  <2>2. "complete" \in (Before \cup {"clear"}) \cap Steps[phase]
    BY <1>1 DEF Before, Steps
  <2>3. SnapInv'
    BY <1>1, <1>2, <1>3, <1>5, <2>1, <2>2, AdvanceKeeps, GotoKeeps
  <2> QED  BY <1>5, <2>3 DEF Moved
<1>6. CASE CompleteChain(t)
  <2>1. CASE UNCHANGED <<db, running>> /\ Goto("complete")
    BY <1>4, <1>5, <2>1
  <2>2. ASSUME NEW child \in Task, IsNext(child), CompleteTaskWithChild(t, child),
               Release, Advance(t)
        PROVE  Moved /\ SnapInv'
    <3>1. /\ child # t /\ ~Exists(child)
          /\ Wrote(t, "completed", db[t].cid, db[t].ready, db[t].userRetries)
          /\ Wrote(child, "pending", NoCid, FALSE, 0)
          /\ \A u \in Task \ {t, child} : Same(u)
      BY <1>2, <2>2, ChainEffects
    <3>2. child \notin todo /\ todo \subseteq Task
      BY <3>1, ListedExist DEF TypeOK, OrchestratorTypeOK
    <3>3. SnapInv'
      BY <1>1, <2>2, <3>1, <3>2, TurnKeeps
    <3>4. step = "complete_chain" /\ db[child].status = "absent"
      BY <1>6, <2>2 DEF CompleteChain, IsNext
    <3>5. Completes(t) /\ Reviews(t, child)
      BY <1>1, <1>2, <1>3, <2>2, <3>1, <3>4 DEF Completes, Reviews
    <3>6. Moved
      BY <1>1, <3>1, <3>5 DEF Moved
    <3> QED  BY <3>3, <3>6
  <2>3. \/ UNCHANGED <<db, running>> /\ Goto("complete")
        \/ /\ Release /\ Advance(t)
           /\ \E child \in Task : IsNext(child) /\ CompleteTaskWithChild(t, child)
    BY <1>6 DEF CompleteChain
  <2> QED  BY <2>1, <2>2, <2>3
<1>7. CASE Complete(t)
  <2>1. CASE UNCHANGED <<db, running>> /\ Advance(t)
    BY <1>4, <1>5, <2>1
  <2>2. ASSUME CompleteTask(t, FinalStatus(hand.report)), Release,
               IF hand.report = "failed" THEN Goto("gate") ELSE Advance(t)
        PROVE  Moved /\ SnapInv'
    <3>1. /\ Wrote(t, FinalStatus(hand.report), db[t].cid, db[t].ready, db[t].userRetries)
          /\ OthersSame(t)
      BY <1>2, <2>2, Effects DEF CompleteTask
    <3>2. FinalStatus(hand.report) \in {"completed", "failed"} /\ step = "complete"
      BY <1>7 DEF FinalStatus, Complete
    <3>3. Moved
      BY <1>1, <1>2, <1>3, <2>2, <3>1, <3>2 DEF Moved, WritesRow, Completes
    <3>4. CASE hand.report = "failed"
      <4>1. db'[t].status = "failed" /\ ~db'[t].ready
        BY <1>3, <3>1, <3>4 DEF FinalStatus, Wrote
      <4>2. HandOK(t)' /\ "gate" \in {"gate", "run", "start", "fail"} \cap Steps[phase] /\ Goto("gate")
        BY <1>1, <2>2, <3>4, <4>1 DEF HandOK, Goto, Steps
      <4> QED  BY <1>1, <3>1, <3>3, <4>2, GotoHandKeeps
    <3>5. CASE hand.report # "failed"
      BY <1>1, <2>2, <3>1, <3>3, <3>5, AdvanceKeeps
    <3> QED  BY <3>4, <3>5
  <2> QED  BY <1>7, <2>1, <2>2 DEF Complete
<1> QED  BY <1>6, <1>7

\* dispatchPending
LEMMA DispatchPhase ==
    ASSUME TypeOK, SnapInv, NEW t \in Task,
           Assign(t) \/ RunAgent(t) \/ Start(t) \/ FailDispatch(t)
    PROVE  Moved /\ SnapInv'
<1> USE DEF At
<1>1. Turn(t) /\ phase = "dispatch" /\ step \in {"item", "run", "start", "fail"}
  BY DEF Assign, RunAgent, Start, FailDispatch
<1>2. UNCHANGED db => AllSame /\ OthersSame(t) /\ Same(t)
  BY MoreEffects DEF AllSame, OthersSame
<1>3. ASSUME NEW s \in {"run", "start", "fail"}, Goto(s), OthersSame(t),
             s \in {"run", "start"} => db'[t].status = "provisioning",
             s = "fail" => db'[t].status \in {"pending", "provisioning"},
             s = "start" => hand'.cid # NoCid
      PROVE  SnapInv'
  <2>1. HandOK(t)' /\ s \in {"gate", "run", "start", "fail"} \cap Steps[phase]
    BY <1>1, <1>3 DEF HandOK, Goto, Steps
  <2> QED  BY <1>1, <1>3, <2>1, GotoHandKeeps
<1>4. CASE Assign(t)
  <2>1. db[t].status = "pending" /\ Exists(t)
    BY <1>1, <1>4, AtHand DEF Assign, Before, Listed
  <2>2. /\ UNCHANGED running
        /\ \/ /\ Wrote(t, "provisioning", db[t].cid, db[t].ready, db[t].userRetries)
              /\ OthersSame(t) /\ Goto("run")
           \/ AllSame /\ OthersSame(t) /\ Same(t) /\ Goto("fail")
    BY <1>2, <1>4, <2>1, Effects DEF Assign, AssignTask
  <2>3. SnapInv'
    BY <1>3, <2>1, <2>2 DEF Wrote, Same
  <2>4. Moved
    BY <1>1, <1>4, <2>1, <2>2 DEF Moved, WritesRow, Assigns, Assign
  <2> QED  BY <2>3, <2>4
<1>5. CASE RunAgent(t)
  <2>1. AllSame /\ OthersSame(t) /\ Same(t) /\ UNCHANGED running
    BY <1>2, <1>5 DEF RunAgent
  <2>2. db'[t].status = "provisioning"
    BY <1>1, <1>5, <2>1, AfterWrite DEF RunAgent, HandOK, Same, Wrote
  <2>3. hand \in [cid : Cid \cup {NoCid}, report : Report]
    BY DEF TypeOK, OrchestratorTypeOK
  <2>4. \/ Goto("start") /\ hand'.cid # NoCid
        \/ Goto("fail")
    BY <1>5, <2>3 DEF RunAgent, Cid, NoCid
  <2>5. SnapInv'
    BY <1>3, <2>1, <2>2, <2>4
  <2> QED  BY <2>1, <2>5 DEF Moved
<1>6. CASE Start(t)
  <2>1. /\ step = "start" /\ hand.cid # NoCid /\ db[t].status = "provisioning" /\ Exists(t)
    BY <1>1, <1>6, AfterWrite DEF Start, HandOK, SnapInv
  <2>2. \/ /\ Wrote(t, "running", hand.cid, db[t].ready, db[t].userRetries)
           /\ OthersSame(t) /\ Advance(t) /\ Acquire
        \/ AllSame /\ OthersSame(t) /\ Same(t) /\ Goto("fail") /\ UNCHANGED running
    BY <1>2, <1>6, <2>1, Effects DEF Start
  <2>3. SnapInv'
    <3>1. CASE Advance(t)
      BY <1>1, <2>2, <3>1, AdvanceKeeps
    <3>2. CASE Same(t) /\ OthersSame(t) /\ Goto("fail")
      BY <1>3, <2>1, <3>2 DEF Same, Wrote
    <3> QED  BY <2>2, <3>1, <3>2
  <2>4. Moved
    BY <1>1, <2>1, <2>2 DEF Moved, WritesRow, Starts
  <2> QED  BY <2>3, <2>4
<1>7. CASE FailDispatch(t)
  <2>1. step = "fail" /\ db[t].status \in {"pending", "provisioning"} /\ Exists(t)
    BY <1>1, <1>7, AfterWrite DEF FailDispatch, HandOK
  <2>2. /\ \/ Wrote(t, "failed", db[t].cid, db[t].ready, db[t].userRetries)
           \/ AllSame
        /\ OthersSame(t) /\ Advance(t) /\ UNCHANGED running
    BY <1>2, <1>7, <2>1, Effects DEF FailDispatch, BestEffort
  <2>3. Moved
    BY <1>1, <2>1, <2>2 DEF Moved, WritesRow, Fails
  <2> QED  BY <1>1, <2>2, <2>3, AdvanceKeeps
<1> QED  BY <1>4, <1>5, <1>6, <1>7

\* The list of a phase of the tick.
LEMMA IterateKeeps ==
    ASSUME TypeOK, phase # "boot", AllSame, NEW S \in SUBSET Task,
           \A u \in S : db[u].status \in Listed[phase], Iterate(S)
    PROVE  SnapInv'
<1>1. phase \in Phase /\ db \in [Task -> Row]
  BY DEF TypeOK, OrchestratorTypeOK, StoreTypeOK
<1>2. \/ S = {} /\ phase' = NextPhase(phase) /\ step' = "list" /\ todo' = {}
      \/ phase' = phase /\ step' = "item" /\ todo' = S
  BY DEF Iterate
<1>3. phase' # "boot" /\ step' \in {"list", "item"} /\ step' \in Steps[phase']
  BY <1>1, <1>2 DEF NextPhase, Phase, Steps
<1>4. \A u : ~InHand(u)'
  BY <1>3 DEF InHand, At
<1>5. ASSUME NEW u \in todo' PROVE Fresh(u)'
  <2>1. u \in S /\ phase' = phase
    BY <1>2, <1>5
  <2>2. snap'[u] = db[u] /\ Same(u)
    BY <2>1 DEF Iterate, AllSame
  <2> QED  BY <2>1, <2>2 DEF Fresh, Same, Wrote
<1>6. step' \in {"list", "list_provisioning"} => todo' = {}
  BY <1>2
<1>7. ~HasContainer' /\ step' # "start"
  BY <1>3 DEF HasContainer, At
<1> QED  BY <1>3, <1>4, <1>5, <1>6, <1>7 DEF SnapInv

LEMMA Lists ==
    ASSUME TypeOK, SnapInv, CancelledList \/ RecoveringList \/ RunningList \/ DispatchList
    PROVE  Moved /\ SnapInv'
<1> USE DEF At, Rows
<1>1. AllSame /\ UNCHANGED running /\ phase # "boot"
  BY Unchanged DEF CancelledList, RecoveringList, RunningList, DispatchList, List
<1>2. PICK S \in SUBSET Task : Iterate(S) /\ \A u \in S : db[u].status \in Listed[phase]
  <2>1. CASE CancelledList
    BY <2>1 DEF CancelledList, List, Listed
  <2>2. CASE RecoveringList \/ RunningList
    BY <2>2 DEF RecoveringList, RunningList, List, Listed
  <2>3. CASE DispatchList
    <3>1. \/ Iterate({})
          \/ phase = "dispatch" /\ Iterate(Oldest(Rows("pending"), MaxConcurrent - running))
      BY <2>3 DEF DispatchList, List
    <3>2. \A n : Oldest(Rows("pending"), n) \subseteq Rows("pending")
      BY DEF Oldest
    <3>3. CASE Iterate({})
      BY <3>3
    <3>4. CASE phase = "dispatch" /\ Iterate(Oldest(Rows("pending"), MaxConcurrent - running))
      BY <3>2, <3>4 DEF Listed
    <3> QED  BY <3>1, <3>3, <3>4
  <2> QED  BY <2>1, <2>2, <2>3
<1> QED  BY <1>1, <1>2, IterateKeeps DEF Moved

\* recoverOnStartup
LEMMA BootAdvanceKeeps ==
    ASSUME TypeOK, SnapInv, NEW t \in Task, phase = "boot", BootTurn(t), OthersSame(t),
           BootAdvance(t)
    PROVE  SnapInv'
<1>1. \/ todo' = {} /\ phase' = "cancelled" /\ step' = "list"
      \/ phase' = "boot" /\ step' = "item"
  BY DEF BootAdvance, BootDone, NextPhase
<1>2. \A u : ~InHand(u)'
  BY <1>1 DEF InHand, At
<1>3. ASSUME NEW u \in todo' PROVE Fresh(u)'
  <2>1. u \in todo /\ u # t /\ u \in Task /\ phase' = phase /\ snap'[u] = snap[u]
    BY <1>1, <1>3 DEF BootAdvance, TypeOK, OrchestratorTypeOK
  <2>2. ~InHand(u)
    BY <2>1, TurnIs DEF InHand
  <2> QED  BY <2>1, <2>2 DEF SnapInv, Fresh, OthersSame, Same, Wrote
<1>4. ~HasContainer' /\ step' # "start" /\ step' # "list_provisioning" /\ step' \in Steps[phase']
  BY <1>1 DEF HasContainer, At, Steps
<1> QED  BY <1>1, <1>2, <1>3, <1>4 DEF SnapInv

LEMMA BootPhase ==
    ASSUME TypeOK, SnapInv, RowInv,
           \/ BootListRunning \/ BootListProvisioning \/ BootListRecovering
           \/ \E t \in Task : BootMark(t) \/ BootClear(t)
    PROVE  Moved /\ SnapInv'
<1> USE DEF At
<1>1. phase = "boot"
  BY DEF BootListRunning, BootListProvisioning, BootListRecovering, BootMark, BootClear
<1>2. UNCHANGED db => AllSame
  BY Unchanged
<1>3. ASSUME AllSame PROVE Moved /\ \A t \in Task : OthersSame(t) /\ Same(t)
  BY <1>1, <1>3 DEF Moved, AllSame, OthersSame
<1>4. ASSUME BootListRunning \/ BootListProvisioning PROVE Moved /\ SnapInv'
  <2>1. UNCHANGED <<db, phase>> /\ step \in {"list", "list_provisioning"}
        /\ step' \in {"list_provisioning", "list_recovering"}
    BY <1>4 DEF BootListRunning, BootListProvisioning
  <2>2. PICK s \in {"running", "provisioning"} : BootList(Rows(s))
    BY <1>4 DEF BootListRunning, BootListProvisioning
  <2>3. \A u : ~InHand(u) /\ ~InHand(u)'
    BY <2>1 DEF InHand
  <2>4. ASSUME NEW u \in todo' PROVE Fresh(u)'
    <3>1. u \in Task
      BY <2>2, <2>4 DEF BootList, Rows, TypeOK, OrchestratorTypeOK
    <3>2. CASE snap'[u] = db[u] /\ db[u].status = s
      BY <1>1, <2>1, <3>1, <3>2 DEF Fresh, Listed
    <3>3. CASE u \in todo /\ snap'[u] = snap[u]
      BY <2>1, <2>3, <3>1, <3>3 DEF SnapInv, Fresh
    <3> QED  BY <2>2, <2>4, <3>1, <3>2, <3>3 DEF BootList, Rows
  <2>5. ~HasContainer' /\ step' \in Steps[phase'] /\ step' # "start"
    BY <1>1, <2>1 DEF HasContainer, Steps
  <2> QED  BY <1>1, <1>2, <1>3, <2>1, <2>3, <2>4, <2>5 DEF SnapInv
<1>5. CASE BootListRecovering
  <2>1. UNCHANGED <<db, todo, snap>> /\ step = "list_recovering"
    BY <1>5 DEF BootListRecovering
  <2>2. \/ todo = {} /\ phase' = "cancelled" /\ step' = "list"
        \/ phase' = "boot" /\ step' = "item"
    BY <1>5 DEF BootListRecovering, BootListed, BootDone, NextPhase
  <2>3. \A u : ~InHand(u) /\ ~InHand(u)'
    BY <2>1, <2>2 DEF InHand
  <2>4. \A u \in todo' : Fresh(u)'
    BY <1>1, <2>1, <2>2, <2>3 DEF SnapInv, Fresh
  <2>5. ~HasContainer' /\ step' \in Steps[phase'] /\ step' # "start" /\ step' # "list_provisioning"
    BY <2>2 DEF HasContainer, Steps
  <2> QED  BY <1>2, <1>3, <2>1, <2>2, <2>3, <2>4, <2>5 DEF SnapInv
<1>6. ASSUME NEW t \in Task, BootMark(t) PROVE Moved /\ SnapInv'
  <2>1. step = "item" /\ BootTurn(t)
    BY <1>6 DEF BootMark
  <2>2. t \in todo /\ Fresh(t) /\ Exists(t) /\ db[t].status \in {"running", "provisioning"}
    <3>1. t \in todo /\ ~InHand(t)
      BY <2>1, TurnIs DEF InHand
    <3> QED  BY <1>1, <3>1, ListedExist DEF SnapInv, Fresh, Listed
  <2>3. /\ \/ Wrote(t, "recovering", db[t].cid, db[t].ready, db[t].userRetries)
           \/ AllSame
        /\ OthersSame(t)
    BY <1>2, <1>3, <1>6, <2>2, Effects DEF BootMark, BestEffort
  <2>4. Moved
    BY <1>1, <1>3, <2>1, <2>2, <2>3 DEF Moved, Marks
  <2>5. CASE snap[t].status = "provisioning" /\ Goto("clear")
    <3>1. phase' = phase /\ step' = "clear" /\ UNCHANGED <<todo, snap>>
      BY <2>5 DEF Goto
    <3>2. db[t].cid = NoCid /\ db[t].status = "provisioning"
      BY <2>2, <2>5 DEF Fresh, RowInv, RowOK
    <3>3. HandOK(t)'
      BY <2>3, <2>5, <3>1, <3>2 DEF HandOK, AllSame, Same, Wrote
    <3>4. ASSUME NEW u \in todo, u # t PROVE ~InHand(u)' /\ Fresh(u)'
      <4>1. u \in Task /\ ~BootTurn(u)
        BY <2>1, <3>4, TurnIs DEF TypeOK, OrchestratorTypeOK
      <4>2. ~InHand(u) /\ ~InHand(u)'
        BY <1>1, <3>1, <4>1 DEF InHand, BootTurn
      <4> QED  BY <2>3, <3>1, <3>4, <4>1, <4>2 DEF SnapInv, Fresh, OthersSame, Same, Wrote
    <3>5. InHand(t)'
      BY <1>1, <2>1, <3>1 DEF InHand, BootTurn
    <3>6. ~HasContainer' /\ step' \in Steps[phase']
      BY <1>1, <3>1 DEF HasContainer, Steps
    <3>7. \A u \in todo' : (InHand(u)' => u = t)
      BY <3>1, <3>4
    <3>8. \A u \in todo' : (InHand(u) => HandOK(u))'
      BY <3>3, <3>7
    <3>9. \A u \in todo' : (~InHand(u) => Fresh(u))'
      BY <3>1, <3>4, <3>5
    <3> QED  BY <2>4, <3>1, <3>6, <3>8, <3>9 DEF SnapInv
  <2>6. CASE BootAdvance(t)
    BY <1>1, <2>1, <2>3, <2>4, <2>6, BootAdvanceKeeps
  <2> QED  BY <1>6, <2>5, <2>6 DEF BootMark
<1>7. ASSUME NEW t \in Task, BootClear(t) PROVE Moved /\ SnapInv'
  <2>1. BootTurn(t) /\ BootAdvance(t) /\ step = "clear"
    BY <1>7 DEF BootClear
  <2>2. Exists(t) /\ db[t].cid = NoCid
    <3>1. t \in todo /\ InHand(t)
      BY <1>1, <2>1, TurnIs DEF InHand
    <3> QED  BY <2>1, <3>1, ListedExist DEF SnapInv, HandOK
  <2>3. AllSame
    BY <1>2, <1>7, <2>2, Effects DEF BootClear, BestEffort, AllSame, OthersSame, Same
  <2> QED  BY <1>1, <1>3, <2>1, <2>3, BootAdvanceKeeps
<1> QED  BY <1>4, <1>5, <1>6, <1>7

\* Every step of the goroutine is one of these moves.
LEMMA OrchestratorMoves ==
    ASSUME TypeOK, SnapInv, RowInv, OrchestratorNext
    PROVE  Moved /\ SnapInv'
BY CancelledPhase, GateStep, RecoveringPhase, RunningPhase, Completion, DispatchPhase, Lists,
   BootPhase DEF OrchestratorNext
----------------------------------------------------------------------------
(* What the other actors do.                                               *)

Submits(t) == db[t].status = "absent" /\ Wrote(t, "pending", NoCid, FALSE, 0)

Withdraws(t) ==
    /\ db[t].status \in {"pending", "deleted"}
    /\ Wrote(t, "deleted", NoCid, FALSE, 0)

Cancels(t) ==
    /\ \/ db[t].status \in Active
       \/ db[t].status = "cancelled" /\ ~db[t].ready
    /\ Wrote(t, "cancelled", db[t].cid, db[t].ready, db[t].userRetries)

Retries(t) ==
    /\ db[t].ready /\ db[t].status \in {"failed", "cancelled"}
    /\ db[t].userRetries < MaxUserRetries
    /\ Wrote(t, "pending", NoCid, FALSE, db[t].userRetries + 1)

Served ==
    \/ AllSame
    \/ \E t \in Task :
         /\ Submits(t) \/ Retries(t) \/ (Requested /\ (Withdraws(t) \/ Cancels(t)))
         /\ OthersSame(t)

LEMMA HandlersMove ==
    ASSUME TypeOK, RowInv, RequestInv, HandlerNext
    PROVE  Served
<1>1. \A c \in Client : req[c].op \in {"cancel", "delete", "retry"} => req[c].task \in Task
  BY DEF TypeOK, RequestsTypeOK, Request, Idle
<1>2. CASE Create
  <2>1. PICK t \in Task, b \in BOOLEAN : IsNext(t) /\ CreateTask(t, b)
    BY <1>2 DEF Create
  <2> QED  BY <2>1, MoreEffects DEF IsNext, Served, Submits
<1>3. ASSUME NEW c \in Client, DeleteCancels(c) PROVE Served
  <2>1. PICK t \in Task : t = req[c].task
    BY <1>1, <1>3 DEF DeleteCancels
  <2>2. db[t].status \in Active \/ (db[t].status = "cancelled" /\ ~db[t].ready)
    BY <1>3, <2>1 DEF DeleteCancels, RequestInv
  <2>3. Exists(t)
    BY <2>2 DEF Exists, Active, NotARow
  <2>4. Wrote(t, "cancelled", db[t].cid, db[t].ready, db[t].userRetries) /\ OthersSame(t)
    BY <1>3, <2>1, <2>3, Effects DEF DeleteCancels, CancelTask
  <2> QED  BY <1>3, <2>2, <2>4 DEF Served, Cancels, Requested, DeleteCancels
<1>4. ASSUME NEW c \in Client, DeleteDeletes(c) PROVE Served
  <2>1. PICK t \in Task : t = req[c].task
    BY <1>1, <1>4 DEF DeleteDeletes
  <2>2. db[t].status \in {"pending", "deleted"}
    BY <1>4, <2>1 DEF DeleteDeletes, RequestInv
  <2>3. Wrote(t, "deleted", NoCid, FALSE, 0) /\ OthersSame(t)
    BY <1>4, <2>1, MoreEffects DEF DeleteDeletes
  <2> QED  BY <1>4, <2>2, <2>3 DEF Served, Withdraws, Requested, DeleteDeletes
<1>5. ASSUME NEW c \in Client, RetryRequeues(c) PROVE Served
  <2>1. PICK t \in Task : t = req[c].task
    BY <1>1, <1>5 DEF RetryRequeues
  <2>2. \/ /\ db[t].ready /\ Wrote(t, "pending", NoCid, FALSE, db[t].userRetries + 1)
           /\ db[t].userRetries < MaxUserRetries /\ OthersSame(t)
        \/ AllSame
    BY <1>5, <2>1, MoreEffects DEF RetryRequeues
  <2> QED  BY <2>2 DEF Served, Retries, RowInv, RowOK
<1>6. ASSUME NEW c \in Client,
             \/ RequestFails(c)
             \/ \E t \in Task : DeletePreflight(c, t) \/ RetryPreflight(c, t)
      PROVE  Served
  BY <1>6, Unchanged DEF RequestFails, DeletePreflight, RetryPreflight, Served
<1> QED  BY <1>2, <1>3, <1>4, <1>5, <1>6 DEF HandlerNext

LEMMA OutsideMoves ==
    ASSUME TypeOK, Outside \/ Crash \/ UNCHANGED vars
    PROVE  AllSame
<1>1. ASSUME NEW t \in Task, TimePasses(t) PROVE AllSame
  BY <1>1, MoreEffects DEF TimePasses
<1> QED  BY <1>1, Unchanged DEF Outside, AgentStops, Crash, vars

\* A step of anybody keeps the rows sound...
LEMMA RowsKept ==
    ASSUME TypeOK, RowInv, Moved \/ Served
    PROVE  RowInv'
<1>1. ASSUME NEW u \in Task, Same(u) PROVE RowOK(db[u])'
  BY <1>1 DEF RowInv, RowOK, Same, Wrote
<1>2. ASSUME NEW t \in Task, WritesRow(t) \/ Completes(t) \/ Marks(t) PROVE RowOK(db[t])'
  <2> USE DEF RowInv, RowOK, Wrote, Same, NotARow
  <2>1. CASE OpensGate(t)
    BY <2>1 DEF OpensGate
  <2>2. CASE Cleans(t) \/ Requeues(t)
    BY <2>2 DEF Cleans, Requeues, Tried
  <2>3. CASE Promotes(t) \/ Completes(t)
    BY <2>3 DEF Promotes, Completes
  <2>4. CASE Assigns(t) \/ Starts(t) \/ Fails(t) \/ Marks(t)
    BY <2>4 DEF Assigns, Starts, Fails, Marks
  <2> QED  BY <1>2, <2>1, <2>2, <2>3, <2>4 DEF WritesRow
<1>3. ASSUME NEW t \in Task,
             Submits(t) \/ Retries(t) \/ Withdraws(t) \/ Cancels(t)
      PROVE  RowOK(db[t])'
  BY <1>3 DEF RowInv, RowOK, Wrote, NotARow, Submits, Retries, Withdraws, Cancels, Active
<1>4. ASSUME NEW t \in Task, NEW child \in Task, Reviews(t, child) PROVE RowOK(db[child])'
  BY <1>4 DEF Reviews, RowOK, Wrote, NotARow
<1>5. AllSame => RowInv'
  BY <1>1 DEF AllSame, RowInv
<1>6. ASSUME NEW t \in Task, OthersSame(t), RowOK(db[t])' PROVE RowInv'
  BY <1>1, <1>6 DEF OthersSame, RowInv
<1>7. ASSUME NEW t \in Task, NEW child \in Task, RowOK(db[t])', RowOK(db[child])',
             \A u \in Task \ {t, child} : Same(u)
      PROVE  RowInv'
  BY <1>1, <1>7 DEF RowInv
<1>8. CASE Moved
  BY <1>2, <1>4, <1>5, <1>6, <1>7, <1>8 DEF Moved
<1>9. CASE Served
  BY <1>3, <1>5, <1>6, <1>9 DEF Served
<1> QED  BY <1>8, <1>9

\* ... and nobody but the delete handler cancels.
LEMMA StaysUndeleted ==
    ASSUME TypeOK, Undeleted, Moved \/ Served
    PROVE  Rows("cancelled")' = {}
<1>1. SUFFICES ASSUME NEW u \in Task PROVE db'[u].status # "cancelled"
  BY DEF Rows
<1>2. db[u].status # "cancelled"
  BY DEF Undeleted, Rows
<1>3. Same(u) => db'[u].status # "cancelled"
  BY <1>2 DEF Same, Wrote
<1>4. WritesRow(u) \/ Completes(u) \/ Marks(u) => db'[u].status # "cancelled"
  BY <1>2, <1>3
     DEF WritesRow, OpensGate, Cleans, Requeues, Promotes, Completes, Assigns, Starts, Fails,
         Marks, Tried, Wrote
<1>5. Submits(u) \/ Retries(u) \/ (\E t \in Task : Reviews(t, u)) => db'[u].status # "cancelled"
  BY DEF Submits, Retries, Reviews, Wrote
<1>6. ~Requested
  BY DEF Undeleted
<1>7. CASE Moved
  BY <1>3, <1>4, <1>5, <1>7 DEF Moved, AllSame, OthersSame
<1>8. CASE Served
  BY <1>3, <1>5, <1>6, <1>8 DEF Served, AllSame, OthersSame
<1> QED  BY <1>7, <1>8
----------------------------------------------------------------------------
(* The invariant is one.                                                   *)

\* What is done to other rows is no matter to the goroutine.
LEMMA StandStill ==
    ASSUME TypeOK, SnapInv, UNCHANGED orchVars, \A u \in todo : Same(u)
    PROVE  SnapInv'
<1> USE DEF orchVars, goroutine
<1>1. \A u : InHand(u)' <=> InHand(u)
  BY DEF InHand, At, Turn, BootTurn
<1>2. ASSUME NEW u \in todo PROVE (Fresh(u) => Fresh(u)') /\ (HandOK(u) => HandOK(u)')
  BY <1>2 DEF Fresh, HandOK, Same, Wrote
<1>3. HasContainer' <=> HasContainer
  BY DEF HasContainer, At
<1>4. \A u \in todo : (Turn(u)' <=> Turn(u))
  BY DEF Turn
<1>5. \A u \in todo' : (InHand(u) => HandOK(u))'
  BY <1>1, <1>2 DEF SnapInv
<1>6. \A u \in todo' : (~InHand(u) => Fresh(u))'
  BY <1>1, <1>2 DEF SnapInv
<1>7. HasContainer' => \A u \in todo' : Turn(u)' => snap'[u].cid # NoCid
  BY <1>3, <1>4 DEF SnapInv
<1> QED  BY <1>5, <1>6, <1>7 DEF SnapInv

\* No listed task can be retried, if none is cancelled.
LEMMA ListedNotReady ==
    ASSUME TypeOK, SnapInv, RowInv, Undeleted, NEW t \in todo
    PROVE  ~db[t].ready
<1>1. t \in Task /\ phase \in Phase
  BY DEF TypeOK, OrchestratorTypeOK
<1>2. db[t].status # "cancelled" /\ (db[t].ready => db[t].status = "failed")
  BY <1>1 DEF Undeleted, Rows, RowInv, RowOK
<1>3. CASE InHand(t)
  BY <1>1, <1>2, <1>3 DEF SnapInv, InHand, HandOK, At
<1>4. CASE ~InHand(t)
  BY <1>1, <1>2, <1>4 DEF SnapInv, Fresh, Listed, Phase
<1> QED  BY <1>3, <1>4

\* While the goroutine stands still, nobody writes to the rows it has listed.
LEMMA ListedUntouched ==
    ASSUME TypeOK, CalmInv,
           \/ Serve /\ (BetweenTicks \/ (Undeleted /\ ~Requested'))
           \/ Outside \/ UNCHANGED vars
    PROVE  UNCHANGED orchVars /\ \A u \in todo : Same(u)
<1> USE DEF CalmInv
<1>1. CASE Serve /\ BetweenTicks
  BY <1>1 DEF Serve, BetweenTicks, At, SnapInv
<1>2. CASE Serve /\ Undeleted
  <2>1. Served /\ UNCHANGED orchVars
    BY <1>2, HandlersMove DEF Serve
  <2>2. todo \subseteq Task
    BY DEF TypeOK, OrchestratorTypeOK
  <2>3. \A t \in Task : Submits(t) \/ Retries(t) => t \notin todo
    BY <1>2, <2>2, ListedExist, ListedNotReady DEF Submits, Retries
  <2> QED  BY <1>2, <2>1, <2>2, <2>3 DEF Served, AllSame, OthersSame, Undeleted
<1>3. CASE Outside \/ UNCHANGED vars
  BY <1>3, OutsideMoves
     DEF Outside, AgentStops, TimePasses, vars, TypeOK, OrchestratorTypeOK, AllSame
<1> QED  BY <1>1, <1>2, <1>3

LEMMA SnapKept ==
    ASSUME TypeOK, CalmInv, [CalmNext]_vars
    PROVE  SnapInv'
<1> USE DEF CalmInv
<1>1. CASE Orchestrate
  BY <1>1, OrchestratorMoves DEF Orchestrate
<1>2. CASE \/ Serve /\ (BetweenTicks \/ (Undeleted /\ ~Requested'))
           \/ Outside \/ UNCHANGED vars
  BY <1>2, ListedUntouched, StandStill
<1>3. CASE Crash
  BY <1>3 DEF Crash, Restarted, SnapInv, Steps, HasContainer, At
<1> QED  BY <1>1, <1>2, <1>3 DEF CalmNext

LEMMA AnyMove ==
    ASSUME TypeOK, CalmInv, [CalmNext]_vars
    PROVE  \/ Orchestrate /\ Moved
           \/ ~Orchestrate /\ Served
BY OrchestratorMoves, HandlersMove, OutsideMoves
   DEF CalmInv, CalmNext, Orchestrate, Serve, Served

\* A request is decided on the row as it is, and no other write makes it wrong
\* before it is served.
LEMMA RequestsKept ==
    ASSUME TypeOK, CalmInv, [CalmNext]_vars
    PROVE  RequestInv'
<1> DEFINE Right(r) ==
             /\ r.op = "cancel" => \/ db[r.task].status \in Active
                                   \/ db[r.task].status = "cancelled" /\ ~db[r.task].ready
             /\ r.op = "delete" => db[r.task].status \in {"pending", "deleted"}
<1>1. /\ \A c \in Client : req[c] \in Request /\ Right(req[c])
      /\ \A c \in Client : req[c].op \in {"cancel", "delete"} => req[c].task \in Task
  BY DEF CalmInv, RequestInv, TypeOK, RequestsTypeOK, Request, Idle
<1>2. CASE (Orchestrate /\ (NoRequest \/ Undeleted)) \/ Crash
  <2>1. ASSUME NEW c \in Client PROVE req'[c].op \notin {"cancel", "delete"}
    BY <1>2, <2>1 DEF Orchestrate, Crash, NoRequest, Undeleted, Requested, Idle
  <2> QED  BY <2>1 DEF RequestInv
<1>3. CASE Outside \/ UNCHANGED vars
  <2>1. AllSame /\ UNCHANGED req
    BY <1>3, OutsideMoves DEF Outside, AgentStops, TimePasses, vars
  <2> QED  BY <1>1, <2>1 DEF AllSame, Same, Wrote, RequestInv
<1>4. CASE Serve
  <2>1. \A t \in Task : db[t].ready => db[t].status \in {"failed", "cancelled"}
    BY DEF CalmInv, RowInv, RowOK
  <2>2. \A t \in Task : db[t].status # "interrupted"
    BY DEF CalmInv, RowInv, RowOK
  <2>3. Served
    BY <1>4, HandlersMove DEF CalmInv, Serve
  <2>4. ASSUME NEW c \in Client PROVE Right(req[c])'
    <3>1. CASE req'[c] = req[c] /\ req[c].op \in {"cancel", "delete"}
      <4>1. PICK t \in Task : t = req[c].task
        BY <1>1, <3>1
      <4>2. CASE Same(t)
        BY <1>1, <3>1, <4>1, <4>2 DEF Same, Wrote
      <4>3. CASE Submits(t) \/ Retries(t)
        BY <1>1, <3>1, <4>1, <4>3 DEF Submits, Retries, Active
      <4>4. CASE Withdraws(t) \/ Cancels(t)
        BY <1>1, <2>1, <3>1, <4>1, <4>4 DEF Withdraws, Cancels, Wrote, Active
      <4> QED  BY <2>3, <4>2, <4>3, <4>4 DEF Served, AllSame, OthersSame
    <3>2. CASE req'[c] = req[c] /\ req[c].op \notin {"cancel", "delete"}
      BY <3>2
    <3>3. CASE req'[c] = Idle
      BY <3>3 DEF Idle
    <3>4. CASE \E t \in Task :
                 req' = [req EXCEPT ![c] = [op |-> "retry", task |-> t]]
      BY <1>1, <3>4 DEF TypeOK, RequestsTypeOK
    <3>5. ASSUME NEW t \in Task, DeletePreflight(c, t) PROVE Right(req[c])'
      <4>1. db[t] \in Row /\ UNCHANGED db /\ db[t].status # "interrupted"
        BY <2>2, <3>5 DEF DeletePreflight, TypeOK, StoreTypeOK
      <4>2. \/ db[t].status \in Active /\ req'[c] = [op |-> "cancel", task |-> t]
            \/ db[t].status = "pending" /\ req'[c] = [op |-> "delete", task |-> t]
        BY <3>5, <4>1
           DEF DeletePreflight, Decide, TypeOK, RequestsTypeOK, Exists, Row, Status, Active,
               Terminal, NotARow
      <4> QED  BY <4>1, <4>2
    <3>6. \/ req'[c] = req[c] \/ req'[c] = Idle
          \/ \E t \in Task : req' = [req EXCEPT ![c] = [op |-> "retry", task |-> t]]
          \/ \E t \in Task : DeletePreflight(c, t)
      BY <1>4, <2>4
         DEF Serve, HandlerNext, Create, DeletePreflight, RetryPreflight, DeleteCancels,
             DeleteDeletes, RetryRequeues, RequestFails, Decide, Finish, TypeOK, RequestsTypeOK
    <3> QED  BY <3>1, <3>2, <3>3, <3>4, <3>5, <3>6
  <2> QED  BY <2>4 DEF RequestInv
<1> QED  BY <1>2, <1>3, <1>4 DEF CalmNext

LEMMA CalmKept ==
    ASSUME TypeOK, CalmInv, [CalmNext]_vars
    PROVE  Calm'
<1>1. Undeleted => Rows("cancelled")' = {}
  BY AnyMove, StaysUndeleted
<1>2. UNCHANGED req => (Requested' <=> Requested) /\ (NoRequest' <=> NoRequest)
  BY DEF Requested, NoRequest
<1>3. UNCHANGED orchVars => (BetweenTicks' <=> BetweenTicks)
  BY DEF orchVars, goroutine, BetweenTicks, At
<1>4. CASE Orchestrate /\ (NoRequest \/ Undeleted)
  BY <1>1, <1>2, <1>4 DEF Orchestrate, Calm, Undeleted
<1>5. CASE Serve /\ (BetweenTicks \/ (Undeleted /\ ~Requested'))
  BY <1>1, <1>3, <1>5 DEF Serve, Calm, Undeleted
<1>6. CASE Outside \/ UNCHANGED vars
  <2>1. UNCHANGED <<req, orchVars>>
    BY <1>6 DEF Outside, AgentStops, TimePasses, vars
  <2> QED  BY <1>1, <1>2, <1>3, <2>1 DEF CalmInv, Calm, Undeleted
<1>7. CASE Crash
  BY <1>7 DEF Crash, NoRequest, Calm
<1> QED  BY <1>4, <1>5, <1>6, <1>7 DEF CalmNext

LEMMA CalmStep == TypeOK /\ CalmInv /\ [CalmNext]_vars => CalmInv'
BY SnapKept, RequestsKept, CalmKept, AnyMove, RowsKept DEF CalmInv

LEMMA CalmInit == Init => CalmInv
<1> SUFFICES ASSUME Init PROVE CalmInv
  OBVIOUS
<1> USE DEF Init
<1>1. Calm
  BY DEF RequestsInit, NoRequest, Calm
<1>2. RowInv
  BY DEF StoreInit, NoRow, NewRow, RowInv, RowOK, NotARow
<1>3. RequestInv
  BY DEF RequestsInit, Idle, RequestInv
<1>4. SnapInv
  BY DEF Booting, SnapInv, Steps, HasContainer, At
<1> QED  BY <1>1, <1>2, <1>3, <1>4 DEF CalmInv

\* Without delete requests nothing is ever requested to end, and nothing cancelled.
LEMMA UndeletedStep ==
    ASSUME "delete" \notin Requests, TypeOK, CalmInv, Undeleted, [Next]_vars
    PROVE  [CalmNext]_vars /\ Undeleted'
<1>1. ASSUME NEW c \in Client PROVE req'[c].op \notin {"cancel", "delete"}
  <2>1. req[c] \in Request /\ req[c].op \notin {"cancel", "delete"}
    BY DEF TypeOK, RequestsTypeOK, Undeleted, Requested
  <2>2. CASE req'[c] \in {req[c], Idle}
    BY <2>1, <2>2 DEF Idle
  <2>3. ASSUME NEW d \in Client, NEW t \in Task, RetryPreflight(d, t)
        PROVE  req'[c].op \notin {"cancel", "delete"}
    <3>1. req' = [req EXCEPT ![d] = [op |-> "retry", task |-> t]]
      BY <2>3 DEF RetryPreflight, Decide
    <3> QED  BY <2>1, <3>1 DEF TypeOK, RequestsTypeOK
  <2>4. \A d \in Client, t \in Task : ~DeletePreflight(d, t)
    BY DEF DeletePreflight
  <2>5. \/ req'[c] \in {req[c], Idle}
        \/ \E d \in Client, t \in Task : RetryPreflight(d, t)
    BY <2>4
       DEF Next, Orchestrate, Serve, Outside, Crash, AgentStops, TimePasses, vars, HandlerNext,
           Create, DeleteCancels, DeleteDeletes, RetryRequeues, RequestFails, Finish, TypeOK,
           RequestsTypeOK
  <2> QED  BY <2>2, <2>3, <2>5
<1>2. ~Requested'
  BY <1>1 DEF Requested
<1>3. [CalmNext]_vars
  BY <1>2 DEF Next, CalmNext
<1> QED  BY <1>2, <1>3, AnyMove, StaysUndeleted DEF Undeleted

LEMMA UndeletedSpec ==
    ASSUME "delete" \notin Requests
    PROVE  Spec => [](TypeOK /\ CalmInv) /\ [][CalmNext]_vars
<1>1. Init => Undeleted
  BY DEF Init, RequestsInit, Idle, StoreInit, NoRow, NewRow, Undeleted, Requested, Rows
<1>2. TypeOK /\ CalmInv /\ Undeleted /\ [Next]_vars => CalmInv' /\ Undeleted' /\ [CalmNext]_vars
  BY UndeletedStep, CalmStep
<1> QED  BY <1>1, <1>2, CalmInit, TypeCorrect, PTL DEF Spec

LEMMA QuietIsSpec == QuietSpec => Spec
<1>1. [QuietNext]_vars => [Next]_vars
  BY DEF QuietNext, Next
<1> QED  BY <1>1, PTL DEF QuietSpec, Spec

LEMMA BetweenTicksSpec == QuietSpec => [](TypeOK /\ CalmInv) /\ [][CalmNext]_vars
<1>1. [QuietNext]_vars => [CalmNext]_vars
  BY DEF QuietNext, CalmNext
<1>2. TypeOK /\ CalmInv /\ [QuietNext]_vars => CalmInv'
  BY <1>1, CalmStep
<1> QED  BY <1>1, <1>2, CalmInit, QuietIsSpec, TypeCorrect, PTL DEF QuietSpec

LEMMA CalmAlways == Undisturbed => [](TypeOK /\ CalmInv) /\ [][CalmNext]_vars
<1>1. CASE "delete" \notin Requests
  BY <1>1, UndeletedSpec, BetweenTicksSpec DEF Undisturbed
<1>2. CASE "delete" \in Requests
  BY <1>2, BetweenTicksSpec DEF Undisturbed
<1> QED  BY <1>1, <1>2

\* The retry gate opens for a task that has ended, and is shut again before it starts
\* anew: whatever fails, and wherever the server crashes.
THEOREM GateOpensAfterEnd == Undisturbed => []GateOnlyWhenEnded
<1>1. CalmInv => GateOnlyWhenEnded
  BY DEF CalmInv, RowInv, RowOK, GateOnlyWhenEnded, Terminal
<1> QED  BY <1>1, CalmAlways, PTL

\* No write of the goroutine brings a task back that has ended, by a restart, a failed
\* inspection, a time-out or a dispatch of an old row; only a retry does, once.
THEOREM EndedIsFinal == Undisturbed => EndedStaysEnded
<1>1. ASSUME TypeOK, CalmInv, [CalmNext]_vars, NEW t \in Task,
             db[t].status \in Terminal, db'[t].status # db[t].status
      PROVE  db'[t].status = "pending" /\ db'[t].userRetries = db[t].userRetries + 1
  <2>1. ~Same(t)
    BY <1>1 DEF Same, Wrote
  <2>2. ~WritesRow(t) /\ ~Completes(t) /\ ~Marks(t)
    BY <1>1, <2>1
       DEF WritesRow, OpensGate, Cleans, Requeues, Promotes, Completes, Assigns, Starts, Fails,
           Marks, Tried, Wrote, Terminal
  <2>3. ~Submits(t) /\ ~Withdraws(t) /\ ~Cancels(t) /\ \A u \in Task : ~Reviews(u, t)
    BY <1>1 DEF Submits, Withdraws, Cancels, Reviews, Wrote, Terminal, Active
  <2>4. ~Moved
    BY <2>1, <2>2, <2>3 DEF Moved, AllSame, OthersSame
  <2>5. Retries(t)
    BY <1>1, <2>1, <2>3, <2>4, AnyMove DEF Served, AllSame, OthersSame
  <2> QED  BY <2>5 DEF Retries, Wrote
<1>2. TypeOK /\ CalmInv /\ [CalmNext]_vars =>
        [\A t \in Task :
           db[t].status \in Terminal /\ db'[t].status # db[t].status =>
             /\ db'[t].status = "pending"
             /\ db'[t].userRetries = db[t].userRetries + 1]_vars
  BY <1>1
<1> QED  BY <1>2, CalmAlways, PTL DEF EndedStaysEnded

\* A cancellation stands, if it is not written in the middle of the orchestrator's
\* work on the task: then no attempt goes on, and none ends in another way.
THEOREM CancelStands == Undisturbed => CancelIsHonoured
<1>1. [\A t \in Task :
         db[t].status \in Terminal /\ db'[t].status # db[t].status =>
            /\ db'[t].status = "pending"
            /\ db'[t].userRetries = db[t].userRetries + 1]_vars
      => [\A t \in Task :
            db[t].status = "cancelled" =>
               db'[t].status \notin Active \cup {"completed", "failed"}]_vars
  <2>1. ASSUME NEW t \in Task, db[t].status = "cancelled",
               db[t].status \in Terminal /\ db'[t].status # db[t].status
                 => db'[t].status = "pending"
        PROVE  db'[t].status \notin Active \cup {"completed", "failed"}
    BY <2>1 DEF Terminal, Active
  <2> QED  BY <2>1
<1> QED  BY <1>1, EndedIsFinal, PTL DEF EndedStaysEnded, CancelIsHonoured
----------------------------------------------------------------------------
(* The slots.                                                              *)

\* How the goroutine goes from one step to the next.
LEMMA Passage ==
    ASSUME TypeOK, CalmInv, OrchestratorNext
    PROVE  /\ phase' = phase \/ (phase' = NextPhase(phase) /\ step' = "list")
           /\ phase # "boot" => phase' # "boot"
           /\ At("cancelled", "gate")' => \E t \in Task : CleanClear(t)
<1> USE DEF At
<1> DEFINE Onward == phase' = phase \/ (phase' = NextPhase(phase) /\ step' = "list")
<1>1. phase \in Phase
  BY DEF TypeOK, OrchestratorTypeOK
<1>2. Onward => (phase # "boot" => phase' # "boot")
  BY <1>1 DEF NextPhase, Phase
<1>3. \A t \in Task : Advance(t) => Onward /\ step' # "gate"
  BY DEF Advance
<1>4. \A S : Iterate(S) => Onward /\ step' # "gate"
  BY DEF Iterate
<1>5. \A s : Goto(s) => Onward /\ phase' = phase /\ step' = s
  BY DEF Goto
<1>6. CASE BootListRunning \/ BootListProvisioning \/ BootListRecovering
  <2>1. Onward /\ step' # "gate"
    BY <1>6
       DEF BootListRunning, BootListProvisioning, BootListRecovering, BootListed, BootDone
  <2> QED  BY <1>2, <2>1
<1>7. CASE CancelledList \/ RecoveringList \/ RunningList \/ DispatchList
  BY <1>2, <1>4, <1>7 DEF CancelledList, RecoveringList, RunningList, DispatchList, List
<1>8. ASSUME NEW t \in Task, BootMark(t) \/ BootClear(t)
      PROVE  Onward /\ phase = "boot" /\ step' # "gate"
  BY <1>8 DEF BootMark, BootClear, Goto, BootAdvance, BootDone
<1>9. ASSUME NEW t \in Task, CleanClear(t) PROVE Onward
  BY <1>5, <1>9 DEF CleanClear
<1>10. ASSUME NEW t \in Task,
              \/ CleanUnassigned(t) \/ CleanStop(t) \/ OpenGate(t)
              \/ RequeueUnassigned(t) \/ Requeue(t) \/ Promote(t)
              \/ WatchTimedOut(t) \/ KillTask(t)
              \/ Assign(t) \/ RunAgent(t) \/ Start(t) \/ FailDispatch(t)
       PROVE  Onward /\ step' # "gate"
  <2>1. Advance(t) \/ \E s \in {"clear", "kill", "complete", "run", "start", "fail"} : Goto(s)
    BY <1>10
       DEF CleanUnassigned, CleanStop, OpenGate, RequeueUnassigned, Requeue, Promote,
           WatchTimedOut, KillTask, Assign, RunAgent, Start, FailDispatch
  <2> QED  BY <1>3, <1>5, <2>1
<1>11. ASSUME NEW t \in Task, Probe(t) \/ Watch(t)
       PROVE  Onward /\ step' # "gate"
  <2>1. \/ Advance(t)
        \/ \E s \in {"requeue", "kill", "promote", "complete_chain", "complete"} : Goto(s)
    BY <1>11 DEF Probe, Watch, InspectFailed, HandleCompletion
  <2> QED  BY <1>3, <1>5, <2>1
<1>12. ASSUME NEW t \in Task, CompleteChain(t) \/ Complete(t)
       PROVE  Onward /\ ~At("cancelled", "gate")'
  <2>1. phase \in {"recovering", "running"}
    BY <1>1, <1>12 DEF CompleteChain, Complete, CalmInv, SnapInv, Steps, Phase
  <2>2. Advance(t) \/ \E s \in {"gate", "complete"} : Goto(s)
    BY <1>12 DEF CompleteChain, Complete
  <2> QED  BY <1>3, <1>5, <2>1, <2>2
<1> QED
  BY <1>2, <1>6, <1>7, <1>8, <1>9, <1>10, <1>11, <1>12 DEF OrchestratorNext

\* What is never there without a delete request stays away.
LEMMA CancelledAway ==
    ASSUME OneDisturbance, TypeOK, CalmInv, QuietInv, [CalmNext]_vars
    PROVE  /\ "delete" \notin Requests => Undeleted'
           /\ phase' = "boot" => Rows("cancelled")' = {}
<1>1. [Next]_vars
  BY DEF CalmNext, Next
<1>2. "delete" \notin Requests => Undeleted'
  BY <1>1, UndeletedStep DEF QuietInv
<1>3. CASE Crash
  <2>1. "delete" \notin Requests
    BY <1>3 DEF Crash, OneDisturbance, TypeOK
  <2> QED  BY <1>2, <2>1 DEF Undeleted
<1>4. CASE ~Crash /\ phase' = "boot"
  <2>1. phase = "boot"
    BY <1>4, Passage
       DEF CalmNext, Orchestrate, Serve, Outside, AgentStops, TimePasses, vars, orchVars, goroutine
  <2>2. ~BetweenTicks
    BY <2>1 DEF BetweenTicks, At
  <2>3. Rows("cancelled") = {}
    BY <2>1 DEF QuietInv
  <2>4. SUFFICES ASSUME NEW u \in Task, db'[u].status = "cancelled" PROVE FALSE
    BY <1>2 DEF Rows
  <2>5. db[u].status # "cancelled" /\ ~Same(u)
    BY <2>3, <2>4 DEF Same, Wrote, Rows
  <2>6. CASE Serve /\ Undeleted
    BY <2>4, <2>6, AnyMove, StaysUndeleted DEF Rows
  <2>7. CASE Outside \/ UNCHANGED vars
    BY <2>5, <2>7, OutsideMoves DEF AllSame
  <2>8. CASE Orchestrate
    BY <2>1, <2>4, <2>5, <2>8, AnyMove DEF Moved, AllSame, OthersSame, Marks, Wrote
  <2> QED  BY <1>4, <2>2, <2>6, <2>7, <2>8 DEF CalmNext
<1> QED  BY <1>2, <1>3, <1>4

LEMMA StepIsCalm ==
    ASSUME [CalmNext]_vars
    PROVE  \/ Orchestrate
           \/ Serve /\ (BetweenTicks \/ (Undeleted /\ ~Requested'))
           \/ Outside \/ UNCHANGED vars
           \/ Crash
BY DEF CalmNext

\* What recovery looks for.
NothingFound == todo = {} /\ Rows("running") = {} /\ Rows("provisioning") = {}

\* Without a restart there is nothing to recover.
LEMMA NothingToRecover ==
    ASSUME TypeOK, CalmInv, [CalmNext]_vars, ~Crash,
           Rows("recovering") = {}, phase = "boot" => NothingFound
    PROVE  Rows("recovering")' = {} /\ (phase' = "boot" => NothingFound')
<1>1. \A u \in Task : BootTurn(u) => ~Marks(u)
  BY TurnIs DEF Marks, At, NothingFound
<1>2. Rows("recovering")' = {}
  <2>1. SUFFICES ASSUME NEW u \in Task, db'[u].status = "recovering" PROVE FALSE
    BY DEF Rows
  <2>2. db[u].status # "recovering" /\ ~Same(u)
    BY <2>1 DEF Same, Wrote, Rows
  <2>3. ~WritesRow(u) /\ ~Completes(u)
    BY <2>1, <2>2
       DEF WritesRow, OpensGate, Cleans, Requeues, Promotes, Completes, Assigns, Starts, Fails,
           Tried, Wrote
  <2>4. ~Submits(u) /\ ~Retries(u) /\ ~Withdraws(u) /\ ~Cancels(u) /\ \A t \in Task : ~Reviews(t, u)
    BY <2>1 DEF Submits, Retries, Withdraws, Cancels, Reviews, Wrote
  <2>5. ~Moved
    BY <1>1, <2>2, <2>3, <2>4 DEF Moved, AllSame, OthersSame
  <2>6. ~Served
    BY <2>2, <2>4 DEF Served, AllSame, OthersSame
  <2> QED  BY <2>5, <2>6, AnyMove
<1>3. ASSUME phase' = "boot" PROVE NothingFound'
  <2>1. phase = "boot"
    BY <1>3, Passage
       DEF CalmNext, Orchestrate, Serve, Outside, AgentStops, TimePasses, vars, orchVars, goroutine
  <2>2. todo = {} /\ Rows("running") = {} /\ Rows("provisioning") = {}
    BY <2>1 DEF NothingFound
  <2>3. CASE Orchestrate
    <3>1. \A t \in Task : ~Turn(t) /\ ~BootTurn(t)
      BY <2>2, TurnIs
    <3>2. BootListRunning \/ BootListProvisioning \/ BootListRecovering
      BY <2>1, <2>3, <3>1
         DEF Orchestrate, OrchestratorNext, BootMark, BootClear, CancelledList, RecoveringList,
             RunningList, DispatchList, List, At, CleanUnassigned, CleanStop, CleanClear, OpenGate,
             RequeueUnassigned, Probe, Requeue, Promote, WatchTimedOut, Watch, KillTask,
             CompleteChain, Complete, Assign, RunAgent, Start, FailDispatch
    <3>3. UNCHANGED db /\ todo' = {}
      BY <2>2, <3>2
         DEF BootListRunning, BootListProvisioning, BootListRecovering, BootList
    <3> QED  BY <2>2, <3>3 DEF Rows, NothingFound
  <2>4. CASE ~Orchestrate
    <3>1. UNCHANGED todo
      BY <2>4
         DEF CalmNext, Serve, Outside, AgentStops, TimePasses, vars, orchVars, goroutine
    <3>2. Served
      BY <2>4, AnyMove
    <3>3. ASSUME NEW u \in Task PROVE db'[u].status \notin {"running", "provisioning"}
      BY <2>2, <3>2
         DEF Served, AllSame, OthersSame, Same, Submits, Retries, Withdraws, Cancels, Wrote, Rows
    <3> QED  BY <2>2, <3>1, <3>3 DEF Rows, NothingFound
  <2> QED  BY <2>3, <2>4
<1> QED  BY <1>2, <1>3

\* If the store works, the gate of a cancelled task opens after its clean-up.
LEMMA GateAfterCleanUp ==
    ASSUME "store" \notin FaultKinds, TypeOK, CalmInv, QuietInv, [CalmNext]_vars
    PROVE  /\ \A t \in Task : (db[t].status = "cancelled" /\ db[t].ready => db[t].cid = NoCid)'
           /\ At("cancelled", "gate")' => \A t \in todo' : Turn(t)' => db'[t].cid = NoCid
<1>1. ASSUME NEW u \in Task, db'[u].status = "cancelled", db'[u].ready, db'[u].cid # NoCid
      PROVE  FALSE
  <2>1. ~Same(u)
    BY <1>1 DEF QuietInv, Same, Wrote
  <2>2. ~(phase # "boot" /\ Turn(u) /\ WritesRow(u))
    <3>1. ASSUME Turn(u), OpensGate(u) PROVE FALSE
      <4>1. u \in todo
        BY <3>1, TurnIs
      <4> QED  BY <1>1, <3>1, <4>1 DEF OpensGate, QuietInv, Wrote, At
    <3>2. ~(Cleans(u) \/ Requeues(u) \/ Promotes(u))
      BY <1>1 DEF Cleans, Requeues, Promotes, Tried, Wrote
    <3>3. ~(Completes(u) \/ Assigns(u) \/ Starts(u) \/ Fails(u))
      BY <1>1 DEF Completes, Assigns, Starts, Fails, Wrote
    <3> QED  BY <3>1, <3>2, <3>3 DEF WritesRow
  <2>3. ~Completes(u) /\ ~Marks(u) /\ \A t \in Task : ~Reviews(t, u)
    BY <1>1 DEF Completes, Marks, Reviews, Wrote
  <2>4. ~Submits(u) /\ ~Retries(u) /\ ~Withdraws(u)
    BY <1>1 DEF Submits, Retries, Withdraws, Wrote
  <2>5. ~Cancels(u)
    BY <1>1 DEF Cancels, Wrote, CalmInv, RowInv, RowOK, Active
  <2>6. ~Moved
    BY <2>1, <2>2, <2>3 DEF Moved, AllSame, OthersSame
  <2>7. ~Served
    BY <2>1, <2>4, <2>5 DEF Served, AllSame, OthersSame
  <2> QED  BY <2>6, <2>7, AnyMove
<1>2. ASSUME At("cancelled", "gate")', NEW u \in todo', Turn(u)' PROVE db'[u].cid = NoCid
  <2>1. CASE Orchestrate
    <3>1. PICK t \in Task : CleanClear(t)
      BY <1>2, <2>1, Passage DEF Orchestrate
    <3>2. Turn(t) /\ UNCHANGED todo /\ At("cancelled", "clear") /\ ClearTaskAssignment(t)
      BY <3>1 DEF CleanClear, Goto, BestEffort, Breaks
    <3>3. Exists(t)
      BY <3>2, TurnIs, ListedExist DEF CalmInv
    <3>4. db'[t].cid = NoCid
      BY <3>2, <3>3, Effects DEF Wrote
    <3>5. u = t
      BY <1>2, <3>2, TurnIs DEF Turn, TypeOK, OrchestratorTypeOK
    <3> QED  BY <3>4, <3>5
  <2>2. CASE Crash
    BY <1>2, <2>2 DEF Crash, Restarted, At
  <2>3. CASE \/ Serve /\ (BetweenTicks \/ (Undeleted /\ ~Requested'))
             \/ Outside \/ UNCHANGED vars
    <3>1. UNCHANGED orchVars /\ \A t \in todo : Same(t)
      BY <2>3, ListedUntouched
    <3>2. At("cancelled", "gate") /\ u \in todo /\ Turn(u)
      BY <1>2, <3>1 DEF orchVars, goroutine, At, Turn
    <3> QED  BY <3>1, <3>2 DEF QuietInv, Same, Wrote
  <2> QED  BY <2>1, <2>2, <2>3, StepIsCalm
<1> QED  BY <1>1, <1>2

LEMMA QuietKept ==
    ASSUME OneDisturbance, TypeOK, CalmInv, QuietInv, [CalmNext]_vars
    PROVE  QuietInv'
<1>1. ASSUME "store" \in FaultKinds
      PROVE  /\ Rows("recovering")' = {} /\ Rows("cancelled")' = {}
             /\ phase' = "boot" => NothingFound'
  <2>1. "delete" \notin Requests /\ ~Crash
    BY <1>1 DEF OneDisturbance, Crash, TypeOK
  <2>2. Rows("recovering") = {} /\ (phase = "boot" => NothingFound)
    BY <1>1 DEF QuietInv, NothingFound
  <2> QED  BY <2>1, <2>2, NothingToRecover, CancelledAway DEF Undeleted
<1>2. "store" \notin FaultKinds =>
        /\ \A t \in Task : (db[t].status = "cancelled" /\ db[t].ready => db[t].cid = NoCid)'
        /\ At("cancelled", "gate")' => \A t \in todo' : Turn(t)' => db'[t].cid = NoCid
  BY GateAfterCleanUp
<1> QED  BY <1>1, <1>2, CancelledAway DEF QuietInv, NothingFound

LEMMA SlotHoldersFinite ==
    ASSUME NEW S \in SUBSET Task, NEW t \in Task
    PROVE  /\ t \notin S => Cardinality(S \cup {t}) = Cardinality(S) + 1
           /\ t \in S => Cardinality(S \ {t}) = Cardinality(S) - 1 /\ Cardinality(S) > 0
           /\ Cardinality(S) \in Nat /\ Cardinality(S \ {t}) \in Nat
           /\ Cardinality({}) = 0
<1>1. IsFiniteSet(S) /\ Cardinality(S) \in Nat
  BY TaskSets
<1>2. t \notin S => Cardinality(S \cup {t}) = Cardinality(S) + 1
  BY <1>1, FS_AddElement
<1>3. t \in S => Cardinality(S \ {t}) = Cardinality(S) - 1
  BY <1>1, FS_RemoveElement
<1>4. Cardinality(S \ {t}) \in Nat
  BY TaskSets
<1>5. Cardinality({}) = 0
  BY FS_EmptySet
<1> QED  BY <1>1, <1>2, <1>3, <1>4, <1>5

\* What a step does to the slots.
Keeps == SlotHolders' = SlotHolders
Frees(t) == t \in SlotHolders /\ SlotHolders' = SlotHolders \ {t}
Takes(t) == t \notin SlotHolders /\ SlotHolders' = SlotHolders \cup {t}

LEMMA SlotByRow ==
    /\ \A u \in Task : Same(u) => (HoldsSlot(u)' <=> HoldsSlot(u))
    /\ AllSame => Keeps
    /\ \A t \in Task : OthersSame(t) =>
         /\ (HoldsSlot(t)' <=> HoldsSlot(t)) => Keeps
         /\ HoldsSlot(t) /\ ~HoldsSlot(t)' => Frees(t)
         /\ ~HoldsSlot(t) /\ HoldsSlot(t)' => Takes(t)
<1>1. ASSUME NEW u \in Task, Same(u) PROVE HoldsSlot(u)' <=> HoldsSlot(u)
  BY <1>1 DEF Same, Wrote, HoldsSlot
<1>2. AllSame => Keeps
  BY <1>1 DEF AllSame, Keeps, SlotHolders
<1>3. ASSUME NEW t \in Task, OthersSame(t)
      PROVE  /\ (HoldsSlot(t)' <=> HoldsSlot(t)) => Keeps
             /\ HoldsSlot(t) /\ ~HoldsSlot(t)' => Frees(t)
             /\ ~HoldsSlot(t) /\ HoldsSlot(t)' => Takes(t)
  <2>1. \A u \in Task \ {t} : HoldsSlot(u)' <=> HoldsSlot(u)
    BY <1>1, <1>3 DEF OthersSame
  <2> QED  BY <2>1 DEF Keeps, Frees, Takes, SlotHolders
<1> QED  BY <1>1, <1>2, <1>3

\* The goroutine counts each slot that it frees or takes.
LEMMA SlotsMoved ==
    ASSUME TypeOK, CalmInv, QuietInv, phase # "boot", Moved
    PROVE  \/ Keeps /\ UNCHANGED running
           \/ \E t \in Task : (Frees(t) /\ Release) \/ (Takes(t) /\ Acquire)
<1>1. \A t \in Task : RowOK(db[t])
  BY DEF CalmInv, RowInv
<1>2. "store" \in FaultKinds => \A t \in Task : db[t].status \notin {"recovering", "cancelled"}
  BY DEF QuietInv, Rows
<1>3. ASSUME NEW t \in Task, OthersSame(t), WritesRow(t)
      PROVE  (Keeps /\ UNCHANGED running) \/ (Frees(t) /\ Release) \/ (Takes(t) /\ Acquire)
  <2>1. CASE OpensGate(t)
    BY <1>3, <2>1, SlotByRow DEF OpensGate, Wrote, HoldsSlot
  <2>2. CASE Cleans(t)
    BY <1>2, <1>3, <2>2, SlotByRow DEF Cleans, Tried, Wrote, HoldsSlot
  <2>3. CASE Requeues(t)
    BY <1>2, <1>3, <2>3, SlotByRow DEF Requeues, Tried, Wrote, HoldsSlot
  <2>4. CASE Promotes(t)
    BY <1>3, <2>4, SlotByRow DEF Promotes, Wrote, HoldsSlot
  <2>5. CASE Completes(t)
    BY <1>3, <2>5, SlotByRow DEF Completes, Wrote, HoldsSlot
  <2>6. CASE Assigns(t) \/ Fails(t)
    BY <1>3, <2>6, SlotByRow DEF Assigns, Fails, Wrote, HoldsSlot
  <2>7. CASE Starts(t)
    BY <1>3, <2>7, SlotByRow DEF Starts, Wrote, HoldsSlot
  <2> QED  BY <1>3, <2>1, <2>2, <2>3, <2>4, <2>5, <2>6, <2>7 DEF WritesRow
<1>4. ASSUME NEW t \in Task, Completes(t), NEW child \in Task \ {t}, Reviews(t, child),
             \A u \in Task \ {t, child} : Same(u)
      PROVE  Frees(t) /\ Release
  <2>1. HoldsSlot(t) /\ ~HoldsSlot(t)' /\ Release
    BY <1>4 DEF Completes, Wrote, HoldsSlot
  <2>2. ~HoldsSlot(child) /\ ~HoldsSlot(child)'
    BY <1>4 DEF Reviews, Wrote, HoldsSlot
  <2>3. \A u \in Task \ {t} : HoldsSlot(u)' <=> HoldsSlot(u)
    BY <1>4, <2>2, SlotByRow
  <2> QED  BY <2>1, <2>3 DEF Frees, SlotHolders
<1>5. AllSame => Keeps
  BY SlotByRow
<1> QED  BY <1>3, <1>4, <1>5 DEF Moved, Marks, At

\* Nobody else takes a slot or frees one.
LEMMA SlotsServed ==
    ASSUME TypeOK, CalmInv, QuietInv, Served
    PROVE  Keeps
<1>1. \A t \in Task : RowOK(db[t]) /\ db[t] \in Row
  BY DEF CalmInv, RowInv, TypeOK, StoreTypeOK
<1>2. ASSUME NEW t \in Task, OthersSame(t),
             Submits(t) \/ Retries(t) \/ Withdraws(t) \/ Cancels(t)
      PROVE  HoldsSlot(t)' <=> HoldsSlot(t)
  <2>1. CASE Submits(t) \/ Withdraws(t)
    BY <2>1 DEF Submits, Withdraws, Wrote, HoldsSlot
  <2>2. CASE Retries(t)
    <3>1. db[t].status = "cancelled" => db[t].cid = NoCid
      BY <2>2 DEF Retries, QuietInv, Rows
    <3> QED  BY <2>2, <3>1 DEF Retries, Wrote, HoldsSlot
  <2>3. CASE Cancels(t)
    BY <1>1, <2>3 DEF Cancels, Wrote, HoldsSlot, RowOK, Active
  <2> QED  BY <1>2, <2>1, <2>2, <2>3
<1> QED  BY <1>2, SlotByRow DEF Served

LEMMA SlotsMarked ==
    ASSUME TypeOK, CalmInv, phase = "boot", Moved
    PROVE  Keeps
<1>1. ASSUME NEW t \in Task, Marks(t) PROVE HoldsSlot(t)' <=> HoldsSlot(t)
  BY <1>1 DEF Marks, Wrote, HoldsSlot, CalmInv, RowInv, RowOK
<1> QED  BY <1>1, SlotByRow DEF Moved

\* While the server starts, requests leave the rows alone that it counts.
LEMMA RowsWhileBooting ==
    ASSUME TypeOK, CalmInv, QuietInv, [CalmNext]_vars, ~Orchestrate, ~Crash, phase = "boot"
    PROVE  Rows("running")' = Rows("running") /\ Rows("provisioning")' = Rows("provisioning")
<1>1. Served /\ ~BetweenTicks
  BY AnyMove DEF BetweenTicks, At
<1>2. AllSame \/ \E t \in Task : (Submits(t) \/ Retries(t)) /\ OthersSame(t)
  <2>1. CASE Serve
    BY <1>1, <2>1, StepIsCalm, OutsideMoves DEF Undeleted, Served
  <2>2. CASE ~Serve
    BY <2>2, StepIsCalm, OutsideMoves
  <2> QED  BY <2>1, <2>2
<1>3. ASSUME NEW u \in Task, NEW s \in {"running", "provisioning"}
      PROVE  db'[u].status = s <=> db[u].status = s
  <2>1. Same(u) \/ Submits(u) \/ Retries(u)
    BY <1>2 DEF AllSame, OthersSame
  <2> QED  BY <2>1 DEF Same, Submits, Retries, Wrote
<1> QED  BY <1>3 DEF Rows

Recovered == {t \in Rows("recovering") : db[t].cid # NoCid}

LEMMA DisjointCount ==
    ASSUME NEW S \in SUBSET Task, NEW T \in SUBSET Task, S \cap T = {}
    PROVE  Cardinality(S \cup T) = Cardinality(S) + Cardinality(T)
<1>1. IsFiniteSet(S) /\ IsFiniteSet(T) /\ Cardinality(S) \in Nat /\ Cardinality(T) \in Nat
  BY TaskSets
<1>2. Cardinality(S \cup T) = Cardinality(S) + Cardinality(T) - Cardinality(S \cap T)
  BY <1>1, FS_Union
<1>3. Cardinality(S \cap T) = 0
  BY FS_EmptySet
<1> QED  BY <1>1, <1>2, <1>3

LEMMA HoldersAtBoot ==
    ASSUME TypeOK, QuietInv, phase = "boot"
    PROVE  /\ Cardinality(SlotHolders) = Cardinality(Rows("running")) + Cardinality(Recovered)
           /\ Rows("recovering") = {} => Cardinality(SlotHolders) = Cardinality(Rows("running"))
<1>1. Rows("cancelled") = {}
  BY DEF QuietInv
<1>2. SlotHolders = Rows("running") \cup Recovered /\ Rows("running") \cap Recovered = {}
  BY <1>1 DEF SlotHolders, HoldsSlot, Rows, Recovered
<1>3. Rows("running") \in SUBSET Task /\ Recovered \in SUBSET Task
  BY DEF Rows, Recovered
<1>4. Cardinality(Rows("running")) \in Nat
  BY <1>3, TaskSets
<1>5. Cardinality(SlotHolders) = Cardinality(Rows("running")) + Cardinality(Recovered)
  BY <1>2, <1>3, DisjointCount
<1>6. Rows("recovering") = {} => Cardinality(Recovered) = 0
  BY FS_EmptySet DEF Recovered
<1> QED  BY <1>4, <1>5, <1>6

LEMMA BootCounts ==
    ASSUME TypeOK, CalmInv, SlotInv, OrchestratorNext, Moved, phase = "boot"
    PROVE  BootInv' /\ SlotsExact'
<1> USE DEF At
<1>1. Keeps
  BY SlotsMarked
<1>2. "store" \in FaultKinds =>
         /\ Rows("recovering") = {} /\ todo = {} /\ Rows("running") = {} /\ Rows("provisioning") = {}
  BY DEF SlotInv, QuietInv
<1>3. CASE BootListRunning
  <2>1. todo = {} /\ UNCHANGED <<db, phase>> /\ step' = "list_provisioning"
    BY <1>3 DEF BootListRunning, SlotInv, BootInv
  <2>2. todo' = Rows("running") /\ found' = Cardinality(todo')
    BY <1>2, <1>3, <2>1 DEF BootListRunning, BootList, Breaks
  <2>3. Rows("running")' = Rows("running")
    BY <2>1 DEF Rows
  <2> QED  BY <2>1, <2>2, <2>3 DEF BootInv, SlotsExact
<1>4. CASE BootListProvisioning
  <2>1. /\ UNCHANGED <<db, phase, found>> /\ step' = "list_recovering"
        /\ todo = Rows("running") /\ found = Cardinality(Rows("running"))
    BY <1>4 DEF BootListProvisioning, SlotInv, BootInv
  <2>2. todo' = todo \cup Rows("provisioning")
    BY <1>2, <1>4 DEF BootListProvisioning, BootList, Breaks
  <2>3. Rows("running")' = Rows("running") /\ Rows("provisioning")' = Rows("provisioning")
    BY <2>1 DEF Rows
  <2> QED  BY <2>1, <2>2, <2>3 DEF BootInv, SlotsExact
<1>5. ASSUME NEW slots, slots = Cardinality(SlotHolders),
             \/ phase' = "cancelled" /\ step' = "list" /\ running' = slots
             \/ phase' = "boot" /\ step' \in {"item", "clear"} /\ found' = slots
      PROVE  BootInv' /\ SlotsExact'
  BY <1>1, <1>5 DEF BootInv, SlotsExact, Keeps
<1>6. CASE BootListRecovering
  <2>1. found = Cardinality(Rows("running"))
    BY <1>6 DEF BootListRecovering, SlotInv, BootInv
  <2>2. BootListed(Cardinality(SlotHolders))
    BY <1>2, <1>6, <2>1, HoldersAtBoot
       DEF BootListRecovering, Breaks, Recovered, SlotInv
  <2> QED  BY <1>5, <2>2 DEF BootListed, BootDone, NextPhase
<1>7. ASSUME NEW t \in Task, BootMark(t) \/ BootClear(t) PROVE BootInv' /\ SlotsExact'
  <2>1. found = Cardinality(SlotHolders)
    BY <1>7 DEF BootMark, BootClear, SlotInv, BootInv
  <2>2. BootAdvance(t) \/ (Goto("clear") /\ UNCHANGED found)
    BY <1>7 DEF BootMark, BootClear
  <2> QED  BY <1>5, <2>1, <2>2 DEF BootAdvance, BootDone, NextPhase, Goto
<1>8. \/ BootListRunning \/ BootListProvisioning \/ BootListRecovering
      \/ \E t \in Task : BootMark(t) \/ BootClear(t)
  BY DEF OrchestratorNext, CancelledList, RecoveringList, RunningList, DispatchList, List,
         CleanUnassigned, CleanStop, CleanClear, OpenGate, RequeueUnassigned, Probe, Requeue,
         Promote, WatchTimedOut, Watch, KillTask, CompleteChain, Complete, Assign, RunAgent,
         Start, FailDispatch, CalmInv, SnapInv, Steps
<1> QED  BY <1>3, <1>4, <1>6, <1>7, <1>8

LEMMA SlotsKept ==
    ASSUME OneDisturbance, TypeOK, CalmInv, SlotInv, [CalmNext]_vars
    PROVE  BootInv' /\ SlotsExact'
<1>1. QuietInv
  BY DEF SlotInv
<1>2. CASE Orchestrate /\ phase = "boot"
  BY <1>2, AnyMove, BootCounts DEF Orchestrate
<1>3. CASE Orchestrate /\ phase # "boot"
  <2>1. phase' # "boot" /\ running = Cardinality(SlotHolders)
    BY <1>3, Passage DEF Orchestrate, SlotInv, SlotsExact
  <2>2. SlotHolders \in SUBSET Task
    BY DEF SlotHolders
  <2>3. CASE Keeps /\ UNCHANGED running
    BY <2>1, <2>3 DEF Keeps, SlotsExact, BootInv, At
  <2>4. ASSUME NEW t \in Task, Frees(t), Release PROVE running' = Cardinality(SlotHolders')
    BY <2>1, <2>2, <2>4, SlotHoldersFinite DEF Frees, Release, Released
  <2>5. ASSUME NEW t \in Task, Takes(t), Acquire PROVE running' = Cardinality(SlotHolders')
    BY <2>1, <2>2, <2>5, SlotHoldersFinite DEF Takes, Acquire
  <2> QED
    BY <1>1, <1>3, <2>1, <2>3, <2>4, <2>5, AnyMove, SlotsMoved DEF SlotsExact, BootInv, At
<1>4. CASE Crash
  BY <1>4 DEF Crash, Restarted, BootInv, SlotsExact, At
<1>5. CASE ~Orchestrate /\ ~Crash
  <2>1. UNCHANGED orchVars
    BY <1>5 DEF CalmNext, Serve, Outside, AgentStops, TimePasses, vars
  <2>2. Keeps
    BY <1>1, <1>5, AnyMove, SlotsServed
  <2>3. phase = "boot" => /\ Rows("running")' = Rows("running")
                          /\ Rows("provisioning")' = Rows("provisioning")
    BY <1>1, <1>5, RowsWhileBooting
  <2> QED  BY <2>1, <2>2, <2>3 DEF SlotInv, BootInv, SlotsExact, Keeps, orchVars, goroutine, At
<1> QED  BY <1>2, <1>3, <1>4, <1>5

LEMMA SlotsStart == Init => SlotInv
<1> SUFFICES ASSUME Init PROVE SlotInv
  OBVIOUS
<1>1. \A t \in Task : db[t].status = "absent"
  BY DEF Init, StoreInit, NoRow, NewRow
<1>2. phase = "boot" /\ step = "list" /\ todo = {} /\ found = 0
  BY DEF Init, Booting
<1>3. QuietInv
  BY <1>1, <1>2 DEF QuietInv, Undeleted, Requested, Init, RequestsInit, Idle, Rows, At
<1> QED  BY <1>2, <1>3 DEF SlotInv, BootInv, SlotsExact, At

\* The counter of slots, which nothing but its increments and decrements keeps in step
\* with the table, is exact: no path of monitor, dispatch and lifecycle releases a slot
\* twice or not at all, with failing docker calls, killed and lost containers, and
\* either failing writes, or restarts, or deletions.  Two of those together break it.
THEOREM SlotsAlwaysExact ==
    ASSUME OneDisturbance
    PROVE  Undisturbed => []SlotsExact
<1>1. TypeOK /\ CalmInv /\ SlotInv /\ [CalmNext]_vars => SlotInv'
  BY QuietKept, SlotsKept DEF SlotInv
<1>2. SlotInv => SlotsExact
  BY DEF SlotInv
<1>3. Undisturbed => Init
  BY DEF Undisturbed, Spec, QuietSpec
<1> QED  BY <1>1, <1>2, <1>3, SlotsStart, CalmAlways, PTL
----------------------------------------------------------------------------
(* The room for a dispatch.                                                *)

LEMMA OldestCount ==
    ASSUME NEW S \in SUBSET Task, NEW n \in Nat
    PROVE  Oldest(S, n) \in SUBSET S /\ Cardinality(Oldest(S, n)) <= n
<1> DEFINE below(x) == {u \in S : u < x}
           rank == [x \in Oldest(S, n) |-> Cardinality(below(x))]
<1>1. Oldest(S, n) \in SUBSET S /\ S \subseteq Int
  BY DEF Oldest, Task
<1>2. \A x \in S : /\ IsFiniteSet(below(x)) /\ Cardinality(below(x)) \in Nat
                   /\ x \notin below(x)
  BY <1>1, TaskSets
<1>3. ASSUME NEW x \in S, NEW y \in S, x < y PROVE Cardinality(below(x)) # Cardinality(below(y))
  <2>0. \A u \in S : u < x => u < y
    BY <1>1, <1>3
  <2>1. below(x) \in SUBSET below(y) /\ x \in below(y) /\ x \notin below(x)
    BY <1>2, <1>3, <2>0
  <2>2. IsFiniteSet(below(y))
    BY <1>2
  <2> HIDE DEF below
  <2>3. Cardinality(below(x)) = Cardinality(below(y)) => below(y) = below(x)
    BY <2>1, <2>2, FS_Subset
  <2> QED  BY <2>1, <2>3
<1>4. \A x \in Oldest(S, n) : rank[x] \in 0 .. n - 1
  BY <1>1, <1>2 DEF Oldest
<1>5. ASSUME NEW x \in Oldest(S, n), NEW y \in Oldest(S, n), rank[x] = rank[y] PROVE x = y
  <2>1. x \in S /\ y \in S /\ Cardinality(below(x)) = Cardinality(below(y))
    BY <1>1, <1>5
  <2>2. x < y \/ y < x \/ x = y
    BY <1>1, <2>1
  <2> HIDE DEF below
  <2> QED  BY <1>3, <2>1, <2>2
<1>6. rank \in Injection(Oldest(S, n), 0 .. n - 1)
  BY <1>4, <1>5 DEF Injection, IsInjective
<1>7. IsFiniteSet(0 .. n - 1) /\ Cardinality(0 .. n - 1) = n
  BY FS_Interval
<1>8. Cardinality(Oldest(S, n)) <= Cardinality(0 .. n - 1)
  BY <1>6, <1>7, FS_Injection
<1> QED  BY <1>1, <1>7, <1>8

\* After recovery no task becomes a recovering one.
LEMMA UnassignedShrinks ==
    ASSUME TypeOK, CalmInv, \/ Moved /\ phase # "boot"
                            \/ Served
    PROVE  Unassigned' \subseteq Unassigned
<1>1. SUFFICES ASSUME NEW u \in Task, db'[u].status = "recovering", db'[u].cid = NoCid
               PROVE  db[u].status = "recovering" /\ db[u].cid = NoCid
  BY DEF Unassigned, Rows
<1>2. ~Submits(u) /\ ~Retries(u) /\ ~Withdraws(u) /\ ~Cancels(u) /\ \A t \in Task : ~Reviews(t, u)
  BY <1>1 DEF Submits, Retries, Withdraws, Cancels, Reviews, Wrote
<1>3. WritesRow(u) \/ Completes(u) => Same(u)
  BY <1>1
     DEF WritesRow, OpensGate, Cleans, Requeues, Promotes, Completes, Assigns, Starts, Fails,
         Tried, Wrote
<1>4. Same(u)
  BY <1>2, <1>3 DEF Moved, Served, AllSame, OthersSame, Marks, At
<1> QED  BY <1>1, <1>4 DEF Same, Wrote

\* monitorRecovering leaves no listed task recovering without a container.
LEMMA RecoveringTurn ==
    ASSUME "store" \notin FaultKinds, TypeOK, CalmInv, phase = "recovering", OrchestratorNext
    PROVE  \/ step = "list" /\ Iterate(Rows("recovering")) /\ UNCHANGED db
           \/ step # "list" /\ phase' = phase /\ todo' = todo
           \/ step # "list" /\ \E t \in Task : Advance(t) /\ t \notin Unassigned'
<1> USE DEF At
<1>1. ASSUME NEW t \in Task, Turn(t), step \in Before
      PROVE  db[t].status = "recovering" /\ db[t].cid = snap[t].cid /\ Exists(t)
  BY <1>1, AtHand DEF CalmInv, Listed
<1>2. \A s : Goto(s) => phase' = phase /\ todo' = todo
  BY DEF Goto
<1>3. CASE RecoveringList
  BY <1>3 DEF RecoveringList, List, Breaks
<1>4. ASSUME NEW t \in Task, RequeueUnassigned(t) \/ Requeue(t)
      PROVE  step # "list" /\ Advance(t) /\ t \notin Unassigned'
  <2>1. Turn(t) /\ step \in Before /\ RequeueTask(t) /\ Advance(t) /\ step # "list"
    BY <1>4 DEF RequeueUnassigned, Requeue, BestEffort, Breaks, Before
  <2>2. db'[t].status = "pending"
    BY <1>1, <2>1, Effects DEF Wrote
  <2> QED  BY <2>1, <2>2 DEF Unassigned, Rows
<1>5. ASSUME NEW t \in Task, Promote(t)
      PROVE  step # "list" /\ Advance(t) /\ t \notin Unassigned'
  <2>1. Turn(t) /\ step \in Before /\ UpdateTaskStatus(t, "running") /\ Advance(t) /\ step # "list"
    BY <1>5 DEF Promote, BestEffort, Breaks, Before
  <2>2. Exists(t)
    BY <1>1, <2>1
  <2>3. Wrote(t, "running", db[t].cid, db[t].ready, db[t].userRetries)
    BY <2>1, <2>2, Effects
  <2> QED  BY <2>1, <2>3 DEF Unassigned, Rows, Wrote
<1>6. ASSUME NEW t \in Task, Probe(t)
      PROVE  /\ step # "list" /\ t \notin Unassigned'
             /\ Advance(t) \/ (phase' = phase /\ todo' = todo)
  <2>1. /\ Turn(t) /\ step \in Before /\ step # "list" /\ snap[t].cid # NoCid /\ UNCHANGED db
        /\ Advance(t) \/ \E s \in {"requeue", "promote", "complete", "complete_chain"} : Goto(s)
    BY <1>6 DEF Probe, InspectFailed, HandleCompletion, Before
  <2> QED  BY <1>1, <1>2, <2>1 DEF Unassigned
<1>7. ASSUME NEW t \in Task, OpenGate(t)
      PROVE  step # "list" /\ Advance(t) /\ t \notin Unassigned'
  <2>1. Turn(t) /\ step = "gate" /\ MarkReadyForRetry(t) /\ Advance(t)
    BY <1>7 DEF OpenGate, BestEffort, Breaks
  <2>2. db[t].status = "failed" /\ Exists(t)
    BY <2>1, AfterWrite DEF CalmInv, HandOK
  <2>3. db'[t].status = "failed"
    BY <2>1, <2>2, Effects DEF Wrote
  <2> QED  BY <2>1, <2>3 DEF Unassigned, Rows
<1>8. ASSUME NEW t \in Task, CompleteChain(t)
      PROVE  /\ step # "list"
             /\ (Advance(t) /\ t \notin Unassigned') \/ (phase' = phase /\ todo' = todo)
  <2>1. Turn(t) /\ step \in Before /\ step # "list"
    BY <1>8 DEF CompleteChain, Before
  <2>2. ASSUME NEW child \in Task, IsNext(child), CompleteTaskWithChild(t, child)
        PROVE  t \notin Unassigned'
    BY <1>1, <2>1, <2>2, ChainEffects DEF Unassigned, Rows, Wrote
  <2>3. \/ Advance(t) /\ \E child \in Task : IsNext(child) /\ CompleteTaskWithChild(t, child)
        \/ Goto("complete")
    BY <1>8 DEF CompleteChain
  <2> QED  BY <1>2, <2>1, <2>2, <2>3
<1>9. ASSUME NEW t \in Task, Complete(t)
      PROVE  /\ step # "list"
             /\ (Advance(t) /\ t \notin Unassigned') \/ (phase' = phase /\ todo' = todo)
  <2>1. Turn(t) /\ step \in Before /\ step # "list" /\ CompleteTask(t, FinalStatus(hand.report))
    BY <1>9 DEF Complete, Before, Breaks
  <2>2. db'[t].status \in {"completed", "failed"}
    BY <1>1, <2>1, Effects DEF CompleteTask, FinalStatus, Wrote
  <2>3. Advance(t) \/ Goto("gate")
    BY <1>9 DEF Complete
  <2> QED  BY <1>2, <2>1, <2>2, <2>3 DEF Unassigned, Rows
<1> QED
  BY <1>3, <1>4, <1>5, <1>6, <1>7, <1>8, <1>9
     DEF OrchestratorNext, BootListRunning, BootListProvisioning, BootListRecovering, BootMark,
         BootClear, CancelledList, RunningList, DispatchList, List, CleanUnassigned, CleanStop,
         CleanClear, WatchTimedOut, Watch, KillTask, Assign, RunAgent, Start, FailDispatch

\* dispatchPending lists as many tasks as there are free slots, and takes one for each.
LEMMA DispatchTurn ==
    ASSUME "store" \notin FaultKinds, TypeOK, CalmInv, phase = "dispatch", OrchestratorNext
    PROVE  \/ /\ UNCHANGED running
              /\ \/ Iterate({})
                 \/ /\ running < MaxConcurrent
                    /\ Iterate(Oldest(Rows("pending"), MaxConcurrent - running))
           \/ step # "list" /\ UNCHANGED <<running, todo>>
           \/ /\ step # "list" /\ running' \in {running, running + 1}
              /\ \E t \in Task : Turn(t) /\ Advance(t)
<1> USE DEF At
<1>1. CASE DispatchList
  BY <1>1 DEF DispatchList, List, Breaks
<1>2. ASSUME NEW t \in Task, Assign(t) \/ RunAgent(t)
      PROVE  step # "list" /\ UNCHANGED <<running, todo>>
  BY <1>2 DEF Assign, RunAgent, Goto
<1>3. ASSUME NEW t \in Task, Start(t) \/ FailDispatch(t)
      PROVE  step # "list" /\ running' \in {running, running + 1} /\ Turn(t) /\ Advance(t)
  BY <1>3 DEF Start, FailDispatch, Breaks, Acquire
<1>4. step \notin {"complete_chain", "complete", "gate"}
  BY DEF CalmInv, SnapInv, Steps
<1> QED
  BY <1>1, <1>2, <1>3, <1>4
     DEF OrchestratorNext, BootListRunning, BootListProvisioning, BootListRecovering, BootMark,
         BootClear, CancelledList, RecoveringList, RunningList, List, CleanUnassigned, CleanStop,
         CleanClear, RequeueUnassigned, Probe, Requeue, Promote, WatchTimedOut, Watch, KillTask,
         OpenGate, CompleteChain, Complete

LEMMA RoomKept ==
    ASSUME "store" \notin FaultKinds, TypeOK, CalmInv, RoomInv, [CalmNext]_vars
    PROVE  RoomInv'
<1> USE DEF At
<1>1. CASE Crash
  BY <1>1 DEF Crash, Restarted, RoomInv
<1>2. CASE ~Orchestrate /\ ~Crash
  <2>1. UNCHANGED orchVars
    BY <1>2 DEF CalmNext, Serve, Outside, AgentStops, TimePasses, vars
  <2>2. Unassigned' \subseteq Unassigned
    BY <1>2, AnyMove, UnassignedShrinks
  <2> QED  BY <2>1, <2>2 DEF RoomInv, orchVars, goroutine
<1>3. CASE Orchestrate
  <2>1. OrchestratorNext /\ Moved /\ phase \in Phase
    BY <1>3, AnyMove DEF Orchestrate, TypeOK, OrchestratorTypeOK
  <2>2. phase' = phase \/ (phase' = NextPhase(phase) /\ step' = "list")
    BY <2>1, Passage
  <2>3. phase # "boot" => Unassigned' \subseteq Unassigned
    BY <2>1, UnassignedShrinks
  <2>4. ASSUME phase' = "dispatch", step' # "list"
        PROVE  running' + Cardinality(todo') <= MaxConcurrent
    <3>1. phase = "dispatch"
      BY <2>2, <2>4
    <3>2. running \in Nat /\ todo \in SUBSET Task /\ Cardinality(todo) \in Nat
          /\ MaxConcurrent \in Nat
      BY TaskSets, CapacityAssumption DEF TypeOK, OrchestratorTypeOK
    <3>3. step # "list" => running + Cardinality(todo) <= MaxConcurrent
      BY <3>1 DEF RoomInv
    <3>4. CASE Iterate({})
      BY <2>4, <3>4 DEF Iterate
    <3>5. CASE /\ UNCHANGED running /\ running < MaxConcurrent
               /\ Iterate(Oldest(Rows("pending"), MaxConcurrent - running))
      <4>1. MaxConcurrent - running \in Nat /\ Rows("pending") \in SUBSET Task
        BY <3>2, <3>5 DEF Rows
      <4>2. Cardinality(todo') <= MaxConcurrent - running
        BY <3>5, <4>1, OldestCount DEF Iterate
      <4>3. todo' \in SUBSET Task
        BY <3>5, <4>1, OldestCount DEF Iterate
      <4>4. Cardinality(todo') \in Nat
        BY <4>3, TaskSets
      <4> QED  BY <3>2, <3>5, <4>2, <4>4
    <3>6. ASSUME NEW t \in Task, Turn(t), Advance(t), running' \in {running, running + 1},
                 step # "list"
          PROVE  running' + Cardinality(todo') <= MaxConcurrent
      <4>1. t \in todo /\ todo' = todo \ {t}
        BY <3>6, TurnIs DEF Advance
      <4>2. Cardinality(todo') = Cardinality(todo) - 1
        BY <3>2, <4>1, SlotHoldersFinite
      <4> QED  BY <3>2, <3>3, <3>6, <4>2
    <3>7. CASE step # "list" /\ UNCHANGED <<running, todo>>
      BY <3>3, <3>7
    <3> QED  BY <2>1, <3>1, <3>4, <3>5, <3>6, <3>7, DispatchTurn
  <2>5. ASSUME phase = "recovering", phase' = "recovering", step' # "list"
        PROVE  Unassigned' \subseteq todo'
    <3>1. CASE step = "list" /\ Iterate(Rows("recovering")) /\ UNCHANGED db
      BY <3>1 DEF Iterate, Unassigned, Rows
    <3>2. CASE step # "list" /\ todo' = todo
      BY <2>3, <2>5, <3>2 DEF RoomInv
    <3>3. ASSUME NEW t \in Task, Advance(t), t \notin Unassigned', step # "list"
          PROVE  Unassigned' \subseteq todo'
      BY <2>3, <2>5, <3>3 DEF Advance, RoomInv
    <3> QED  BY <2>1, <2>5, <3>1, <3>2, <3>3, RecoveringTurn
  <2>6. ASSUME phase = "recovering", phase' = "running" PROVE Unassigned' = {}
    <3>1. CASE step = "list" /\ Iterate(Rows("recovering")) /\ UNCHANGED db
      BY <2>6, <3>1 DEF Iterate, Unassigned, Rows
    <3>2. ASSUME NEW t \in Task, Advance(t), t \notin Unassigned', step # "list"
          PROVE  Unassigned' = {}
      BY <2>3, <2>6, <3>2 DEF Advance, RoomInv
    <3> QED  BY <2>1, <2>6, <3>1, <3>2, RecoveringTurn
  <2>7. phase \in {"running", "dispatch"} => Unassigned' = {}
    BY <2>3 DEF RoomInv
  <2>8. phase' = "recovering" /\ step' # "list" => phase = "recovering"
    BY <2>2
  <2>9. phase' \in {"running", "dispatch"} =>
          phase \in {"running", "dispatch"} \/ (phase = "recovering" /\ phase' = "running")
    BY <2>1, <2>2 DEF NextPhase, Phase
  <2> QED  BY <2>4, <2>5, <2>6, <2>7, <2>8, <2>9 DEF RoomInv
<1> QED  BY <1>1, <1>2, <1>3
----------------------------------------------------------------------------
(* The refinement of the life of a task.                                   *)

LEMMA PublicByRow ==
    ASSUME NEW u \in Task, Same(u)
    PROVE  PublicState(u)' = PublicState(u) /\ db'[u].userRetries = db[u].userRetries
BY DEF Same, Wrote, PublicState

LEMMA OneMoves ==
    ASSUME NEW t \in Task, OthersSame(t), NEW from, NEW to,
           PublicState(t) \in from, PublicState(t)' = to,
           db'[t].userRetries = db[t].userRetries
    PROVE  Lifecycle!Move(t, from, to)
<1>1. \A u \in Task \ {t} : PublicState(u)' = PublicState(u)
  BY PublicByRow DEF OthersSame
<1>2. \A u \in Task : db'[u].userRetries = db[u].userRetries
  BY PublicByRow DEF OthersSame
<1>3. [u \in Task |-> PublicState(u)'] = [[u \in Task |-> PublicState(u)] EXCEPT ![t] = to]
  BY <1>1
<1>4. [u \in Task |-> db'[u].userRetries] = [u \in Task |-> db[u].userRetries]
  BY <1>2
<1> QED  BY <1>3, <1>4 DEF Lifecycle!Move

LEMMA NothingMoves ==
    ASSUME \A u \in Task : PublicState(u)' = PublicState(u)
                           /\ db'[u].userRetries = db[u].userRetries
    PROVE  UNCHANGED Lifecycle!vars
<1>1. [u \in Task |-> PublicState(u)'] = [u \in Task |-> PublicState(u)]
  OBVIOUS
<1>2. [u \in Task |-> db'[u].userRetries] = [u \in Task |-> db[u].userRetries]
  OBVIOUS
<1> QED  BY <1>1, <1>2 DEF Lifecycle!vars

\* The public state of a row, from the columns that decide it.
LEMMA PublicIs ==
    ASSUME NEW t \in Task
    PROVE  /\ db[t].status = "absent" => PublicState(t) = "none"
           /\ db[t].status = "deleted" => PublicState(t) = "deleted"
           /\ db[t].status = "pending" => PublicState(t) = "queued"
           /\ db[t].status \in Active => PublicState(t) = "active"
           /\ db[t].status = "cancelled" =>
                PublicState(t) = IF db[t].cid = NoCid THEN "cancelled" ELSE "stopping"
           /\ db[t].status = "completed" => PublicState(t) = "completed"
           /\ db[t].status = "failed" => PublicState(t) = "failed"
BY DEF PublicState, Active

LEMMA PublicWillBe ==
    ASSUME NEW t \in Task
    PROVE  /\ db'[t].status = "absent" => PublicState(t)' = "none"
           /\ db'[t].status = "deleted" => PublicState(t)' = "deleted"
           /\ db'[t].status = "pending" => PublicState(t)' = "queued"
           /\ db'[t].status \in Active => PublicState(t)' = "active"
           /\ db'[t].status = "cancelled" =>
                PublicState(t)' = IF db'[t].cid = NoCid THEN "cancelled" ELSE "stopping"
           /\ db'[t].status = "completed" => PublicState(t)' = "completed"
           /\ db'[t].status = "failed" => PublicState(t)' = "failed"
BY DEF PublicState, Active

\* The instance brings in Cardinality under a name of its own.
LEMMA SameCount ==
    ASSUME NEW S
    PROVE  Lifecycle!Cardinality(S) = Cardinality(S)
BY DEF Lifecycle!Cardinality, Cardinality

\* While the dispatcher takes up a task, the occupied slots are those it counts.
LEMMA OccupiedAtDispatch ==
    ASSUME TypeOK, CalmInv, ProvisioningInv, RoomInv, At("dispatch", "item")
    PROVE  Lifecycle!Occupied = SlotHolders
<1>1. Rows("provisioning") = {} /\ Unassigned = {}
  BY DEF ProvisioningInv, ProvisioningIsOwned, RoomInv, At
<1>2. ASSUME NEW t \in Task PROVE PublicState(t) \in {"active", "stopping"} <=> HoldsSlot(t)
  <2>1. db[t] \in Row /\ RowOK(db[t])
    BY DEF TypeOK, StoreTypeOK, CalmInv, RowInv
  <2>2. db[t].status # "provisioning"
    BY <1>1 DEF Rows
  <2>3. db[t].status = "recovering" => db[t].cid # NoCid
    BY <1>1 DEF Rows, Unassigned
  <2>4. db[t].status \in {"absent", "deleted", "pending", "running", "recovering", "cancelled",
                          "completed", "failed"}
    BY <2>1, <2>2 DEF Row, RowOK, Status, Active, Terminal, NotARow
  <2> QED  BY <2>3, <2>4, PublicIs DEF HoldsSlot, Active
<1> QED  BY <1>2 DEF Lifecycle!Occupied, SlotHolders

\* A slot is free for the task at hand.
LEMMA FreeSlot ==
    ASSUME TypeOK, CalmInv, SlotInv, ProvisioningInv, RoomInv, NEW t \in Task, Turn(t),
           At("dispatch", "item")
    PROVE  Cardinality(Lifecycle!Occupied) < MaxConcurrent
<1>1. running = Cardinality(Lifecycle!Occupied)
  BY OccupiedAtDispatch DEF SlotInv, SlotsExact, At
<1>2. t \in todo /\ todo \in SUBSET Task /\ running \in Nat /\ MaxConcurrent \in Nat
  BY TurnIs, CapacityAssumption DEF TypeOK, OrchestratorTypeOK
<1>3. Cardinality(todo) > 0 /\ Cardinality(todo) \in Nat
  BY <1>2, SlotHoldersFinite
<1>4. running + Cardinality(todo) <= MaxConcurrent
  BY DEF RoomInv, At
<1> QED  BY <1>1, <1>2, <1>3, <1>4

\* Every write to the row at hand is a step of the life of its task, or none.
LEMMA WritesAreMoves ==
    ASSUME "store" \notin FaultKinds, TypeOK, CalmInv, SlotInv, ProvisioningInv, RoomInv,
           NEW t \in Task, Turn(t), OthersSame(t), WritesRow(t)
    PROVE  [Lifecycle!Next]_Lifecycle!vars
<1> DEFINE Goes(from, to) == PublicState(t) \in from /\ PublicState(t)' = to
<1>1. WritesRow(t) => db'[t].userRetries = db[t].userRetries
  BY DEF WritesRow, OpensGate, Cleans, Requeues, Promotes, Completes, Assigns, Starts, Fails,
         Tried, Same, Wrote
<1>2. ASSUME PublicState(t)' = PublicState(t) PROVE UNCHANGED Lifecycle!vars
  BY <1>1, <1>2, NothingMoves, PublicByRow DEF OthersSame
<1>3. \A from, to : Goes(from, to) => Lifecycle!Move(t, from, to)
  BY <1>1, OneMoves
<1>4. CASE OpensGate(t) \/ Promotes(t) \/ Starts(t)
  <2>1. PublicState(t)' = PublicState(t)
    BY <1>4, PublicIs, PublicWillBe DEF OpensGate, Promotes, Starts, Wrote, Active, PublicState
  <2> QED  BY <1>2, <2>1
<1>5. CASE Cleans(t)
  <2>1. Goes({"stopping"}, "cancelled")
    BY <1>5, PublicIs, PublicWillBe DEF Cleans, Tried, Wrote
  <2>2. Lifecycle!Stopped(t)
    BY <1>3, <2>1 DEF Lifecycle!Stopped
  <2> QED  BY <2>2 DEF Lifecycle!Next
<1>6. CASE Requeues(t)
  <2>1. Goes({"active"}, "queued")
    BY <1>6, PublicIs, PublicWillBe DEF Requeues, Tried, Wrote, Active
  <2>2. Lifecycle!Requeue(t)
    BY <1>3, <2>1 DEF Lifecycle!Requeue
  <2> QED  BY <2>2 DEF Lifecycle!Next
<1>7. CASE Completes(t)
  <2>1. Goes({"active"}, "completed") \/ Goes({"queued", "active"}, "failed")
    BY <1>7, PublicIs, PublicWillBe DEF Completes, Wrote, Active
  <2>2. Lifecycle!Succeed(t) \/ Lifecycle!Fail(t)
    BY <1>3, <2>1 DEF Lifecycle!Succeed, Lifecycle!Fail
  <2> QED  BY <2>2 DEF Lifecycle!Next
<1>8. CASE Assigns(t)
  <2>1. Goes({"queued"}, "active")
    BY <1>8, PublicIs, PublicWillBe DEF Assigns, Wrote, Active
  <2>2. Cardinality(Lifecycle!Occupied) < MaxConcurrent
    BY <1>8, FreeSlot DEF Assigns
  <2>3. Lifecycle!Move(t, {"queued"}, "active")
    BY <1>3, <2>1
  <2>4. Lifecycle!Start(t)
    BY <2>2, <2>3, SameCount DEF Lifecycle!Start
  <2> QED  BY <2>4 DEF Lifecycle!Next
<1>9. CASE Fails(t)
  <2>1. Goes({"queued", "active"}, "failed")
    BY <1>9, PublicIs, PublicWillBe DEF Fails, Wrote, Active
  <2>2. Lifecycle!Fail(t)
    BY <1>3, <2>1 DEF Lifecycle!Fail
  <2> QED  BY <2>2 DEF Lifecycle!Next
<1> QED  BY <1>4, <1>5, <1>6, <1>7, <1>8, <1>9 DEF WritesRow

\* A completion with its review is one step of the lives of both.
LEMMA ReviewIsMove ==
    ASSUME TypeOK, CalmInv, NEW t \in Task, Completes(t), NEW child \in Task \ {t},
           Reviews(t, child), \A u \in Task \ {t, child} : Same(u)
    PROVE  Lifecycle!SucceedWithReview(t, child)
<1>1. PublicState(t) = "active" /\ PublicState(child) = "none"
  BY PublicIs DEF Completes, Reviews, Active
<1>2. PublicState(t)' = "completed" /\ PublicState(child)' = "queued"
  BY PublicWillBe DEF Completes, Reviews, Wrote
<1>3. db'[t].userRetries = db[t].userRetries /\ db'[child].userRetries = db[child].userRetries
  BY DEF Completes, Reviews, Wrote, CalmInv, RowInv, RowOK, NotARow
<1>4. \A u \in Task \ {t, child} :
         PublicState(u)' = PublicState(u) /\ db'[u].userRetries = db[u].userRetries
  BY PublicByRow
<1>5. [u \in Task |-> PublicState(u)'] =
        [[u \in Task |-> PublicState(u)] EXCEPT ![t] = "completed", ![child] = "queued"]
  BY <1>2, <1>4
<1>6. [u \in Task |-> db'[u].userRetries] = [u \in Task |-> db[u].userRetries]
  BY <1>3, <1>4
<1> QED  BY <1>1, <1>5, <1>6 DEF Lifecycle!SucceedWithReview

\* So is every request.
LEMMA RequestsAreMoves ==
    ASSUME "store" \notin FaultKinds, TypeOK, CalmInv, SlotInv, Served
    PROVE  [Lifecycle!Next]_Lifecycle!vars
<1>1. \A t \in Task : db[t] \in Row /\ RowOK(db[t])
  BY DEF TypeOK, StoreTypeOK, CalmInv, RowInv
<1>2. CASE AllSame
  BY <1>2, NothingMoves, PublicByRow DEF AllSame
<1>3. ASSUME NEW t \in Task, OthersSame(t), Submits(t) PROVE [Lifecycle!Next]_Lifecycle!vars
  <2>1. PublicState(t) = "none" /\ PublicState(t)' = "queued"
    BY <1>3, PublicIs, PublicWillBe DEF Submits, Wrote
  <2>2. db'[t].userRetries = db[t].userRetries
    BY <1>1, <1>3 DEF Submits, Wrote, RowOK, NotARow
  <2>3. Lifecycle!Submit(t)
    BY <1>3, <2>1, <2>2, OneMoves DEF Lifecycle!Submit
  <2> QED  BY <2>3 DEF Lifecycle!Next
<1>4. ASSUME NEW t \in Task, OthersSame(t), Cancels(t) PROVE [Lifecycle!Next]_Lifecycle!vars
  <2>1. db'[t].userRetries = db[t].userRetries
    BY <1>4 DEF Cancels, Wrote
  <2>2. CASE db[t].status = "cancelled"
    <3>1. PublicState(t)' = PublicState(t)
      BY <1>4, <2>2, PublicIs, PublicWillBe DEF Cancels, Wrote
    <3> QED  BY <1>4, <2>1, <3>1, NothingMoves, PublicByRow DEF OthersSame
  <2>3. CASE db[t].status \in Active
    <3>1. PublicState(t) = "active" /\ PublicState(t)' \in {"stopping", "cancelled"}
      BY <1>4, <2>3, PublicIs, PublicWillBe DEF Cancels, Wrote
    <3>2. Lifecycle!Cancel(t)
      BY <1>4, <2>1, <3>1, OneMoves DEF Lifecycle!Cancel
    <3> QED  BY <3>2 DEF Lifecycle!Next
  <2> QED  BY <1>4, <2>2, <2>3 DEF Cancels
<1>5. ASSUME NEW t \in Task, OthersSame(t), Withdraws(t) PROVE [Lifecycle!Next]_Lifecycle!vars
  <2>1. PublicState(t)' = "deleted" /\ db'[t].userRetries = 0
    BY <1>5, PublicWillBe DEF Withdraws, Wrote
  <2>2. CASE db[t].status = "deleted"
    <3>1. PublicState(t)' = PublicState(t) /\ db'[t].userRetries = db[t].userRetries
      BY <1>1, <2>1, <2>2, PublicIs DEF RowOK, NotARow
    <3> QED  BY <1>5, <3>1, NothingMoves, PublicByRow DEF OthersSame
  <2>3. CASE db[t].status = "pending"
    <3>1. PublicState(t) = "queued"
      BY <2>3, PublicIs
    <3>2. [u \in Task |-> PublicState(u)'] =
            [[u \in Task |-> PublicState(u)] EXCEPT ![t] = "deleted"]
      BY <1>5, <2>1, PublicByRow DEF OthersSame
    <3>3. [u \in Task |-> db'[u].userRetries] =
            [[u \in Task |-> db[u].userRetries] EXCEPT ![t] = 0]
      BY <1>5, <2>1, PublicByRow DEF OthersSame
    <3>4. Lifecycle!Delete(t)
      BY <3>1, <3>2, <3>3 DEF Lifecycle!Delete
    <3> QED  BY <3>4 DEF Lifecycle!Next
  <2> QED  BY <1>5, <2>2, <2>3 DEF Withdraws
<1>6. ASSUME NEW t \in Task, OthersSame(t), Retries(t) PROVE [Lifecycle!Next]_Lifecycle!vars
  <2>1. db[t].status = "cancelled" => db[t].cid = NoCid
    BY <1>6 DEF Retries, SlotInv, QuietInv
  <2>2. PublicState(t) \in {"failed", "cancelled"} /\ PublicState(t)' = "queued"
    BY <1>6, <2>1, PublicIs, PublicWillBe DEF Retries, Wrote
  <2>3. [u \in Task |-> PublicState(u)'] =
          [[u \in Task |-> PublicState(u)] EXCEPT ![t] = "queued"]
    BY <1>6, <2>2, PublicByRow DEF OthersSame
  <2>4. db'[t].userRetries = db[t].userRetries + 1 /\ db[t].userRetries < MaxUserRetries
    BY <1>6 DEF Retries, Wrote
  <2>5. [u \in Task |-> db'[u].userRetries] =
          [[u \in Task |-> db[u].userRetries] EXCEPT ![t] = @ + 1]
    BY <1>6, <2>4, PublicByRow DEF OthersSame
  <2>6. Lifecycle!Retry(t)
    BY <2>2, <2>3, <2>4, <2>5 DEF Lifecycle!Retry
  <2> QED  BY <2>6 DEF Lifecycle!Next
<1> QED  BY <1>2, <1>3, <1>4, <1>5, <1>6 DEF Served

LEMMA LifecycleStep ==
    ASSUME "store" \notin FaultKinds, TypeOK, CalmInv, SlotInv, ProvisioningInv, RoomInv,
           [CalmNext]_vars
    PROVE  [Lifecycle!Next]_Lifecycle!vars
<1>1. CASE Served
  BY <1>1, RequestsAreMoves
<1>2. CASE Moved
  <2>1. AllSame => Served
    BY DEF Served
  <2>2. ASSUME NEW t \in Task, Marks(t), OthersSame(t)
        PROVE  [Lifecycle!Next]_Lifecycle!vars
    <3>1. /\ PublicState(t)' = PublicState(t) /\ db'[t].userRetries = db[t].userRetries
      BY <2>2, PublicIs, PublicWillBe DEF Marks, Wrote, Active
    <3> QED  BY <2>2, <3>1, NothingMoves, PublicByRow DEF OthersSame
  <2>3. ASSUME NEW t \in Task, Completes(t), NEW child \in Task \ {t}, Reviews(t, child),
               \A u \in Task \ {t, child} : Same(u)
        PROVE  [Lifecycle!Next]_Lifecycle!vars
    <3>1. Lifecycle!SucceedWithReview(t, child)
      BY <2>3, ReviewIsMove
    <3> QED  BY <3>1 DEF Lifecycle!Next
  <2> QED  BY <1>1, <1>2, <2>1, <2>2, <2>3, WritesAreMoves DEF Moved
<1> QED  BY <1>1, <1>2, AnyMove

LEMMA LifecycleStart == Init => Lifecycle!Init
<1> SUFFICES ASSUME Init PROVE Lifecycle!Init
  OBVIOUS
<1>1. \A t \in Task : db[t].status = "absent" /\ db[t].userRetries = 0
  BY DEF Init, StoreInit, NoRow, NewRow
<1>2. \A t \in Task : PublicState(t) = "none"
  BY <1>1, PublicIs
<1> QED  BY <1>1, <1>2 DEF Lifecycle!Init

LEMMA ProvisioningKept ==
    ASSUME "store" \notin FaultKinds, TypeOK, ProvisioningInv, [CalmNext]_vars
    PROVE  ProvisioningInv'
BY BootKeeps, DispatchKeeps, ListKeeps, MonitorsKeep, OthersKeep
   DEF CalmNext, Orchestrate, OrchestratorNext

\* Whatever store, docker, goroutine and handlers do, step by step, is to the user the
\* life of a task: one attempt at a time, never more of them than there are slots, a
\* review in the same step as its parent's end, a retry only of what is over.
THEOREM LifecycleImplemented ==
    ASSUME "store" \notin FaultKinds, OneDisturbance
    PROVE  Undisturbed => ImplementsLifecycle
<1>1. TypeOK /\ CalmInv /\ SlotInv /\ [CalmNext]_vars => SlotInv'
  BY QuietKept, SlotsKept DEF SlotInv
<1>2. TypeOK /\ CalmInv /\ RoomInv /\ [CalmNext]_vars => RoomInv'
  BY RoomKept
<1>3. TypeOK /\ ProvisioningInv /\ [CalmNext]_vars => ProvisioningInv'
  BY ProvisioningKept
<1>4. TypeOK /\ CalmInv /\ SlotInv /\ ProvisioningInv /\ RoomInv /\ [CalmNext]_vars
        => [Lifecycle!Next]_Lifecycle!vars
  BY LifecycleStep
<1>5. Init => RoomInv /\ ProvisioningInv
  BY DEF Init, StoreInit, NoRow, NewRow, Booting, RoomInv, ProvisioningInv, ProvisioningIsOwned,
         Rows, At
<1>6. Undisturbed => Init
  BY DEF Undisturbed, Spec, QuietSpec
<1> QED
  BY <1>1, <1>2, <1>3, <1>4, <1>5, <1>6, SlotsStart, LifecycleStart, CalmAlways, PTL
     DEF ImplementsLifecycle, Lifecycle!Spec
=============================================================================
