------------------------------ MODULE TaskStore ------------------------------
(***************************************************************************)
(* The tasks table of the SQLite store (internal/store/sqlite.go).  The    *)
(* store owns one connection, so each of its statements is atomic; the     *)
(* program never holds a transaction across two calls except in WithTx.    *)
(* Every UPDATE but RetryTask's selects its row by id alone: it looks at   *)
(* no status, and an UPDATE of a row that is gone succeeds without effect. *)
(*                                                                         *)
(* A task is the number of its creation, so the order of created_at is the *)
(* order of the numbers.  Of the columns the model keeps those that decide *)
(* what the program does next.                                             *)
(***************************************************************************)
EXTENDS Faults, FiniteSets

CONSTANTS
    MaxTasks,        \* bound: rows ever inserted
    MaxContainers,   \* bound: containers ever started
    MaxUserRetries   \* BACKFLOW_MAX_USER_RETRIES

ASSUME StoreAssumption ==
    /\ MaxTasks \in Nat \ {0}
    /\ MaxContainers \in Nat
    /\ MaxUserRetries \in Nat

Task == 1 .. MaxTasks
NoTask == 0               \* parent_task_id IS NULL
Cid == 1 .. MaxContainers
NoCid == 0                \* container_id = ''

VARIABLE db   \* db[t]: the row of t

\* The statuses a row can have; "absent" and "deleted" are a row that is not
\* in the table because it was never inserted or has been deleted.
Active == {"provisioning", "running", "recovering"}
Terminal == {"completed", "failed", "cancelled"}
Status == Active \cup Terminal \cup {"pending", "interrupted"}
NotARow == {"absent", "deleted"}

\* started_at and max_runtime_sec, as far as isTimedOut tells them apart:
\* started_at is NULL, the deadline is ahead, the deadline has passed.
Clock == {"none", "ticking", "over"}

Row == [status      : Status \cup NotARow,
        cid         : Cid \cup {NoCid},
        ready       : BOOLEAN,
        userRetries : Nat,
        clock       : Clock,
        selfReview  : BOOLEAN,
        parent      : Task \cup {NoTask}]

NewRow(selfReview, parent) ==
    [status |-> "pending", cid |-> NoCid, ready |-> FALSE, userRetries |-> 0,
     clock |-> "none", selfReview |-> selfReview, parent |-> parent]

NoRow == [NewRow(FALSE, NoTask) EXCEPT !.status = "absent"]
DeletedRow == [NoRow EXCEPT !.status = "deleted"]

StoreTypeOK == db \in [Task -> Row]
StoreInit == db = [t \in Task |-> NoRow]

Exists(t) == db[t].status \notin NotARow

\* t is the identifier the next INSERT uses.
IsNext(t) ==
    /\ db[t].status = "absent"
    /\ \A u \in Task : u < t => db[u].status # "absent"

----------------------------------------------------------------------------
(* The queries.                                                            *)

Rows(status) == {t \in Task : db[t].status = status}

\* ORDER BY created_at ASC LIMIT n
Oldest(S, n) == {t \in S : Cardinality({u \in S : u < t}) < n}

----------------------------------------------------------------------------
(* The statements.  Updated(t, row) is UPDATE ... WHERE id = t.            *)

Updated(t, row) == IF Exists(t) THEN [db EXCEPT ![t] = row] ELSE db

CreateTask(t, selfReview) ==
    db' = [db EXCEPT ![t] = NewRow(selfReview, NoTask)]

UpdateTaskStatus(t, status) ==
    db' = Updated(t, [db[t] EXCEPT !.status = status])

AssignTask(t) == UpdateTaskStatus(t, "provisioning")

StartTask(t, c) ==
    db' = Updated(t, [db[t] EXCEPT !.status = "running", !.cid = c,
                                   !.clock = "ticking"])

CompleteTask(t, status) == UpdateTaskStatus(t, status)

\* WithTx(CompleteTask(t); CreateTask(child)): both rows or neither.  The
\* child is the review task of chain.Plan, which may not itself be reviewed.
CompleteTaskWithChild(t, child) ==
    db' = [Updated(t, [db[t] EXCEPT !.status = "completed"])
             EXCEPT ![child] = NewRow(FALSE, t)]

\* Mutation: the retry gate stays open across attempts.
Requeued_GateOpen(row) == [row EXCEPT !.status = "pending", !.cid = NoCid, !.clock = "none"]

\* Mutation: a requeue after a restart counts as a retry.
Requeued_CountsRetry(row) ==
    [row EXCEPT !.status = "pending", !.cid = NoCid, !.clock = "none",
                !.ready = FALSE, !.userRetries = @ + 1]

Requeued(row) ==
    [row EXCEPT !.status = "pending", !.cid = NoCid, !.clock = "none",
                !.ready = FALSE]

RequeueTask(t) == db' = Updated(t, Requeued(db[t]))

CancelTask(t) == UpdateTaskStatus(t, "cancelled")

ClearTaskAssignment(t) == db' = Updated(t, [db[t] EXCEPT !.cid = NoCid])

MarkReadyForRetry(t) == db' = Updated(t, [db[t] EXCEPT !.ready = TRUE])

\* Mutations: one of the two conditions is left to the preflight checks.
Retryable_NoGate(t) == Exists(t) /\ db[t].userRetries < MaxUserRetries
Retryable_NoCap(t) == Exists(t) /\ db[t].ready

\* UPDATE ... WHERE id = t AND ready_for_retry AND user_retry_count < max
Retryable(t) == Exists(t) /\ db[t].ready /\ db[t].userRetries < MaxUserRetries

RetryTask(t) ==
    db' = IF Retryable(t)
          THEN [db EXCEPT ![t] = [Requeued(db[t]) EXCEPT !.userRetries = @ + 1]]
          ELSE db

\* parent_task_id REFERENCES tasks(id) ON DELETE SET NULL
DeleteTask(t) ==
    db' = [u \in Task |->
             IF u = t THEN DeletedRow
             ELSE IF db[u].parent = t THEN [db[u] EXCEPT !.parent = NoTask]
             ELSE db[u]]

\* now() passes started_at + max_runtime_sec.  Only a running row's deadline is
\* ever compared, so it may as well pass while the row is running.
DeadlinePasses(t) ==
    /\ db[t].clock = "ticking"
    /\ db[t].status = "running"
    /\ db' = [db EXCEPT ![t].clock = "over"]
=============================================================================
