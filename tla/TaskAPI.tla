------------------------------- MODULE TaskAPI -------------------------------
(***************************************************************************)
(* The handlers of the REST API that write tasks (internal/api): create,   *)
(* delete and retry.  Each request runs on a goroutine of its own, a       *)
(* Client.  The delete and retry handlers read the task, decide, and then  *)
(* write by id: the decision is all they keep, and anything may happen to  *)
(* the row in between.                                                     *)
(***************************************************************************)
EXTENDS TaskStore

CONSTANTS
    Client,     \* the requests that may be served at once
    Requests    \* the kinds of request that are made

ASSUME RequestsAssumption == Requests \subseteq {"create", "delete", "retry"}

VARIABLE req    \* req[c]: the write that request c has decided on, and its task

Idle == [op |-> "idle", task |-> NoTask]
Request == {Idle} \cup [op : {"cancel", "delete", "retry"}, task : Task]

RequestsTypeOK == req \in [Client -> Request]
RequestsInit == req = [c \in Client |-> Idle]
NoRequest == \A c \in Client : req[c] = Idle

Decide(c, op, t) == req' = [req EXCEPT ![c] = [op |-> op, task |-> t]]
Finish(c) == req' = [req EXCEPT ![c] = Idle]

\* POST /tasks: one INSERT.
Create ==
    /\ "create" \in Requests
    /\ \E t \in Task, selfReview \in BOOLEAN : IsNext(t) /\ CreateTask(t, selfReview)
    /\ UNCHANGED req

\* Mutation: whatever is not pending is cancelled.
DeletePreflight_AnyStatus(c, t) ==
    /\ "delete" \in Requests
    /\ req[c] = Idle
    /\ Exists(t)
    /\ Decide(c, IF db[t].status = "pending" THEN "delete" ELSE "cancel", t)
    /\ UNCHANGED db

\* DELETE /tasks/{id}, GetTask and the decision.  A terminal task is left alone.
DeletePreflight(c, t) ==
    /\ "delete" \in Requests
    /\ req[c] = Idle
    /\ Exists(t)
    /\ \/ db[t].status \in Active /\ Decide(c, "cancel", t)
       \/ db[t].status \notin Active \cup Terminal /\ Decide(c, "delete", t)
    /\ UNCHANGED db

DeleteCancels(c) ==
    /\ req[c].op = "cancel"
    /\ CancelTask(req[c].task)
    /\ Finish(c)

DeleteDeletes(c) ==
    /\ req[c].op = "delete"
    /\ DeleteTask(req[c].task)
    /\ Finish(c)

\* POST /tasks/{id}/retry, GetTask and the preflight checks of RetryTask.
RetryPreflight(c, t) ==
    /\ "retry" \in Requests
    /\ req[c] = Idle
    /\ db[t].status \in {"failed", "interrupted", "cancelled"}
    /\ db[t].userRetries < MaxUserRetries
    /\ Decide(c, "retry", t)
    /\ UNCHANGED db

\* The guarded UPDATE; a request it refuses is told to try again shortly.
RetryRequeues(c) ==
    /\ req[c].op = "retry"
    /\ RetryTask(req[c].task)
    /\ Finish(c)

\* The write fails, or its context is cancelled because the client went away.
RequestFails(c) ==
    /\ req[c] # Idle
    /\ Finish(c)
    /\ UNCHANGED db

HandlerNext ==
    \/ Create
    \/ \E c \in Client :
         \/ \E t \in Task : DeletePreflight(c, t) \/ RetryPreflight(c, t)
         \/ DeleteCancels(c) \/ DeleteDeletes(c) \/ RetryRequeues(c)
         \/ RequestFails(c)
=============================================================================
