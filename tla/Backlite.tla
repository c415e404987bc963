------------------------------ MODULE Backlite ------------------------------
(***************************************************************************)
(* The server: the orchestrator goroutine and the API handlers over one    *)
(* store and one Docker host, and the process that may stop and start      *)
(* again between any two of their calls.                                   *)
(***************************************************************************)
EXTENDS Orchestrator, TaskAPI

CONSTANT MaxCrashes    \* bound: crashes and restarts of the server
ASSUME CrashAssumption == MaxCrashes \in Nat

VARIABLE crashes       \* crashes so far

vars == <<faults, db, ctr, orchVars, req, crashes>>

TypeOK ==
    /\ FaultsTypeOK
    /\ StoreTypeOK
    /\ ContainersTypeOK
    /\ OrchestratorTypeOK
    /\ RequestsTypeOK
    /\ crashes \in 0 .. MaxCrashes

Init ==
    /\ FaultsInit
    /\ StoreInit
    /\ ContainersInit
    /\ Booting
    /\ RequestsInit
    /\ crashes = 0

Orchestrate == OrchestratorNext /\ UNCHANGED <<req, crashes>>

Serve == HandlerNext /\ UNCHANGED <<faults, ctr, orchVars, crashes>>

AgentStops ==
    /\ \E c \in Cid, report \in Report : AgentExits(c, report)
    /\ UNCHANGED <<faults, db, orchVars, req, crashes>>

TimePasses(t) ==
    /\ DeadlinePasses(t)
    /\ UNCHANGED <<faults, ctr, orchVars, req, crashes>>

\* The process ends, at any point, and is started again: the store and the
\* containers are as they were, the orchestrator recovers, requests are lost.
Crash ==
    /\ crashes < MaxCrashes
    /\ crashes' = crashes + 1
    /\ Restarted
    /\ req' = [c \in Client |-> Idle]
    /\ UNCHANGED <<faults, db, ctr>>

Outside == AgentStops \/ \E t \in Task : TimePasses(t)

Next == Orchestrate \/ Serve \/ Outside \/ Crash

Spec == Init /\ [][Next]_vars

\* The goroutine of the orchestrator runs, and so does the clock.  Agents may
\* hang for ever, users may never make a request, nothing needs to crash.
Fairness ==
    /\ WF_vars(Orchestrate)
    /\ \A t \in Task : WF_vars(TimePasses(t))

----------------------------------------------------------------------------
(* The same server under a light load: a tick takes milliseconds and comes *)
(* every few seconds, so most requests are served, from the first read to  *)
(* the write, while the orchestrator waits for its next tick.  The step    *)
(* "list" of the phase "cancelled" is the start of a tick.                 *)

BetweenTicks == At("cancelled", "list")

QuietNext ==
    \/ NoRequest /\ Orchestrate
    \/ BetweenTicks /\ Serve
    \/ Outside
    \/ Crash

QuietSpec == Init /\ [][QuietNext]_vars

\* A request that was begun also ends: its handler's goroutine runs.
FairQuietSpec ==
    /\ QuietSpec
    /\ Fairness
    /\ \A c \in Client : WF_vars(BetweenTicks /\ Serve /\ req[c] # Idle /\ req'[c] = Idle)

----------------------------------------------------------------------------
(* Safety.                                                                 *)

\* The tasks that o.running should count: those with a container to watch, and
\* the cancelled ones whose container has still to be stopped.
HoldsSlot(t) ==
    \/ db[t].status = "running"
    \/ db[t].status \in {"recovering", "cancelled"} /\ db[t].cid # NoCid

SlotHolders == {t \in Task : HoldsSlot(t)}

\* The in-memory counter of monitor, dispatch and lifecycle is, at every step
\* of a tick, the number of rows that hold a slot: no path releases a slot
\* twice, forgets to release it or releases one it does not have.
SlotsExact == phase # "boot" => running = Cardinality(SlotHolders)

\* dispatchPending and the release of slots together keep the containers that
\* run at any time within BACKFLOW_MAX_CONTAINERS.
CapacityRespected == Cardinality({c \in Cid : Live(c)}) <= MaxConcurrent

\* Every running container belongs to a task that still knows it and holds a
\* slot for it, but for the moment between docker run and StartTask.
NoOrphanContainer ==
    \A c \in Cid : Live(c) =>
        \/ HoldsSlot(ctr[c].task) /\ db[ctr[c].task].cid = c
        \/ step = "start" /\ hand.cid = c

\* Two requests, retries and cancellations together never push a task past the
\* cap on user retries.
RetriesWithinCap == \A t \in Task : db[t].userRetries <= MaxUserRetries

\* No task is left behind in provisioning: a row has that status only while the
\* dispatcher is at work on it, or until recovery has marked it after a crash.
ProvisioningIsOwned ==
    \A t \in Rows("provisioning") :
        \/ phase = "dispatch" /\ step \in {"run", "start", "fail"} /\ Turn(t)
        \/ phase = "boot" /\ (step \in {"list", "list_provisioning"} \/ t \in todo)

\* The retry gate is open only for a task that has ended.
GateOnlyWhenEnded == \A t \in Task : db[t].ready => db[t].status \in Terminal

----------------------------------------------------------------------------
(* Action properties.                                                      *)

\* A review appears in the step that completes its parent, and in no other.
ReviewComesWithCompletion ==
    [][\A u \in Task :
         ~Exists(u) /\ db'[u].parent # NoTask =>
            LET t == db'[u].parent
            IN  db[t].status # "completed" /\ db'[t].status = "completed"]_vars

\* A task that has ended stays as it ended, unless its user retries it.
EndedStaysEnded ==
    [][\A t \in Task :
         db[t].status \in Terminal /\ db'[t].status # db[t].status =>
            /\ db'[t].status = "pending"
            /\ db'[t].userRetries = db[t].userRetries + 1]_vars

\* A retry is accepted only when the containers of earlier attempts are gone or
\* have exited.
RetryAfterCleanup ==
    [][\A t \in Task :
         db'[t].userRetries > db[t].userRetries =>
            \A c \in Cid : ctr[c].task = t => ~Live(c)]_vars

\* A cancelled task does not come back to life: no attempt at it goes on, and
\* none ends in any other way.
CancelIsHonoured ==
    [][\A t \in Task :
         db[t].status = "cancelled" =>
            db'[t].status \notin Active \cup {"completed", "failed"}]_vars

\* A task lets go of its container, or takes another, only once that container
\* runs no more: no attempt is abandoned while its agent is at work.
LetsGoOfNoLiveContainer ==
    [][\A t \in Task :
         db[t].cid # NoCid /\ Live(db[t].cid) => db'[t].cid = db[t].cid]_vars

\* A task is completed only on the word of the container of its own, current
\* attempt; a restart in between, a kill or an older attempt cannot pass for one.
SuccessIsReported ==
    [][\A t \in Task :
         db[t].status # "completed" /\ db'[t].status = "completed" =>
            db[t].cid # NoCid /\ ctr[db[t].cid] \in
                [task : {t}, state : {"code_pr", "plain"}]]_vars

----------------------------------------------------------------------------
(* Refinement: the life of a task as its users see it.                     *)

PublicState(t) ==
    LET row == db[t] IN
    CASE row.status = "absent"   -> "none"
      [] row.status = "deleted"  -> "deleted"
      [] row.status = "pending"  -> "queued"
      [] row.status \in Active   -> "active"
      [] row.status = "cancelled" /\ row.cid # NoCid -> "stopping"
      [] OTHER -> row.status

Lifecycle == INSTANCE TaskLifecycle WITH
    Capacity   <- MaxConcurrent,
    RetryLimit <- MaxUserRetries,
    state      <- [t \in Task |-> PublicState(t)],
    retries    <- [t \in Task |-> db[t].userRetries]

ImplementsLifecycle == Lifecycle!Spec

----------------------------------------------------------------------------
(* Liveness.                                                               *)

\* A queued task is dispatched, fails to be, or is deleted.
PendingLeavesQueue == \A t \in Task : db[t].status = "pending" ~> db[t].status # "pending"

\* Whatever its agent does, an attempt ends.
ActiveEnds == \A t \in Task : db[t].status \in Active ~> db[t].status \notin Active

\* The container of a cancelled task is dealt with.
CancelledIsCleaned ==
    \A t \in Task :
        db[t].status = "cancelled" /\ db[t].cid # NoCid
            ~> ~(db[t].status = "cancelled" /\ db[t].cid # NoCid)

\* A user may retry in the end: the gate opens for every cancelled task, however
\* often the server restarts, and for every task whose container was watched to
\* its failure, unless a crash comes between the completion and
\* MarkReadyForRetry, which nothing makes up for.
RetryGateOpens ==
    \A t \in Task :
        LET ends(S) == db[t].ready \/ db[t].status \notin S IN
        /\ db[t].status = "cancelled" ~> ends({"cancelled"})
        /\ \A n \in 0 .. MaxCrashes :
             db[t].status \in {"running", "recovering"} /\ crashes = n
                ~> ends({"running", "recovering", "failed"}) \/ crashes # n
=============================================================================
