# Backlite: a TLA+ verification project

Backlite runs coding agents in Docker containers. A REST API creates tasks, an
orchestrator dispatches them to containers, watches the containers and records
how the tasks end, and everything the server must remember is in one SQLite
file. The specifications here model the part of it where things go wrong that
tests hardly reach: one goroutine that walks through the task table call by
call, HTTP handlers that write the same rows in between, containers that live
and die on their own, and a process that may stop at any point.

## Inventory

| Component | State it keeps | Operations | What makes it correct |
|---|---|---|---|
| Task store `internal/store` | the tasks table; one connection, so each statement is atomic | create, status updates by id, assign, start, complete, requeue, cancel, clear assignment, mark ready, retry (the only guarded update), delete, list, `WithTx` | updates by id never resurrect or overwrite what another actor decided; the retry cap holds |
| Docker runner `orchestrator/docker` | none; the containers are Docker's | run, inspect with `status.json`, stop and remove | an answer is never taken for another container's |
| Orchestrator `internal/orchestrator` | `running` (slots in use), `inspectFailures` | startup recovery; a tick: cancelled, recovering, running, dispatch | `running` equals the rows that hold a slot; the cap; no container without a task; every attempt ends |
| Lifecycle coordinator `orchestrator/lifecycle` | none | Assign, Start, FailDispatch, MarkRecovering, Complete, Recover, Requeue | one completion, one release, one event; review and completion together |
| Review chain `orchestrator/chain` | none | Plan, CreateChild | one review per completed code task that asked for one, none of a review |
| REST handlers `internal/api` | a row read earlier | create, delete (cancels an active task), retry; reads, artifacts | what was decided on the row read is still right when it is written, or when a file is served by it |
| Authentication `api/auth.go` | cached "an API key exists" | find the token, refresh the cache, look the key up, check its scope | keys are required soon after the first one exists, whatever requests overlap; a key opens its own routes only |
| Event bus, webhooks `internal/notify` | a channel of 100, closed flag, subscribers | Emit, Close, deliver; three attempts per webhook | Emit never blocks nor panics; accepted events are delivered once, in order |
| Backups `internal/backup` | running flag, upload backoff; artifacts, sidecars and markers on disk | schedule, back up, upload, prune | the newest valid artifact is never deleted; a crash leaves nothing that counts as valid and is not |
| Output writer `orchestrator/outputs` | log and `task.json` per task, kept over its attempts | SaveLog, SaveMetadata | the files agree with the row, no reader sees half a file |
| Configuration `internal/config`, image router, validation `models/task.go` | none; the environment, read at the start | Load, TaskDefaults, Apply, Resolve, Validate | the user's choice, the server's variables and the parent's settings survive defaults, retries and restarts |
| Skill contract `internal/skillcontract` | none | JSON shape checks, used by tests of the agent image | (not modelled) |
| Server process `cmd/backlite` | the goroutines | start, orderly shutdown, crash | shutdown loses no accepted work |

How they interact: handlers and orchestrator share the store and nothing else;
the orchestrator calls Docker; both emit to the bus, which calls the webhook;
the tick also triggers the backup manager, whose work is done in a goroutine.

What is hard: no update but the retry looks at the status it overwrites; a tick
decides on rows as it listed them; the slot counter is in memory and rebuilt
from the table after a restart; each transition is several calls (Docker, store,
counter, store again), any of which may fail and between any of which the
process may end; retries reuse the row of the earlier attempt.

## Modules

| Module | Models |
|---|---|
| `Faults` | the kinds of call that can fail, and the bound on failures |
| `TaskStore` | the rows and one operator per SQL statement |
| `Containers` | the containers, and the answers of run, inspect and stop |
| `Orchestrator` | startup and the tick, one action per call of store or Docker |
| `TaskAPI` | the handlers of create, delete and retry, read and write apart |
| `Backlite` | the composition of those, crashes, the specifications and the properties |
| `TaskLifecycle` | abstract: what a user is promised of a task |
| `MCBacklite` | the instance for TLC, with the symmetry of requests |
| `EventBus` | callers of Emit, callers of Close, and deliver with its webhooks |
| `EventQueue` | abstract: what the bus promises its callers |
| `Shutdown` | the bus with its callers, in the order in which `main` ends the server |
| `Backups` | the tick's retention and scheduling, the worker, the directory and the bucket |
| `Outputs` | the log and `task.json` of a task over its attempts, and the handlers that serve them |
| `Config` | the environment, `Load`, the defaults of tasks, the image router: operators |
| `Intake` | what a request becomes: row, container, review, across restarts with other environments |
| `MCIntake` | the instance for TLC: which requests are sent, and which environments the server meets |
| `Auth` | the middleware, its cache, and the keys that change behind it |
| `MCAuth` | the instance for TLC: which routes are called, and which scopes keys have |
| `BackliteProofs` | proofs: types, the retry cap, reviews and completions, no task left in provisioning |
| `CalmProofs` | proofs, undisturbed by delete handlers: the gate, the ended, the slots, the refinement of `TaskLifecycle` |
| `ContainerProofs` | proofs: reports, orphans, retries and the capacity |
| `ShutdownProofs` | proofs: the closed channel, the drained bus, single acknowledgements, the refinement of `EventQueue` |
| `BackupsProofs` | proofs: types, truthful markers, the newest artifact, the source of an upload, the distance of backups |
| `IntakeProofs` | proofs, for all requests and environments: complete rows, the server's variables, defaults, reviews, images |
| `OutputsProofs` | proofs: types, whole files, and, until a retry overtakes a clean-up, the log of the right attempt |
| `AuthProofs` | proofs: types, how stale the cached answer may be, what a key opens |

### Tasks: `Backlite` and the modules below it

`Orchestrator` follows the goroutine with two variables: `phase` is the function
of the tick it is in, `step` the call it makes next. `todo` and `snap` are the
slice that ListTasks returned: the tasks still to visit and their rows as they
were *then*. An action is one call with the local code up to the next one, so
whatever the code decides on a stale row the model decides on `snap`. `hand` is
what a task's turn has learned so far (container id, report), `found` the count
recovery has made. A task is the number of its creation, which is the order of
`created_at`. Of the columns the model keeps those that decide a step: status,
container, ready_for_retry, user_retry_count, whether the deadline has passed,
self_review and the parent.

The environment: a container exits when it wants with any report; an inspection,
a stop, a run or a store call may fail when the run allows that kind of fault. A
failed `docker cp` of `status.json` counts as the agent's failure, as in the code.
A crash resets all memory and every request, and leaves the store and the
containers.

Two next-state relations. `Next` interleaves everything with everything.
`QuietNext` lets handlers run, from the read to the write, only while the
orchestrator waits for its tick. A tick takes milliseconds and comes every few
seconds, so `QuietNext` is how the server nearly always behaves; a property
that holds only there has a race of handler and tick behind it, and the
run `cancel_lost` shows one of those races.

### Events: `EventBus` and `Shutdown`

Each caller of Emit is at the lock, at the flag or at the send; each caller of
Close or CloseWithTimeout is at the once, at the lock, at the flag, at the channel
or waiting for deliver. `Readers` and `WriterWaits` are the read-write lock, with
the rule of Go's RWMutex that a waiting writer keeps new readers out. `hand` is
the event deliver has received, with the subscriber and the attempt it is at;
an event is the number of the Emit call that brought it. A webhook answers with
success, or the attempt fails, when the request may have arrived all the same.
`acked` and `handled` remember what was answered and what deliver is through
with; no step reads them. `Shutdown` adds the callers there are (request handlers
and the orchestrator) and `main`: on the signal it stops the poll loop without
waiting for it, closes the bus with a time limit, then stops the HTTP server.
The second closer stands for Close, which main does not call but which may be
called beside it.

### Backups: `Backups`

The tick (`pruner`) and the worker share the backup directory: `file`, `meta`,
`marker` and `temp`, by the timestamp that is the artifact's name. The bytes of a
backup are its number, and `Bad` is a file of the same size and other bytes, so
that the checksum can tell what the size cannot. `PruneBegin` lists the directory
and finds the artifact to protect; after it each entry is looked at and removed
in steps of their own (artifact, sidecar, marker), between which the worker may rename, describe,
upload or mark. `temp` holds the time of the last write of a backup's temp files,
which stand or fall together. Any operation may fail (`Breaks`); a crash loses the worker, the tick
and the backoff; the disk may damage a finalized artifact. An unreadable
marker, which the code takes for none, and the status feed are left out.

### Artifacts: `Outputs`

One task, over its attempts. `row` has the columns that serving depends on, `dir`
the two artifacts and `tmp` their `.tmp` siblings; a file says which attempt it tells
of, which status it gives and whether it was written to its end. `hand` is the
task pointer of the tick, so that `task.json` is written from what the pointer says by
then and not from the row. `at` walks through saveAgentOutput, Complete, the gate
and saveOutputMetadata call by call; each may fail, a crash may come between any two.
A reader checks the row and opens the file later.

Everything that writes the row is a step of its own, by id as in the code: Assign and
StartTask, the clearing and the reopening of `monitorCancelled` on a row listed before
(with a container whether its gate is open or not, without one only if it is shut),
promotion and requeue, completion, reload and gate, and the handlers of delete and retry,
whose read comes earlier (`cancel`, `retry`; of retries any number may have read the same
end). A container is the number of the attempt that it was started for. `overtaken`
remembers that a retry was written while a clean-up had the row in hand, and no step
reads it: nothing in the code keeps such a retry out, and the log's properties hold until
then. Coarser than in
`Orchestrator` are the steps that leave row and files alone: docker run and StartTask are
one, an inspection answers as it likes, and slots are left out. A task that is deleted is
out of this module: only pending tasks are, and nothing can be served of them.

### Requests and defaults: `Config` and `Intake`

`Config` is the pure part, one operator per function. `Intake` follows the data of one
request: Validate, NewTask, the row, image and environment of each container, the
report, and the review. A server variable is a name; what matters is whose value of
it the container gets: `server` or `user`. `Reserved` (task.go) and `AlwaysSet`,
`Text`, `Secret` (docker.go) are the two lists that must agree, each translated from
its own source. The operator may restart the server at any time with another
environment, so rows meet defaults, images and credentials they were not made with.
Requests and environments are constants, of which no more is assumed than that JSON
and Atoi give each field its type (`InputAssumption`); `Word` is the set of texts.

### Keys: `Auth`

A request is at the cache, at the query, at the storing of its answer or at its key:
the cache's lock is released in between, so requests overlap. Time is counted in
ticks. `cache.age` is the age of the cached answer, with TTL for too old or never set;
`has` is what was found, `keys` or `nokeys`. `wait` is how long an answer to the query has waited for its storing, at most
`MaxLookup`; `ago` remembers how long ago the table was last empty or not, and no step
of the code reads it. Keys come and go without the server being told; each has a set of
scopes of `Grants`. `ScopeOf` is what auth.go asks of a route, `Documented` what
api/openapi.yaml says under "security" (lines 55, 82, 144, 197 and on), for reads and writes.

## Runs

Bounds of the task runs: tasks `MaxTasks`, containers `MaxContainers`, user retries
`MaxUserRetries`, slots `MaxConcurrent`, requests at once `Client`, failures
`MaxFaults`, crashes `MaxCrashes`. Two tasks and one slot make tasks compete;
two slots make the counter matter beyond 0 and 1. Two retries make a third
attempt, which is what the retry gate needs to go wrong. Three failures are the
threshold of inspections. When all containers are used up `docker run` fails, which
is a path of its own.

| Run | Specification | What it shows |
|---|---|---|
| `between_ticks` | `QuietSpec` | the counter is exact, the cap holds, containers belong to tasks, the gate opens only on ended tasks, a retry waits for the clean-up, ended tasks stay ended, and the server implements `TaskLifecycle` |
| `restarts` | `Spec`, no deletes | two crashes anywhere, two slots: the counter, the refinement, and live containers survive; success is reported by the task's own container |
| `failures` | `Spec`, no deletes | three failures of store, inspection, run and stop, two requests at once: types, the exact counter, the retry cap and the reviews |
| `progress` | `FairQuietSpec` | queued tasks are dispatched, attempts end, cancelled tasks are cleaned up and ended ones become retryable, across a crash |
| `shutdown` | `FairSpec` of `Shutdown` | no send on the closed channel, nothing lost quietly, no webhook acknowledged twice, the bus implements `EventQueue`, Emit returns and the process exits |
| `backups` | `Spec` of `Backups` | the newest valid backup and the one being uploaded are not pruned, markers are truthful, backups keep their distance |
| `outputs` | `FairSpec` of `Outputs` | answers are whole files, an output URL means this attempt's log (until a retry overtakes a clean-up), `task.json` comes to show the committed end |
| `intake` | `Spec` of `Intake` | rows are complete, the server's variables win, defaults fill gaps and nothing else, reviews follow their parents, images are current |
| `auth` | `FairSpec` of `Auth` | the cached answer is at most a TTL and a lookup old, a key opens the routes of its scopes only, to read and to write, the cache follows the table |

Bounds of `shutdown`: a handler and the orchestrator emit three events, one of a
type the webhooks filter out, into a buffer of one, so that it is full while one
event is in hand; two subscribers, two closers. Bounds of `backups`: five
seconds, three backups, an interval of one and a retention of two, one failure or
damage, one crash. That makes two artifacts with a third under way, the oldest of
them past its retention. The run assumes that a backup takes less than the
retention (`MaxDuration`, and three names at most).

Bounds of `outputs`: three attempts, so that a file can be two attempts old and a retry
can follow one that overtook a clean-up, one failure, one crash, one reader (two readers
do not interact). Bounds of `intake`:
requests that differ in two fields from a plain one, which covers each pair of
fields that are defaulted together, environments that differ in one variable, one
restart, two attempts (`MCIntake`); 1000 stands for `math.MaxInt32`. Bounds of `auth`: two requests
at once, which is what a late store needs, one key, a TTL of two
ticks and a lookup of at most one; routes to read health, to read tasks and to write
them, and a key with two of the four scopes, one of two such pairs: of each route one
pair opens it and the other does not.

Fairness. Tasks: the goroutine of the orchestrator runs (weak fairness of its steps)
and time passes (of the deadline of each running task). Agents get none, they
may hang for ever, and nobody must make a request; a request that was begun also
ends, because its handler runs to completion. Shutdown: the goroutines of callers,
closers and main run, and the timer of CloseWithTimeout, and of srv.Shutdown,
fires. Nothing is assumed of deliver, which a webhook may hold up for long: that
is the point of `EmitReturns` and `ProcessExits`.

Outputs: the orchestrator goes on with the artifacts it has begun; nobody
need read, cancel or retry. Auth: the clock and the goroutines of requests go on; keys need not
come, nor requests.

Deadlock is not checked in the runs of `Shutdown`, `Backups`, `Outputs`, `Intake` and
`Auth`: the process exits, the clock reaches its bound, a task may be over for good,
a server may not start with its environment, and a static token leaves nothing to do.

Each property of a passing run is broken by a mutated form of a definition, given
beside it under a comment that begins with "Mutation".

### Where code and documentation disagree

Each of these runs checks a property that a document or comment of the
repository states, and TLC finds a behaviour of the code that violates it.

| Run | What happens |
|---|---|
| `cancel_lost` | a task is cancelled between Assign and Start; StartTask writes `running` over it and the agent runs on |
| `capacity_exceeded` | StartTask fails after `docker run`; the task is marked failed, its container runs on uncounted, and one container too many starts |
| `stale_metadata` | `GET output.json` between a retried task's completion and its snapshot serves the snapshot of the attempt before |

Met while modelling and shown by no run:

- A cancellation decided before a completion and written after it: the clean-up
  releases the slot a second time. `SlotsExact` is therefore checked between ticks.
- A task cancelled before a crash is not counted by recovery, but its clean-up
  releases a slot (monitor.go:19-20 says that it was counted); `restarts` leaves
  cancellations out.
- A retry that overtakes a clean-up. When a cancellation is written after a failed
  completion, the clean-up lists a task whose gate is open; a retry is let in, and
  then the clean-up opens the gate, by id, of the attempt that has just begun
  (task_actions.go:35-38 says that retries before cleanup are prevented). The second
  attempt can be cancelled and retried with its container alive, and
  its completion can be written over the row that waits for the third: this one
  then has the `output_url` of a log that is the second's (lifecycle_test.go:612 says
  that stale artifacts must not leak). Without its first conjunct, `~overtaken`, TLC
  finds `OutputURLMeansLog` violated in this way, in 25 steps. For the same reason
  `SuccessIsReported` is checked across restarts and without deletions, and
  `RetryAfterCleanup` with requests between ticks.
- A backup that took longer than the retention is pruned, by the age in its name, in
  the moment it becomes the newest valid one (src/README.md:246 says that this one is
  always preserved).
- A crash between a failed completion and MarkReadyForRetry shuts the gate for good,
  since recovery looks at active tasks only; `RetryGateOpens` allows for it.
- Requeue releases a slot before its write, and ClearTaskAssignment comes after the
  release: a failed write there is followed by a second release. The runs with failures
  have neither restarts nor deletions, but for `capacity_exceeded`.
- `allowed_tools`, described in src/README.md:133 as a restriction of the agent's tools,
  is stored and passed to no container.
- BACKFLOW_DEFAULT_MAX_RUNTIME_SEC of zero or less means no deadline, and
  BACKFLOW_DEFAULT_HARNESS is not validated; the environments of the run `intake` have
  neither, and the theorem `RowsComplete` has the hypothesis `KnownDefaults`.
- HasAPIKeys counts expired keys: with none but those, every request is refused.
- A pending task deleted while it is dispatched leaves a container that belongs
  to no row, and its slot is lost until a restart (a race of the same kind as
  `cancel_lost`).
- The count of failed inspections is cleared by a success and at the threshold, not
  at the end of an attempt, so failures of a killed attempt count against the next.
- FailDispatch leaves the retry gate shut, as its comment says: a task whose
  dispatch failed answers every retry with "try again shortly".
- A completion marks a task ready for retry that has no retry left; the retry itself
  is refused by the cap.
- A completion whose write fails keeps its slot until the next tick repeats it; the
  comment at `lifecycle.go:203-204` says that it releases it. The code is the safer of
  the two.
- After the signal the bus is closed before the HTTP server stops: the events of
  requests served in between are dropped with a warning.

## Proofs

TLAPS proves the following for every value of the constants that meets the named
hypotheses. Each module begins with its invariants.

### The server, whatever interferes (`BackliteProofs`)

- `TypeCorrect`: `Spec => []TypeOK`. The steps are first summarised by
  `Statements`: each executes at most one SQL statement, or only reads. Types of
  the table then follow statement by statement (`StatementsType`), those of
  the other variables action by action.
- `RetriesCapped`: `Spec => []RetriesWithinCap`. Only RetryTask raises the
  count, and its WHERE clause stops it; the property is inductive with the types.
- `ReviewsWithCompletions`: `Spec => ReviewComesWithCompletion`. The inductive
  invariant `ReviewInv` says that no task the goroutine still holds has
  completed, since a completion ends its turn; without it a second completion
  could create a second review.
- `ProvisioningOwned`: `Spec => []ProvisioningIsOwned`, assuming that store calls
  do not fail. The invariant `ProvisioningInv` adds that recovery clears the
  container only of a row it has marked, and that completions and gates are no
  part of a dispatch. Without the assumption it is false: FailDispatch only logs
  a failed write.

### The server, undisturbed by delete handlers (`CalmProofs`, `ContainerProofs`)

Several properties are false if a delete handler writes in the middle of a tick
(`cancel_lost`, and the list above). `Undisturbed` excludes that in either of two
ways: there are no delete requests and everything else is interleaved freely (`Spec`),
or there are all requests, each served between two ticks (`QuietSpec`). One invariant
serves both: `CalmInv` says that no request is open or nothing is cancelled (`Calm`),
what a row may be (`RowInv`), that what a handler decided is still so when it writes it
(`RequestInv`), and above all that what the goroutine remembers of the rows it listed
is true, at each step of each phase of the tick (`SnapInv`). It is needed because every
update is by id: a write is right only if the listed row still is. The theorems below
are `Undisturbed => ...`, with no other hypothesis unless one is named.

- `GateOpensAfterEnd` (`GateOnlyWhenEnded`) and `EndedIsFinal` (`EndedStaysEnded`), under
  any failures and crashes. `CancelStands` (`CancelIsHonoured`) follows from the second, and
  is the counterpart of the run `cancel_lost`.
- `SlotsAlwaysExact` (`SlotsExact`), with failing docker calls and `OneDisturbance`: one
  of failing writes, deletions and restarts. `SlotInv` adds how far the count of
  recovery has come (`BootInv`) and which statuses and open gates cannot occur
  without the disturbances that make them (`QuietInv`): what is exact under deletions is
  not so for the same reasons as under failing writes.
  Two disturbances together break it: a restart with cancelled rows, or a write
  that fails after the release of a slot, as listed above.
- `LifecycleImplemented` (`ImplementsLifecycle`), with `OneDisturbance` and writes that
  succeed. Each action is shown to be a step of `TaskLifecycle` or none;
  `RoomInv` (a dispatch has room for each row it has listed) gives the guard of a start,
  `SlotInv` and `ProvisioningInv` the rest.
- `SuccessIsGenuine` (`SuccessIsReported`). `OwnInv`: a container belongs to the task that
  names it; `ReportInv`: what is about to be written is what that container reported.
- `NothingRunningIsDropped` (`LetsGoOfNoLiveContainer`), if `Reliable`: docker stop
  works, and docker inspect does or the server does not restart. `DeadInv`: the container of
  a task that has ended does not run. A failed `docker stop` is only logged by the code,
  and recovery requeues a task whose container it cannot inspect.
- `NothingOrphaned` (`NoOrphanContainer`), `RetriesAreClean` (`RetryAfterCleanup`) and
  `CapacityKept` (`CapacityRespected`), if `Tracked`: stops and writes succeed, the server does not
  crash. `LiveInv`: every running container is named by its task, or is the one between
  `docker run` and StartTask. There a failing StartTask leaves it behind, as `capacity_exceeded`
  shows, and so does a crash. `FullInv`: from
  the first tick on the counter is within the limit; the containers are then counted by
  the rows that name them.

The runs `between_ticks` and `restarts` satisfy the hypotheses of what they check; so does
`failures` those of `SlotsAlwaysExact`.

### Events (`ShutdownProofs`)

- `NeverOnClosed`: `Spec => []NeverSendsOnClosed`. The invariant
  `LockInv` ties the lock, the flag and the channel together: no reader while a
  closer stores or closes, and a set flag before a closed channel.
- `NothingLost`: `Spec => []NothingLostQuietly`. `DrainInv`: deliver has returned
  only from an empty, closed channel; Close has returned only after deliver; main
  goes on only after Close.
- `BusIsQueue`: `Spec => ImplementsQueue`. The queue is the event in hand followed
  by the channel. CloseStore is Close, EmitSend is Accept or a dropped event,
  EventDone is Handle, DeliverEnds is Finish, and every other step changes
  nothing the callers can see.
- `AcknowledgedOnceOnly`: `Spec => []AcknowledgedOnce`. `OncePerEvent` says where
  the number of an event can be, and which subscribers can have acknowledged it by then.

### Backups (`BackupsProofs`)

- `MarkersAreTrue`: `Spec => []MarkerMeansStored`. `BytesInv`: the bytes of a backup are
  new until its sidecar is written; `StoreInv`: a marker beside a valid artifact, and the
  upload under way, speak of what the bucket holds.
- `NewestStays` (`NewestValidPreserved`), `UploadSourceStays` (`UploadSourceKept`) and
  `BackupsAreSpaced` (`SpacedByInterval`), if `Prompt`: a backup takes no longer than the
  retention, with room for the names that it passes over. The code counts the one in
  days and the other in minutes; the run's bounds satisfy it, and without it the first is
  false, as listed above. `PruneInv` is what makes deciding and removing apart sound:
  what is valid is not newer than the protected artifact or was finalized since the
  pass began, and what is being removed is too old to be the name of a backup
  under way. `NameInv` bounds how far names run ahead of the clock, `CountInv` how many there are,
  `NewestInv` keeps the artifact to upload the newest one, and `SpaceInv` orders names as the
  times at which the artifacts were finalized.

### Requests and defaults (`IntakeProofs`)

For any requests and environments that have the types of their parsers. `Shape` is the
invariant of all five: types as weak as the unchecked environment makes them (a harness
that is not empty, a runtime that may be negative), one row or two, and the second the
review of the first, which is over.

- `ServerWins`: `Spec => []ServerVariablesWin`. `ListsAgree` proves that the list of task.go
  contains that of docker.go; `ReservedInv` carries what validation has refused at
  creation to every later start, when other credentials may be set.
- `DefaultsOnlyFill`: `Spec => []DefaultsFillGaps`, inductive with `Shape`. A review has
  a model of its parent's harness, because it has the parent's harness, whatever the
  default has become.
- `ReviewsFollow`: `Spec => []ReviewFollowsParent`. A completed parent never changes again,
  and a review has no review.
- `ImagesAreCurrent`: `Spec => ImageIsCurrent`. Only a dispatch makes a task run.
- `RowsComplete`: `Spec => []TypeOK`, if `KnownDefaults`: the environments' default
  harness is one of the two, runtime and turns are positive. config.go checks neither, and
  without the hypothesis a row gets what the environment says.

### Artifacts and keys (`OutputsProofs`, `AuthProofs`)

- `ReadersGetWholeFiles`: `Spec => []AnswersAreWhole`, for every interleaving. `WholeInv`:
  only a file that was written to its end is renamed into place, and nothing else
  touches what readers open.
- `URLMeansLog`: `Spec => []OutputURLMeansLog`. `LogInv` follows a turn
  with an exited container: its pointer is about the row's present attempt, because
  the gate is shut until the turn has opened it; an attempt under way has neither URL
  nor open gate; and what is about to be renamed is the log of the turn. A clean-up by id
  breaks the second of these on a row that was requeued meanwhile, so that the
  invariant is `~overtaken => LogInv` (`OvertakenStays`).
- `ServedLogsAreCurrent`: `Spec => []ServedLogIsCurrent`, on the same condition. `ReadInv`: the
  log's attempt only grows (`AttemptsGrow`), so a reader that was let in by one row finds that
  attempt's log or a later one.
- `BoundedStaleness`: `Spec => StalenessIsBounded` in `Auth`. `FreshInv` bounds the age
  of an answer wherever it is: the table's own is 0, one that waits for its storing is
  no older than its wait, the cached one no older than its age plus a lookup.
- `KeysOpenOnlyTheirRoutes`: `Spec => KeysOpenTheirRoutes`. Only LookupKey lets a
  request pass by a key; `ScopeIsDocumented` compares what the code asks of each route with
  what openapi.yaml documents, for reads as for writes, and a route without a scope
  is open to no key.

Types are proved for `Outputs` and `Auth` too (`TypeCorrect`).

Assumptions on constants: the bounds are naturals, at least one task, one
slot and one place in the buffer (`StoreAssumption`, `CapacityAssumption`,
`CrashAssumption`, `FaultsAssumption`, `RequestsAssumption`, `BusAssumption`,
`BackupsAssumption`, `OutputsAssumption`, `IntakeAssumption`); the texts of the code are texts
and inputs have the types of their parsers (`WordAssumption`, `InputAssumption`); the call of main is one with a time limit
(`ShutdownAssumption`); the cache is used for a while, and routes and scopes are among those
of the server (`AuthAssumption`).

### Model-checked only

Liveness, which is out of the prover's reach: `PendingLeavesQueue`, `ActiveEnds`,
`CancelledIsCleaned`, `RetryGateOpens`, `EmitReturns`, `ProcessExits`, `MetadataFollows` and
`CacheFollowsTable`. The counterexamples of the three runs that expect one are TLC's.

## Plan

Every safety property that a passing run checks is a theorem. If the code comes to reopen
the gate only of the attempt it has cleaned up (an UPDATE that asks for its `retry_count`, as
RetryTask's does for the gate), `overtaken` can go from the properties of `Outputs`.

## Not modelled

The text of prompts, logs and events; quoting, volumes and networks of `docker run`;
the handlers that only read the table; addresses, paths, webhook and S3 settings;
`/debug/stats`, which reads counters (its middleware is another instance of `Auth`);
migrations; what an agent does inside its container; `skillcontract`, which only tests
of the agent image use; the soak and black-box tests. Two servers on one database are
outside the design of the program.
