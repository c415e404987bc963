------------------------------ MODULE Outputs ------------------------------
(***************************************************************************)
(* The artifacts of a task: container_output.log and task.json, written by *)
(* the orchestrator when a container has exited (monitor.go, outputs/fs.go *)
(* ) and served by the API (handlers.go).  The row and the two files       *)
(* change in separate steps, the files are kept per task and not per       *)
(* attempt, and nothing ever deletes them: a retry, a restart or a reader  *)
(* may find the row of one attempt beside the files of another.            *)
(*                                                                         *)
(* The module follows one task.  As in Orchestrator, each call of the store *)
(* is a step of its own, on a row that was listed before: most statements  *)
(* are by id and ask nothing of the row they find.  Slots and the work of  *)
(* the agent are left out.                                                 *)
(***************************************************************************)
EXTENDS Faults

CONSTANTS
    Reader,       \* requests for an artifact that may be served at once
    MaxAttempts,  \* bound: attempts at the task
    MaxCrashes    \* bound: crashes and restarts of the server

ASSUME OutputsAssumption == MaxAttempts \in Nat \ {0} /\ MaxCrashes \in Nat

VARIABLES
    save,     \* save_agent_output of the task
    row,      \* the task's row
    dir,      \* the two artifacts on disk
    tmp,      \* their *.tmp siblings
    at,       \* the call the orchestrator makes next for the task
    file,     \* the artifact it writes
    hand,     \* the task pointer it holds, and what it does with it
    reader,   \* reader[r]: a request for an artifact
    cancel,   \* a request to cancel has read an active row, and will write
    retry,    \* requests to retry have read an ended row, and will write
    crashes,  \* crashes so far
    overtaken \* a retry was written into a clean-up: read by no step

orchestrator == <<at, file, hand>>
vars == <<faults, save, row, dir, tmp, orchestrator, reader, cancel, retry, crashes, overtaken>>

Attempt == 1 .. MaxAttempts      \* retry_count + 1
Ended == {"completed", "failed", "cancelled"}
Active == {"provisioning", "running", "recovering"}
Status == Ended \cup Active \cup {"pending"}

\* A container is known by the attempt that it was started for.
Container == Attempt \cup {0}
Row == [status : Status, attempt : Attempt, container : Container,
        url : BOOLEAN, ready : BOOLEAN]

Artifact == {"log", "json"}

\* A file: the attempt it tells of, the status it gives (of the log, none that
\* anybody reads), and whether it has been written to its end.
NoFile == [attempt |-> 0, status |-> "pending", whole |-> FALSE]
File == [attempt : Attempt \cup {0}, status : Status, whole : BOOLEAN]

Hand == [status : Status, attempt : Attempt, container : Container, url : BOOLEAN,
         result : {"completed", "failed"}, metadata : BOOLEAN]

NoRead == [at |-> "idle", file |-> "log", attempt |-> 1, got |-> NoFile]
Read == [at : {"idle", "checked", "answered"}, file : Artifact,
         attempt : Attempt, got : File]

\* The calls: of a dispatch, of a recovery, of a clean-up, of a completion with
\* its artifacts.
Cleaning == {"clear", "reopen"}
Place == {"idle", "assign", "start", "fail", "promote", "requeue"} \cup Cleaning \cup
         {"copy", "create", "fill", "rename", "complete", "refresh", "gate"}

\* The tasks and files of the model are what the code knows of them, whatever
\* fails: no attempt, status or file comes from nowhere.
TypeOK ==
    /\ FaultsTypeOK
    /\ save \in BOOLEAN
    /\ row \in Row
    /\ dir \in [Artifact -> File]
    /\ tmp \in [Artifact -> File]
    /\ at \in Place
    /\ file \in Artifact
    /\ hand \in Hand
    /\ reader \in [Reader -> Read]
    /\ cancel \in BOOLEAN /\ retry \in BOOLEAN
    /\ crashes \in 0 .. MaxCrashes /\ overtaken \in BOOLEAN

NoHand == [status |-> "pending", attempt |-> 1, container |-> 0, url |-> FALSE,
           result |-> "failed", metadata |-> FALSE]

Init ==
    /\ FaultsInit
    /\ save \in BOOLEAN
    /\ row = [status |-> "pending", attempt |-> 1, container |-> 0,
              url |-> FALSE, ready |-> FALSE]
    /\ dir = [f \in Artifact |-> NoFile]
    /\ tmp = [f \in Artifact |-> NoFile]
    /\ at = "idle" /\ file = "log" /\ hand = NoHand
    /\ reader = [r \in Reader |-> NoRead]
    /\ cancel = FALSE /\ retry = FALSE
    /\ crashes = 0 /\ overtaken = FALSE

files == <<dir, tmp>>
requests == <<reader, cancel, retry>>
history == <<crashes, overtaken>>
outside == <<save, requests, history>>

\* The orchestrator's turn with the task is over.
Rest == at' = "idle" /\ file' = "log" /\ hand' = NoHand

\* A turn begins: the task was listed, and its pointer is taken along.
Take(result, url, metadata) ==
    hand' = [status |-> row.status, attempt |-> row.attempt, container |-> row.container,
             url |-> url, result |-> result, metadata |-> metadata]

Turn(status, call) ==
    /\ at = "idle" /\ row.status = status
    /\ at' = call
    /\ Works
    /\ UNCHANGED <<row, files, file, outside>>

\* The last call of a turn: a write of the row, or an error that is logged.
LastWrite(call, written) ==
    /\ at = call
    /\ \/ row' = written /\ Works
       \/ Breaks("store") /\ UNCHANGED row
    /\ Rest
    /\ UNCHANGED <<files, outside>>

----------------------------------------------------------------------------
(* The calls of a tick that write no files.                                *)

\* dispatchPending.
Dispatch == Turn("pending", "assign") /\ Take("failed", FALSE, FALSE)

\* AssignTask writes the status and nothing else...
Assign ==
    /\ at = "assign"
    /\ \/ row' = [row EXCEPT !.status = "provisioning"] /\ at' = "start" /\ Works
       \/ at' = "fail" /\ Breaks("store") /\ UNCHANGED row
    /\ UNCHANGED <<files, file, hand, outside>>

\* ... then docker run and StartTask, one of which may fail...
StartTask ==
    /\ at = "start"
    /\ \/ /\ row' = [row EXCEPT !.status = "running", !.container = hand.attempt]
          /\ Works /\ Rest
       \/ /\ \E kind \in {"run", "store"} : Breaks(kind)
          /\ at' = "fail" /\ UNCHANGED <<row, file, hand>>
    /\ UNCHANGED <<files, outside>>

\* ... and FailDispatch, which leaves the gate shut.
FailDispatch == LastWrite("fail", [row EXCEPT !.status = "failed"])

\* monitorCancelled lists a cancelled row: one with a container, open or not...
CleanUp ==
    /\ \/ row.container # 0 /\ Turn("cancelled", "clear")
       \/ row.container = 0 /\ ~row.ready /\ Turn("cancelled", "reopen")
    /\ UNCHANGED hand

\* ... stops the container and clears the assignment, of whatever is there by now...
Clear ==
    /\ at = "clear"
    /\ \/ row' = [row EXCEPT !.container = 0] /\ Works
       \/ Breaks("store") /\ UNCHANGED row
    /\ at' = "reopen"
    /\ UNCHANGED <<files, file, hand, outside>>

\* ... and opens the gate by id (markRetryReady).
Reopen == LastWrite("reopen", [row EXCEPT !.ready = TRUE])

\* Mutation: the next attempt starts with the URL of the last one.
NextAttempt_KeepsURL ==
    [row EXCEPT !.status = "pending", !.attempt = @ + 1, !.container = 0, !.ready = FALSE]

\* RequeueTask and RetryTask: retry_count + 1, output_url = ''.
NextAttempt ==
    [status |-> "pending", attempt |-> row.attempt + 1, container |-> 0,
     url |-> FALSE, ready |-> FALSE]

\* monitorRecovering: the container is alive...
Recover == row.container # 0 /\ Turn("recovering", "promote") /\ UNCHANGED hand

Promote == LastWrite("promote", [row EXCEPT !.status = "running"])

\* ... or there is none, or it cannot be inspected.
GiveUp ==
    /\ row.attempt < MaxAttempts
    /\ Turn("recovering", "requeue")
    /\ UNCHANGED hand

Requeue == row.attempt < MaxAttempts /\ LastWrite("requeue", NextAttempt)

\* What the agent reports of itself, whatever its exit code.
Report == {"complete", "needs_input", "failed"}

FinalStatus(report) == IF report = "complete" THEN "completed" ELSE "failed"

\* killTask completes the task without an output URL.
Kill == Turn("running", "complete") /\ Take("failed", FALSE, FALSE)

\* A container found exited by monitorRecovering: neither artifact is written,
\* and the completion repeats the output_url that the row has.
RecoverExited ==
    /\ row.container # 0 /\ Turn("recovering", "complete")
    /\ \E report \in Report : Take(FinalStatus(report), row.url, FALSE)

\* A container found exited by monitorRunning.
Exited ==
    /\ row.container # 0
    /\ Turn("running", IF save THEN "copy" ELSE "complete")
    /\ \E report \in Report : Take(FinalStatus(report), row.url, save)

----------------------------------------------------------------------------
(* writeAtomic, for either artifact.                                       *)

\* saveAgentOutput sets task.OutputURL once the log is in its place; errors are
\* logged.  SaveMetadata ends the turn.
AfterWrite(saved) ==
    IF file = "log" THEN /\ hand' = [hand EXCEPT !.url = @ \/ saved]
                         /\ at' = "complete"
                         /\ UNCHANGED file
                    ELSE Rest

\* GetAgentOutput, docker cp.
CopyLog ==
    /\ at = "copy"
    /\ \/ Works /\ at' = "create"
       \/ Breaks("copy") /\ at' = "complete"
    /\ UNCHANGED <<row, files, file, hand, outside>>

\* The bytes that are written: the log of the container, or the pointer's fields.
Content == [attempt |-> IF file = "json" THEN hand.attempt ELSE hand.container,
            status  |-> IF file = "json" THEN hand.status ELSE "pending",
            whole   |-> TRUE]

\* Mutation: the artifact is written in its place.
CreateTmp_InPlace ==
    /\ at = "create"
    /\ dir' = [dir EXCEPT ![file] = [Content EXCEPT !.whole = FALSE]]
    /\ at' = "fill"
    /\ Works
    /\ UNCHANGED <<row, tmp, file, hand, outside>>

\* MkdirAll, and WriteFile up to its truncation of the *.tmp file.
CreateTmp ==
    /\ at = "create"
    /\ \/ /\ tmp' = [tmp EXCEPT ![file] = [Content EXCEPT !.whole = FALSE]]
          /\ at' = "fill"
          /\ Works
          /\ UNCHANGED <<file, hand>>
       \/ Breaks("file") /\ AfterWrite(FALSE) /\ UNCHANGED tmp
    /\ UNCHANGED <<row, dir, outside>>

\* The rest of WriteFile; a failure leaves the *.tmp file as it is.
FillTmp ==
    /\ at = "fill"
    /\ \/ /\ tmp' = [tmp EXCEPT ![file] = Content]
          /\ at' = "rename"
          /\ Works
          /\ UNCHANGED <<file, hand>>
       \/ Breaks("file") /\ AfterWrite(FALSE) /\ UNCHANGED tmp
    /\ UNCHANGED <<row, dir, outside>>

\* os.Rename; when it fails the *.tmp file is removed.
RenameTmp ==
    /\ at = "rename"
    /\ \/ Works /\ dir' = [dir EXCEPT ![file] = tmp[file]] /\ AfterWrite(TRUE)
       \/ Breaks("file") /\ AfterWrite(FALSE) /\ UNCHANGED dir
    /\ tmp' = [tmp EXCEPT ![file] = NoFile]
    /\ UNCHANGED <<row, outside>>

----------------------------------------------------------------------------
(* lifecycle.Complete, then saveOutputMetadata.                            *)

SaveMetadata(task) ==
    IF hand.metadata THEN at' = "create" /\ file' = "json" /\ hand' = task
                     ELSE Rest

\* CompleteTask by id, whatever the row has become by now.  When the write fails
\* the pointer keeps its old fields, and its metadata is saved all the same.
Complete ==
    /\ at = "complete"
    /\ \/ /\ row' = [row EXCEPT !.status = hand.result, !.url = hand.url]
          /\ Works
          /\ at' = "refresh" /\ UNCHANGED <<file, hand>>
       \/ Breaks("store") /\ SaveMetadata(hand) /\ UNCHANGED row
    /\ UNCHANGED <<files, outside>>

Refreshed(task) ==
    IF hand.result = "failed"
    THEN at' = "gate" /\ hand' = task /\ UNCHANGED file
    ELSE SaveMetadata(task)

\* Mutation: the task pointer is not reloaded from the completed row.
Refresh_Skipped ==
    /\ at = "refresh"
    /\ Refreshed(hand)
    /\ Works
    /\ UNCHANGED <<row, files, outside>>

\* refreshTask: the pointer becomes the row, or is patched with the result.
Refresh ==
    /\ at = "refresh"
    /\ \/ /\ Refreshed([hand EXCEPT !.status = row.status, !.attempt = row.attempt,
                                     !.container = row.container, !.url = row.url])
          /\ Works
       \/ /\ Refreshed([hand EXCEPT !.status = hand.result])
          /\ Breaks("store")
    /\ UNCHANGED <<row, files, outside>>

\* MarkReadyForRetry, whose error is logged.
OpenGate ==
    /\ at = "gate"
    /\ \/ row' = [row EXCEPT !.ready = TRUE] /\ Works
       \/ Breaks("store") /\ UNCHANGED row
    /\ SaveMetadata(hand)
    /\ UNCHANGED <<files, outside>>

----------------------------------------------------------------------------
(* Requests that write the row.                                            *)

\* DeleteTask: GetTask finds the task active...
CancelPreflight ==
    /\ ~cancel /\ row.status \in Active
    /\ cancel' = TRUE
    /\ UNCHANGED <<faults, save, row, files, orchestrator, reader, retry, history>>

\* ... and CancelTask writes by id, whatever has become of it.
Cancel ==
    /\ cancel
    /\ row' = [row EXCEPT !.status = "cancelled"]
    /\ cancel' = FALSE
    /\ UNCHANGED <<faults, save, files, orchestrator, reader, retry, history>>

\* RetryTask: GetTask finds the task ended...
RetryPreflight ==
    /\ ~retry /\ row.status \in {"failed", "cancelled"}
    /\ retry' = TRUE
    /\ UNCHANGED <<faults, save, row, files, orchestrator, reader, cancel, history>>

\* ... and the UPDATE asks for an open gate only.  Other requests may have found
\* the task ended as well; one that the gate turns away gets an error.  A clean-up
\* in progress does not keep a retry out.
Retry ==
    /\ retry /\ retry' \in BOOLEAN
    /\ \/ /\ row.ready /\ row.attempt < MaxAttempts /\ row' = NextAttempt
          /\ overtaken' = (overtaken \/ at \in Cleaning)
       \/ ~row.ready /\ UNCHANGED <<row, overtaken>>
    /\ UNCHANGED <<faults, save, files, orchestrator, reader, cancel, crashes>>

----------------------------------------------------------------------------
(* serveOutputFile.                                                        *)

\* GetTask, and 404 unless the attempt has ended with an output URL.
Check(r, f) ==
    /\ reader[r].at = "idle"
    /\ row.status \in Ended /\ row.url
    /\ reader' = [reader EXCEPT ![r] =
         [at |-> "checked", file |-> f, attempt |-> row.attempt, got |-> NoFile]]
    /\ UNCHANGED <<faults, save, row, files, orchestrator, cancel, retry, history>>

\* Stat and ServeFile: an open file stays what it was when another is renamed
\* over its name.  Nothing is found: 404.
Serve(r) ==
    /\ reader[r].at = "checked"
    /\ reader' = [reader EXCEPT ![r] =
         IF dir[reader[r].file] = NoFile THEN NoRead
         ELSE [reader[r] EXCEPT !.at = "answered", !.got = dir[reader[r].file]]]
    /\ UNCHANGED <<faults, save, row, files, orchestrator, cancel, retry, history>>

Answered(r) ==
    /\ reader[r].at = "answered"
    /\ reader' = [reader EXCEPT ![r] = NoRead]
    /\ UNCHANGED <<faults, save, row, files, orchestrator, cancel, retry, history>>

----------------------------------------------------------------------------
\* The process ends and starts again; recoverOnStartup marks an active task, and
\* clears the assignment of one that was provisioning.
Crash ==
    /\ crashes < MaxCrashes
    /\ crashes' = crashes + 1
    /\ Rest
    /\ reader' = [r \in Reader |-> NoRead]
    /\ cancel' = FALSE /\ retry' = FALSE
    /\ \/ /\ row' = CASE row.status = "running" -> [row EXCEPT !.status = "recovering"]
                      [] row.status = "provisioning" ->
                           [row EXCEPT !.status = "recovering", !.container = 0]
                      [] OTHER -> row
          /\ Works
       \/ Breaks("store") /\ UNCHANGED row
    /\ UNCHANGED <<save, files, overtaken>>

\* The turn with an exited container, once begun.
Artifacts ==
    CopyLog \/ CreateTmp \/ FillTmp \/ RenameTmp \/ Complete \/ Refresh \/ OpenGate

Next ==
    \/ Dispatch \/ Assign \/ StartTask \/ FailDispatch
    \/ CleanUp \/ Clear \/ Reopen
    \/ Recover \/ Promote \/ GiveUp \/ Requeue
    \/ Kill \/ RecoverExited \/ Exited
    \/ Artifacts
    \/ CancelPreflight \/ Cancel \/ RetryPreflight \/ Retry
    \/ \E r \in Reader : \/ \E f \in Artifact : Check(r, f)
                         \/ Serve(r) \/ Answered(r)
    \/ Crash

Spec == Init /\ [][Next]_vars

\* The goroutine of the orchestrator goes on with what it has begun.
FairSpec == Spec /\ WF_vars(Artifacts)

----------------------------------------------------------------------------
(* What readers may rely on.                                               *)

\* An ended attempt that points to its output has its own log in place: no
\* restart, failed copy or write, kill, requeue or late cancellation makes
\* serveOutputFile hand out the log of an older attempt as that of this one.  But a
\* retry that overtakes a clean-up does, once the clean-up has opened the gate of
\* the attempt that it began (monitor.go:49): of such tasks nothing is said.
OutputURLMeansLog ==
    ~overtaken /\ row.status \in Ended /\ row.url =>
        dir["log"] = [attempt |-> row.attempt, status |-> "pending", whole |-> TRUE]

\* Readers never observe a half-written file, as outputs/fs.go promises, though
\* a crash or a failure may cut off any write.
AnswersAreWhole ==
    \A r \in Reader : reader[r].at = "answered" => reader[r].got.whole

\* The log a request gets is of the attempt whose row it checked, or of a later
\* one, as the tests of the API and of the coordinator say of stale artifacts;
\* again, unless a retry has overtaken a clean-up.
ServedLogIsCurrent ==
    \A r \in Reader :
        ~overtaken /\ reader[r].at = "answered" /\ reader[r].file = "log" =>
            reader[r].got.attempt >= reader[r].attempt

\* The snapshot of an ended attempt is in its place, with a final status (a
\* cancellation that comes late changes that of the row once more).
MetadataIsFinal(n) ==
    /\ dir["json"].attempt = n
    /\ dir["json"].status \in Ended
    /\ dir["json"].whole

\* The snapshot follows the completion: once an attempt has ended with its log
\* saved, task.json comes to show its committed end, unless the user retries it
\* first or a crash or a failure takes the snapshot away.
MetadataFollows ==
    \A n \in Attempt :
        row.attempt = n /\ row.status \in Ended /\ row.url
            ~> MetadataIsFinal(n) \/ row.attempt > n \/ crashes + faults > 0

\* What the tests of the API and of the monitor say of output.json: it does not
\* leak the snapshot of a previous attempt, and reflects the committed row.
MetadataServedIsFinal ==
    \A r \in Reader :
        reader[r].at = "answered" /\ reader[r].file = "json" =>
            /\ reader[r].got.attempt >= reader[r].attempt
            /\ reader[r].got.status \in Ended
=============================================================================
