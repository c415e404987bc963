---------------------------- MODULE OutputsProofs ----------------------------
(***************************************************************************)
(* Proofs about the artifacts of a task: types, readers get whole files    *)
(* whatever fails and however requests, ticks and restarts interleave, and *)
(* unless a retry has overtaken a clean-up an output URL means the log of  *)
(* its attempt, on the row and for readers.                                *)
(***************************************************************************)
EXTENDS Outputs, TLAPS

LEMMA AttemptsAreNats == Attempt \subseteq Nat \ {0} /\ 1 \in Attempt
BY OutputsAssumption DEF Attempt

LEMMA Statuses ==
    {"pending", "provisioning", "running", "recovering",
     "completed", "failed", "cancelled"} = Status
BY DEF Status, Ended, Active

\* Records stay records of their type when fields change.
LEMMA RowTypes ==
    ASSUME NEW r \in Row
    PROVE  /\ \A s \in Status : [r EXCEPT !.status = s] \in Row
           /\ [r EXCEPT !.ready = TRUE] \in Row
           /\ [r EXCEPT !.container = 0] \in Row
           /\ \A s \in Status, c \in Container :
                [r EXCEPT !.status = s, !.container = c] \in Row
           /\ \A s \in Status, u \in BOOLEAN : [r EXCEPT !.status = s, !.url = u] \in Row
           /\ r.status \in Status /\ r.attempt \in Attempt /\ r.container \in Container
           /\ r.url \in BOOLEAN /\ r.ready \in BOOLEAN
BY DEF Row, Container

LEMMA HandTypes ==
    ASSUME NEW h \in Hand
    PROVE  /\ \A s \in Status : [h EXCEPT !.status = s] \in Hand
           /\ \A u \in BOOLEAN : [h EXCEPT !.url = u] \in Hand
           /\ \A s \in Status, n \in Attempt, c \in Container, u \in BOOLEAN :
                [h EXCEPT !.status = s, !.attempt = n, !.container = c, !.url = u] \in Hand
           /\ h.status \in Status /\ h.attempt \in Attempt /\ h.container \in Container
           /\ h.url \in BOOLEAN /\ h.metadata \in BOOLEAN
           /\ h.result \in {"completed", "failed"}
BY DEF Hand

LEMMA ReadTypes ==
    ASSUME NEW r \in Read
    PROVE  /\ \A f \in File : [r EXCEPT !.at = "answered", !.got = f] \in Read
           /\ r.file \in Artifact /\ r.attempt \in Attempt
BY DEF Read

LEMMA NothingTypes == NoFile \in File /\ NoHand \in Hand /\ NoRead \in Read
<1>1. NoFile \in File
    BY Statuses DEF NoFile, File
<1>2. NoHand \in Hand
    BY Statuses, AttemptsAreNats DEF NoHand, Hand, Container
<1>3. NoRead \in Read
    BY <1>1, AttemptsAreNats DEF NoRead, Read, Artifact
<1> QED BY <1>1, <1>2, <1>3

LEMMA FileTypes ==
    ASSUME hand \in Hand
    PROVE  Content \in File /\ [Content EXCEPT !.whole = FALSE] \in File
<1>1. Content \in File
    <2> DEFINE s == IF file = "json" THEN hand.status ELSE "pending"
               n == IF file = "json" THEN hand.attempt ELSE hand.container
    <2>1. s \in Status /\ n \in Attempt \cup {0}
        BY HandTypes, Statuses DEF Container
    <2> HIDE DEF s, n
    <2>2. [attempt |-> n, status |-> s, whole |-> TRUE] \in File
        BY <2>1 DEF File
    <2> QED BY <2>2 DEF Content, s, n
<1>2. \A f \in File : [f EXCEPT !.whole = FALSE] \in File
    BY DEF File
<1> QED BY <1>1, <1>2

LEMMA FaultTypes ==
    ASSUME FaultsTypeOK, Works \/ (\E kind \in Fault : Breaks(kind))
    PROVE  FaultsTypeOK'
BY FaultsAssumption DEF FaultsTypeOK, Works, Breaks

\* The orchestrator's place and what it holds.
OrchestratorTypeOK ==
    /\ at \in Place
    /\ file \in Artifact
    /\ hand \in Hand

LEMMA RestType == Rest => OrchestratorTypeOK'
BY NothingTypes DEF Rest, OrchestratorTypeOK, Artifact, Place

LEMMA AfterWriteType ==
    ASSUME OrchestratorTypeOK, NEW saved \in BOOLEAN, AfterWrite(saved)
    PROVE  OrchestratorTypeOK'
<1>1. CASE file = "log"
    <2>1. (hand.url \/ saved) \in BOOLEAN
        OBVIOUS
    <2>2. [hand EXCEPT !.url = hand.url \/ saved] \in Hand
        BY <2>1, HandTypes DEF OrchestratorTypeOK
    <2> QED BY <1>1, <2>2 DEF AfterWrite, OrchestratorTypeOK, Place
<1>2. CASE file # "log"
    BY <1>2, RestType DEF AfterWrite
<1> QED BY <1>1, <1>2

LEMMA SaveMetadataType ==
    ASSUME NEW task \in Hand, SaveMetadata(task) PROVE OrchestratorTypeOK'
BY RestType DEF SaveMetadata, OrchestratorTypeOK, Artifact, Place

LEMMA TypingInit == Init => TypeOK
<1> SUFFICES ASSUME Init PROVE TypeOK
    OBVIOUS
<1>1. row \in Row
    BY Statuses, AttemptsAreNats DEF Init, Row, Container
<1>2. dir \in [Artifact -> File] /\ tmp \in [Artifact -> File]
    BY NothingTypes DEF Init
<1>3. /\ reader \in [Reader -> Read] /\ save \in BOOLEAN
      /\ cancel \in BOOLEAN /\ retry \in BOOLEAN /\ overtaken \in BOOLEAN
    BY NothingTypes DEF Init
<1>4. FaultsTypeOK /\ crashes \in 0 .. MaxCrashes
    BY OutputsAssumption, FaultsAssumption DEF Init, FaultsInit, FaultsTypeOK
<1>5. OrchestratorTypeOK
    BY NothingTypes DEF Init, OrchestratorTypeOK, Artifact, Place
<1> QED BY <1>1, <1>2, <1>3, <1>4, <1>5 DEF TypeOK, OrchestratorTypeOK

\* A step keeps the types of the parts that it changes.
LEMMA Parts ==
    ASSUME TypeOK, OrchestratorTypeOK', row' \in Row,
           dir' \in [Artifact -> File], tmp' \in [Artifact -> File],
           Works \/ (\E kind \in Fault : Breaks(kind)), UNCHANGED outside
    PROVE  TypeOK'
BY FaultTypes DEF TypeOK, OrchestratorTypeOK, outside, requests, history

LEMMA NextAttemptType ==
    ASSUME row \in Row, row.attempt < MaxAttempts
    PROVE  NextAttempt \in Row /\ NextAttempt.attempt = row.attempt + 1
<1>0. row.attempt \in Attempt
    BY RowTypes
<1>1. row.attempt + 1 \in Attempt
    BY <1>0, OutputsAssumption DEF Attempt
<1> QED BY <1>1, Statuses DEF NextAttempt, Row, Container

LEMMA LastWriteType ==
    ASSUME TypeOK, NEW call, NEW written \in Row, LastWrite(call, written)
    PROVE  TypeOK'
<1>1. OrchestratorTypeOK' /\ row' \in Row
    BY RestType DEF LastWrite, TypeOK
<1>2. Works \/ (\E kind \in Fault : Breaks(kind))
    BY DEF LastWrite, Fault
<1>3. dir' \in [Artifact -> File] /\ tmp' \in [Artifact -> File] /\ UNCHANGED outside
    BY DEF LastWrite, TypeOK, files
<1> QED BY <1>1, <1>2, <1>3, Parts

LEMMA TurnType ==
    ASSUME TypeOK, NEW status, NEW call \in Place, Turn(status, call), hand' \in Hand
    PROVE  TypeOK'
<1>1. OrchestratorTypeOK' /\ row' \in Row
    BY DEF Turn, OrchestratorTypeOK, TypeOK
<1>2. dir' \in [Artifact -> File] /\ tmp' \in [Artifact -> File] /\ UNCHANGED outside
    BY DEF Turn, TypeOK, files
<1> QED BY <1>1, <1>2, Parts DEF Turn

LEMMA TakeType ==
    ASSUME row \in Row, NEW result \in {"completed", "failed"}, NEW url \in BOOLEAN,
           NEW metadata \in BOOLEAN, Take(result, url, metadata)
    PROVE  hand' \in Hand
BY RowTypes DEF Take, Hand

LEMMA Typing == TypeOK /\ [Next]_vars => TypeOK'
<1> SUFFICES ASSUME TypeOK, [Next]_vars PROVE TypeOK'
    OBVIOUS
<1>0. /\ OrchestratorTypeOK /\ row \in Row /\ hand \in Hand
      /\ row.status \in Status /\ row.attempt \in Attempt /\ row.url \in BOOLEAN
      /\ row.container \in Container /\ save \in BOOLEAN
      /\ dir \in [Artifact -> File] /\ tmp \in [Artifact -> File] /\ file \in Artifact
    BY RowTypes DEF TypeOK, OrchestratorTypeOK
<1>a. UNCHANGED orchestrator => OrchestratorTypeOK'
    BY <1>0 DEF orchestrator, OrchestratorTypeOK
<1>b. UNCHANGED files => dir' \in [Artifact -> File] /\ tmp' \in [Artifact -> File]
    BY <1>0 DEF files
<1>1. ASSUME Dispatch \/ CleanUp \/ Recover \/ GiveUp PROVE TypeOK'
    <2>1. CASE Dispatch
        <3>1. hand' \in Hand
            BY <1>0, <2>1, TakeType DEF Dispatch
        <3> QED BY <2>1, <3>1, TurnType DEF Dispatch, Place
    <2>2. CASE CleanUp
        <3>1. hand' \in Hand
            BY <1>0, <2>2 DEF CleanUp
        <3> QED BY <2>2, <3>1, TurnType DEF CleanUp, Place, Cleaning
    <2>3. CASE Recover \/ GiveUp
        <3>1. hand' \in Hand
            BY <1>0, <2>3 DEF Recover, GiveUp
        <3> QED BY <2>3, <3>1, TurnType DEF Recover, GiveUp, Place
    <2> QED BY <1>1, <2>1, <2>2, <2>3
<1>2. ASSUME Kill \/ RecoverExited \/ Exited PROVE TypeOK'
    <2>1. \A report : FinalStatus(report) \in {"completed", "failed"}
        BY DEF FinalStatus
    <2>2. hand' \in Hand
        BY <1>0, <1>2, <2>1, TakeType DEF Kill, RecoverExited, Exited
    <2> QED BY <1>2, <2>2, TurnType DEF Kill, RecoverExited, Exited, Place
<1>3. ASSUME FailDispatch \/ Reopen \/ Promote \/ Requeue PROVE TypeOK'
    <2>1. /\ [row EXCEPT !.status = "failed"] \in Row /\ [row EXCEPT !.ready = TRUE] \in Row
          /\ [row EXCEPT !.status = "running"] \in Row
        BY <1>0, RowTypes, Statuses
    <2>2. CASE FailDispatch
        BY <2>1, <2>2, LastWriteType DEF FailDispatch
    <2>3. CASE Reopen
        BY <2>1, <2>3, LastWriteType DEF Reopen
    <2>4. CASE Promote
        BY <2>1, <2>4, LastWriteType DEF Promote
    <2>5. CASE Requeue
        BY <1>0, <2>5, NextAttemptType, LastWriteType DEF Requeue
    <2> QED BY <1>3, <2>2, <2>3, <2>4, <2>5
<1>4. ASSUME Assign \/ StartTask \/ Clear PROVE TypeOK'
    <2>1. row' \in Row
        <3>1. hand.attempt \in Container
            BY <1>0, HandTypes DEF Container
        <3>2. /\ [row EXCEPT !.status = "provisioning"] \in Row
              /\ [row EXCEPT !.container = 0] \in Row
              /\ [row EXCEPT !.status = "running", !.container = hand.attempt] \in Row
            BY <1>0, <3>1, RowTypes, Statuses
        <3> QED BY <1>0, <1>4, <3>2 DEF Assign, StartTask, Clear
    <2>2. OrchestratorTypeOK'
        BY <1>0, <1>4, RestType DEF Assign, StartTask, Clear, OrchestratorTypeOK, Place, Cleaning
    <2>3. Works \/ (\E kind \in Fault : Breaks(kind))
        BY <1>4 DEF Assign, StartTask, Clear, Fault
    <2> QED BY <1>b, <1>4, <2>1, <2>2, <2>3, Parts DEF Assign, StartTask, Clear
<1>5. ASSUME CopyLog PROVE TypeOK'
    <2>1. OrchestratorTypeOK'
        BY <1>0, <1>5 DEF CopyLog, OrchestratorTypeOK, Place
    <2>2. Works \/ (\E kind \in Fault : Breaks(kind))
        BY <1>5 DEF CopyLog, Fault
    <2> QED BY <1>0, <1>b, <1>5, <2>1, <2>2, Parts DEF CopyLog
<1>6. ASSUME CreateTmp \/ FillTmp \/ RenameTmp PROVE TypeOK'
    <2>1. OrchestratorTypeOK'
        <3>1. CASE AfterWrite(TRUE) \/ AfterWrite(FALSE)
            BY <1>0, <3>1, AfterWriteType
        <3>2. CASE at' \in {"fill", "rename"} /\ UNCHANGED <<file, hand>>
            BY <1>0, <3>2 DEF OrchestratorTypeOK, Place
        <3> QED BY <1>6, <3>1, <3>2 DEF CreateTmp, FillTmp, RenameTmp
    <2>2. tmp' \in [Artifact -> File]
        BY <1>0, <1>6, FileTypes, NothingTypes DEF CreateTmp, FillTmp, RenameTmp
    <2>3. dir' \in [Artifact -> File]
        BY <1>0, <1>6 DEF CreateTmp, FillTmp, RenameTmp
    <2>4. Works \/ (\E kind \in Fault : Breaks(kind))
        BY <1>6 DEF CreateTmp, FillTmp, RenameTmp, Fault
    <2>5. UNCHANGED <<row, outside>>
        BY <1>6 DEF CreateTmp, FillTmp, RenameTmp
    <2> QED BY <1>0, <2>1, <2>2, <2>3, <2>4, <2>5, Parts
<1>7. ASSUME Complete PROVE TypeOK'
    <2>0. hand.result \in Status /\ hand.url \in BOOLEAN
        BY <1>0, HandTypes, Statuses
    <2>1. OrchestratorTypeOK'
        BY <1>0, <1>7, SaveMetadataType DEF Complete, OrchestratorTypeOK, Place
    <2>2. row' \in Row
        <3>1. [row EXCEPT !.status = hand.result, !.url = hand.url] \in Row
            BY <1>0, <2>0, RowTypes, Zenon
        <3> QED BY <1>0, <1>7, <3>1 DEF Complete
    <2>3. Works \/ (\E kind \in Fault : Breaks(kind))
        BY <1>7 DEF Complete, Fault
    <2> QED BY <1>b, <1>7, <2>1, <2>2, <2>3, Parts DEF Complete
<1>8. ASSUME Refresh PROVE TypeOK'
    <2> DEFINE loaded == [hand EXCEPT !.status = row.status, !.attempt = row.attempt,
                                      !.container = row.container, !.url = row.url]
               patched == [hand EXCEPT !.status = hand.result]
    <2>0. loaded \in Hand /\ patched \in Hand
        <3>1. hand.result \in Status
            BY <1>0, HandTypes, Statuses
        <3> QED BY <1>0, <3>1, HandTypes, Zenon
    <2> HIDE DEF loaded, patched
    <2>1. ASSUME NEW task \in Hand, Refreshed(task) PROVE OrchestratorTypeOK'
        BY <1>0, <2>1, SaveMetadataType DEF Refreshed, OrchestratorTypeOK, Place
    <2>2. Refreshed(loaded) \/ Refreshed(patched)
        BY <1>8 DEF Refresh, loaded, patched
    <2>3. Works \/ (\E kind \in Fault : Breaks(kind))
        BY <1>8 DEF Refresh, Fault
    <2> QED BY <1>0, <1>b, <1>8, <2>0, <2>1, <2>2, <2>3, Parts DEF Refresh
<1>9. ASSUME OpenGate PROVE TypeOK'
    <2>1. row' \in Row
        BY <1>0, <1>9, RowTypes DEF OpenGate
    <2>2. Works \/ (\E kind \in Fault : Breaks(kind))
        BY <1>9 DEF OpenGate, Fault
    <2> QED BY <1>0, <1>b, <1>9, <2>1, <2>2, SaveMetadataType, Parts DEF OpenGate
<1>10. ASSUME CancelPreflight \/ RetryPreflight PROVE TypeOK'
    BY <1>10 DEF CancelPreflight, RetryPreflight, TypeOK, FaultsTypeOK, files, orchestrator, history
<1>11. ASSUME Cancel \/ Retry PROVE TypeOK'
    <2>1. row' \in Row
        BY <1>0, <1>11, RowTypes, NextAttemptType, Statuses DEF Cancel, Retry
    <2>2. overtaken' \in BOOLEAN /\ cancel' \in BOOLEAN /\ retry' \in BOOLEAN
        BY <1>11 DEF Cancel, Retry, TypeOK, history
    <2> QED BY <1>11, <2>1, <2>2 DEF Cancel, Retry, TypeOK, FaultsTypeOK, files, orchestrator, history
<1>12. ASSUME NEW r \in Reader,
              (\E f \in Artifact : Check(r, f)) \/ Serve(r) \/ Answered(r)
       PROVE  TypeOK'
    <2>1. reader' \in [Reader -> Read]
        <3>1. ASSUME NEW f \in Artifact, Check(r, f) PROVE reader' \in [Reader -> Read]
            BY <1>0, <3>1, NothingTypes DEF Check, TypeOK, Read
        <3>2. CASE Serve(r)
            <4>1. reader[r] \in Read /\ dir[reader[r].file] \in File
                BY <1>0, ReadTypes DEF TypeOK
            <4> QED BY <3>2, <4>1, ReadTypes, NothingTypes DEF Serve, TypeOK
        <3>3. CASE Answered(r)
            BY <3>3, NothingTypes DEF Answered, TypeOK
        <3> QED BY <1>12, <3>1, <3>2, <3>3
    <2>2. UNCHANGED <<faults, save, row, files, orchestrator, cancel, retry, history>>
        BY <1>12 DEF Check, Serve, Answered
    <2> QED BY <2>1, <2>2 DEF TypeOK, FaultsTypeOK, files, orchestrator, history
<1>13. ASSUME Crash PROVE TypeOK'
    <2>1. row' \in Row
        <3>1. /\ [row EXCEPT !.status = "recovering"] \in Row
              /\ [row EXCEPT !.status = "recovering", !.container = 0] \in Row
            BY <1>0, RowTypes, Statuses DEF Container
        <3> QED BY <1>0, <1>13, <3>1 DEF Crash
    <2>2. FaultsTypeOK'
        <3>1. Works \/ (\E kind \in Fault : Breaks(kind))
            BY <1>13 DEF Crash, Fault
        <3> QED BY <3>1, FaultTypes DEF TypeOK
    <2>3. crashes' \in 0 .. MaxCrashes
        BY <1>13, OutputsAssumption DEF Crash, TypeOK
    <2>4. reader' \in [Reader -> Read] /\ cancel' \in BOOLEAN /\ retry' \in BOOLEAN
        BY <1>13, NothingTypes DEF Crash
    <2>5. OrchestratorTypeOK'
        BY <1>13, RestType DEF Crash
    <2> QED BY <1>13, <2>1, <2>2, <2>3, <2>4, <2>5 DEF Crash, TypeOK, OrchestratorTypeOK, files
<1>14. ASSUME UNCHANGED vars PROVE TypeOK'
    BY <1>14 DEF vars, TypeOK, FaultsTypeOK, files, orchestrator
<1> QED
    BY <1>1, <1>2, <1>3, <1>4, <1>5, <1>6, <1>7, <1>8, <1>9, <1>10, <1>11, <1>12, <1>13, <1>14
    DEF Next, Artifacts

\* Rows, files and the orchestrator's place stay well typed through every
\* failure, restart and retry.
THEOREM TypeCorrect == Spec => []TypeOK
<1> QED BY Typing, TypingInit, PTL DEF Spec

----------------------------------------------------------------------------
(* Whole files.                                                            *)

\* Only what has been written to its end is renamed, and a *.tmp file about to be
\* renamed has been.
WholeInv ==
    /\ \A f \in Artifact : dir[f] = NoFile \/ dir[f].whole
    /\ at = "rename" => tmp[file].whole
    /\ AnswersAreWhole

\* The steps that neither write a file nor read one.
Fileless ==
    \/ Dispatch \/ Assign \/ StartTask \/ FailDispatch \/ CleanUp \/ Clear \/ Reopen
    \/ Recover \/ Promote \/ GiveUp \/ Requeue \/ Kill \/ RecoverExited \/ Exited
    \/ CopyLog \/ Complete \/ Refresh \/ OpenGate
    \/ CancelPreflight \/ Cancel \/ RetryPreflight \/ Retry

LEMMA FilelessSteps ==
    ASSUME Fileless
    PROVE  UNCHANGED <<dir, tmp, reader>> /\ (at' = "rename" => UNCHANGED <<at, file, hand>>)
<1>1. CASE Dispatch \/ Assign \/ StartTask \/ FailDispatch \/ CleanUp \/ Clear \/ Reopen
    BY <1>1 DEF Dispatch, Assign, StartTask, FailDispatch, CleanUp, Clear, Reopen,
                Turn, LastWrite, Rest, files, outside, requests, history
<1>2. CASE Recover \/ Promote \/ GiveUp \/ Requeue \/ Kill \/ RecoverExited \/ Exited
    BY <1>2 DEF Recover, Promote, GiveUp, Requeue, Kill, RecoverExited, Exited,
                Turn, LastWrite, Rest, files, outside, requests, history
<1>3. CASE CopyLog \/ Complete \/ Refresh \/ OpenGate
    BY <1>3 DEF CopyLog, Complete, Refresh, Refreshed, OpenGate, SaveMetadata, Rest,
                files, outside, requests, history
<1>4. CASE CancelPreflight \/ Cancel \/ RetryPreflight \/ Retry
    BY <1>4 DEF CancelPreflight, Cancel, RetryPreflight, Retry, files, orchestrator
<1> QED BY <1>1, <1>2, <1>3, <1>4 DEF Fileless

LEMMA WholeInit == Init => WholeInv
BY DEF Init, WholeInv, AnswersAreWhole, NoFile, NoRead, Artifact

LEMMA WholeStep == TypeOK /\ WholeInv /\ [Next]_vars => WholeInv'
<1> SUFFICES ASSUME TypeOK, WholeInv, [Next]_vars PROVE WholeInv'
    OBVIOUS
<1> USE DEF WholeInv, AnswersAreWhole
<1>1. CASE Fileless
    BY <1>1, FilelessSteps
<1>2. CASE CreateTmp
    BY <1>2 DEF CreateTmp, AfterWrite, Rest, outside, requests, history
<1>3. CASE FillTmp
    <2>1. UNCHANGED <<dir, reader>>
        BY <1>3 DEF FillTmp, outside, requests, history
    <2>2. at' = "rename" => UNCHANGED file /\ tmp' = [tmp EXCEPT ![file] = Content]
        BY <1>3 DEF FillTmp, AfterWrite, Rest
    <2>3. Content.whole /\ file \in DOMAIN tmp
        BY DEF Content, TypeOK
    <2> QED BY <2>1, <2>2, <2>3
<1>4. CASE RenameTmp
    <2>1. at' # "rename" /\ UNCHANGED reader /\ tmp[file].whole
        BY <1>4 DEF RenameTmp, AfterWrite, Rest, outside, requests, history
    <2>2. UNCHANGED dir \/ dir' = [dir EXCEPT ![file] = tmp[file]]
        BY <1>4 DEF RenameTmp
    <2> QED BY <2>1, <2>2 DEF TypeOK
<1>5. CASE \E r \in Reader, f \in Artifact : Check(r, f)
    BY <1>5 DEF Check, TypeOK, files, orchestrator
<1>6. CASE \E r \in Reader : Serve(r)
    <2>1. PICK r \in Reader : Serve(r)
        BY <1>6
    <2>2. reader[r] \in Read /\ reader[r].file \in Artifact
        BY ReadTypes DEF TypeOK
    <2>3. UNCHANGED <<dir, tmp, at, file>>
        BY <2>1 DEF Serve, files, orchestrator
    <2>4. ASSUME NEW q \in Reader, reader'[q].at = "answered" PROVE reader'[q].got.whole
        BY <2>1, <2>2, <2>4 DEF Serve, TypeOK, NoRead, Read
    <2> QED BY <2>3, <2>4
<1>7. CASE \E r \in Reader : Answered(r)
    BY <1>7 DEF Answered, TypeOK, files, orchestrator, NoRead
<1>8. CASE Crash
    BY <1>8 DEF Crash, NoRead, Rest, files
<1>9. CASE UNCHANGED vars
    BY <1>9 DEF vars, orchestrator
<1> QED BY <1>1, <1>2, <1>3, <1>4, <1>5, <1>6, <1>7, <1>8, <1>9 DEF Next, Artifacts, Fileless

\* No reader gets half a file, for any number of readers, attempts, failures and
\* restarts, and whenever retries and cancellations are written.
THEOREM ReadersGetWholeFiles == Spec => []AnswersAreWhole
<1>1. WholeInv => AnswersAreWhole
    BY DEF WholeInv
<1> QED BY <1>1, Typing, TypingInit, WholeInit, WholeStep, PTL DEF Spec

----------------------------------------------------------------------------
(* Row, log and the orchestrator's turn, until a retry overtakes a clean-up. *)

\* The log of attempt n, in full.
Log(n) == [attempt |-> n, status |-> "pending", whole |-> TRUE]

\* A turn that still has to write the log, or to give it up.
Logging == at = "copy" \/ (at \in {"create", "fill", "rename"} /\ file = "log")

\* A turn of a dispatch or of a recovery.
Starting == at \in {"assign", "start", "fail", "promote", "requeue"}

\* A turn that has yet to complete the task, to reload it or to open its gate.
Turning == Logging \/ at \in {"complete", "refresh", "gate"}

\* A row points to a log only when its own is there.  That takes more facts: the
\* gate is open only on an attempt that has failed or was cancelled, and stays
\* shut until the turn has opened it, so that the pointer of a turn is about the
\* row's present attempt; an attempt under way has no URL yet; its container is
\* its own; what waits under the *.tmp name is the log of the turn; and a clean-up
\* that will open the gate by id still finds the row cancelled.
LogInv ==
    /\ row.url => dir["log"] = Log(row.attempt)
    /\ row.status \in Active \cup {"pending"} => ~row.url /\ ~row.ready
    /\ row.ready => row.status \in {"failed", "cancelled"}
    /\ row.container \in {0, row.attempt}
    /\ Starting => ~row.url /\ ~row.ready
    /\ at \in {"assign", "start"} => hand.attempt = row.attempt
    /\ Turning => ~row.ready /\ hand.attempt = row.attempt
    /\ Logging => ~row.url /\ ~hand.url /\ hand.container = row.attempt
    /\ at = "complete" => ~row.url /\ (hand.url => dir["log"] = Log(row.attempt))
    /\ at = "rename" => tmp[file] = Content
    /\ at = "refresh" => row.status \in Ended /\ (row.status = "completed" => hand.result = "completed")
    /\ at = "gate" => row.status \in {"failed", "cancelled"}
    /\ at \in Cleaning => row.status = "cancelled"
    /\ at \notin {"create", "fill", "rename"} => file = "log"

LEMMA LogInit == Init => LogInv
BY DEF Init, LogInv, Turning, Logging, Starting, Active, Cleaning

LEMMA LogStep ==
    ASSUME TypeOK, LogInv, [Next]_vars, ~overtaken'
    PROVE  LogInv'
<1>0. /\ row \in Row /\ row.status \in Status /\ row.attempt \in Attempt
      /\ hand \in Hand /\ hand.result \in {"completed", "failed"}
      /\ hand.url \in BOOLEAN /\ row.url \in BOOLEAN /\ row.ready \in BOOLEAN
      /\ at \in Place /\ file \in Artifact
      /\ dir \in [Artifact -> File] /\ tmp \in [Artifact -> File]
    BY RowTypes, HandTypes DEF TypeOK
<1> USE DEF LogInv, Turning, Logging, Starting, Active, Ended, Cleaning
\* The statements by id, as they change the row.
<1>a. /\ \A s \in Status : LET r == [row EXCEPT !.status = s] IN
           /\ r.status = s /\ r.url = row.url /\ r.ready = row.ready
           /\ r.attempt = row.attempt /\ r.container = row.container
      /\ \A c \in Container : LET r == [row EXCEPT !.status = "running", !.container = c] IN
           /\ r.status = "running" /\ r.url = row.url /\ r.ready = row.ready
           /\ r.attempt = row.attempt /\ r.container = c
      /\ LET r == [row EXCEPT !.status = "recovering", !.container = 0] IN
           /\ r.status = "recovering" /\ r.url = row.url /\ r.ready = row.ready
           /\ r.attempt = row.attempt /\ r.container = 0
      /\ LET r == [row EXCEPT !.container = 0] IN
           /\ r.status = row.status /\ r.url = row.url /\ r.ready = row.ready
           /\ r.attempt = row.attempt /\ r.container = 0
      /\ LET r == [row EXCEPT !.ready = TRUE] IN
           /\ r.status = row.status /\ r.url = row.url /\ r.ready
           /\ r.attempt = row.attempt /\ r.container = row.container
      /\ LET r == [row EXCEPT !.status = hand.result, !.url = hand.url] IN
           /\ r.status = hand.result /\ r.url = hand.url /\ r.ready = row.ready
           /\ r.attempt = row.attempt /\ r.container = row.container
    BY <1>0 DEF Row
<1>1. ASSUME Dispatch \/ CleanUp \/ Recover \/ GiveUp \/ Kill \/ RecoverExited \/ Exited
      PROVE  LogInv'
    <2>1. /\ at = "idle" /\ file' = file /\ UNCHANGED <<row, files>>
        BY <1>1 DEF Dispatch, CleanUp, Recover, GiveUp, Kill, RecoverExited, Exited, Turn
    <2>2. CASE Dispatch \/ CleanUp \/ Recover \/ GiveUp
        BY <2>1, <2>2 DEF Dispatch, CleanUp, Recover, GiveUp, Turn, Take, files
    <2>3. CASE Kill
        BY <2>1, <2>3 DEF Kill, Turn, Take, files
    <2>4. CASE RecoverExited
        BY <2>1, <2>4 DEF RecoverExited, Turn, Take, files
    <2>5. CASE Exited
        BY <2>1, <2>5 DEF Exited, Turn, Take, files
    <2> QED BY <1>1, <2>2, <2>3, <2>4, <2>5
<1>2. ASSUME Assign \/ StartTask PROVE LogInv'
    <2>1. CASE Assign
        <3>1. /\ row'.status \in {row.status, "provisioning"} /\ row'.url = row.url
              /\ row'.ready = row.ready /\ row'.attempt = row.attempt
              /\ row'.container = row.container
            <4>1. "provisioning" \in Status
                BY Statuses
            <4>2. UNCHANGED row \/ row' = [row EXCEPT !.status = "provisioning"]
                BY <2>1 DEF Assign
            <4> QED BY <1>0, <4>1, <4>2 DEF Row
        <3>2. at = "assign" /\ at' \in {"start", "fail"} /\ UNCHANGED <<dir, file, hand>>
            BY <2>1 DEF Assign, files
        <3> QED BY <1>0, <3>1, <3>2
    <2>2. CASE StartTask
        <3>1. hand.attempt = row.attempt /\ hand.attempt \in Container
            BY <1>0, <2>2 DEF StartTask, Container
        <3>2. at = "start" /\ file = "log" /\ file' = "log" /\ UNCHANGED dir
            BY <2>2 DEF StartTask, Rest, files
        <3>3. CASE /\ row' = [row EXCEPT !.status = "running", !.container = hand.attempt]
                   /\ at' = "idle"
            BY <1>0, <1>a, <3>1, <3>2, <3>3
        <3>4. CASE UNCHANGED <<row, hand>> /\ at' = "fail"
            BY <3>2, <3>4
        <3> QED BY <2>2, <3>3, <3>4 DEF StartTask, Rest
    <2> QED BY <1>2, <2>1, <2>2
<1>3. ASSUME FailDispatch \/ Promote PROVE LogInv'
    <2>1. /\ row'.status \in {row.status, "failed", "running"} /\ row'.url = row.url
          /\ row'.ready = row.ready /\ row'.attempt = row.attempt
          /\ row'.container = row.container
        <3>1. "failed" \in Status /\ "running" \in Status
            BY Statuses
        <3>2. \/ UNCHANGED row \/ row' = [row EXCEPT !.status = "failed"]
              \/ row' = [row EXCEPT !.status = "running"]
            BY <1>3 DEF FailDispatch, Promote, LastWrite
        <3> QED BY <1>0, <3>1, <3>2 DEF Row
    <2>2. /\ at \in {"fail", "promote"} /\ at' = "idle" /\ file' = "log"
          /\ UNCHANGED dir
        BY <1>3 DEF FailDispatch, Promote, LastWrite, Rest, files
    <2> QED BY <1>0, <2>1, <2>2
<1>4. ASSUME Reopen PROVE LogInv'
    <2>1. /\ row'.status = row.status /\ row'.url = row.url
          /\ row'.attempt = row.attempt /\ row'.container = row.container
        BY <1>4, <1>a DEF Reopen, LastWrite
    <2>2. at = "reopen" /\ at' = "idle" /\ file' = "log" /\ UNCHANGED dir
        BY <1>4 DEF Reopen, LastWrite, Rest, files
    <2> QED BY <1>0, <2>1, <2>2
<1>5. ASSUME Requeue PROVE LogInv'
    BY <1>0, <1>5 DEF Requeue, LastWrite, NextAttempt, Rest, files
<1>6. ASSUME Clear PROVE LogInv'
    <2>1. /\ row'.status = row.status /\ row'.url = row.url /\ row'.ready = row.ready
          /\ row'.attempt = row.attempt /\ row'.container \in {row.container, 0}
        BY <1>6, <1>a DEF Clear
    <2>2. at = "clear" /\ at' = "reopen" /\ UNCHANGED <<dir, file, hand>>
        BY <1>6 DEF Clear, files
    <2> QED BY <1>0, <2>1, <2>2
<1>7. ASSUME CopyLog PROVE LogInv'
    BY <1>7 DEF CopyLog, files
<1>8. ASSUME CreateTmp \/ FillTmp PROVE LogInv'
    <2>1. CASE Breaks("file") /\ AfterWrite(FALSE) /\ UNCHANGED <<tmp, row, dir>>
                /\ at \in {"create", "fill"}
        <3>1. CASE file = "log"
            <4>1. at' = "complete" /\ file' = "log"
                BY <2>1, <3>1 DEF AfterWrite
            <4>2. hand'.attempt = hand.attempt /\ ~hand'.url
                BY <1>0, <2>1, <3>1 DEF AfterWrite, Hand
            <4> QED BY <2>1, <3>1, <4>1, <4>2
        <3>2. CASE file # "log"
            BY <2>1, <3>2 DEF AfterWrite, Rest
        <3> QED BY <3>1, <3>2
    <2>2. CASE CreateTmp /\ at' = "fill"
        BY <1>0, <2>2 DEF CreateTmp, AfterWrite, Rest
    <2>3. CASE FillTmp /\ at' = "rename"
        <3>1. tmp'[file] = Content /\ UNCHANGED <<row, dir, file, hand>>
            BY <1>0, <2>3 DEF FillTmp, AfterWrite, Rest
        <3>2. Content' = Content
            BY <3>1 DEF Content
        <3>3. at = "fill"
            BY <2>3 DEF FillTmp
        <3> QED BY <2>3, <3>1, <3>2, <3>3
    <2> QED BY <1>8, <2>1, <2>2, <2>3 DEF CreateTmp, FillTmp
<1>9. ASSUME RenameTmp PROVE LogInv'
    <2>0. at = "rename" /\ tmp[file] = Content /\ UNCHANGED row
        BY <1>9 DEF RenameTmp
    <2>1. CASE file # "log"
        <3>1. Rest /\ dir'["log"] = dir["log"]
            <4>1. Rest
                BY <1>9, <2>1 DEF RenameTmp, AfterWrite
            <4>2. UNCHANGED dir \/ dir' = [dir EXCEPT ![file] = tmp[file]]
                BY <1>9 DEF RenameTmp
            <4>3. "log" \in DOMAIN dir
                BY <1>0 DEF Artifact
            <4> QED BY <2>1, <4>1, <4>2, <4>3
        <3> QED BY <2>0, <3>1 DEF Rest
    <2>2. CASE file = "log"
        <3>1. /\ hand.attempt = row.attempt /\ hand.container = row.attempt
              /\ ~row.ready /\ ~row.url /\ ~hand.url
            BY <2>0, <2>2
        <3>2. at' = "complete" /\ file' = "log" /\ hand'.attempt = hand.attempt
            BY <1>0, <1>9, <2>2 DEF RenameTmp, AfterWrite, Hand
        <3>3. CASE dir' = [dir EXCEPT ![file] = tmp[file]]
            <4>1. dir'["log"] = Log(row.attempt)
                BY <1>0, <2>0, <2>2, <3>1, <3>3 DEF Log, Content, Artifact
            <4> QED BY <2>0, <3>1, <3>2, <4>1
        <3>4. CASE AfterWrite(FALSE) /\ UNCHANGED dir
            <4>1. ~hand'.url
                BY <1>0, <2>2, <3>1, <3>4 DEF AfterWrite, Hand
            <4> QED BY <2>0, <3>1, <3>2, <3>4, <4>1
        <3> QED BY <1>9, <3>3, <3>4 DEF RenameTmp
    <2> QED BY <2>1, <2>2
<1>10. ASSUME Complete PROVE LogInv'
    <2>1. CASE at' = "refresh"
        <3>1. /\ UNCHANGED <<file, hand, files>> /\ file = "log"
              /\ row' = [row EXCEPT !.status = hand.result, !.url = hand.url]
            BY <1>10, <2>1 DEF Complete, SaveMetadata, Rest
        <3> QED BY <1>0, <1>10, <1>a, <2>1, <3>1 DEF Complete, files
    <2>2. CASE SaveMetadata(hand) /\ UNCHANGED row
        BY <1>10, <2>2 DEF Complete, SaveMetadata, Rest, files
    <2> QED BY <1>10, <2>1, <2>2 DEF Complete
<1>11. ASSUME Refresh PROVE LogInv'
    <2> DEFINE loaded == [hand EXCEPT !.status = row.status, !.attempt = row.attempt,
                                      !.container = row.container, !.url = row.url]
               patched == [hand EXCEPT !.status = hand.result]
    <2>1. loaded.attempt = row.attempt /\ patched.attempt = row.attempt
        BY <1>0, <1>11 DEF Refresh, Hand
    <2> HIDE DEF loaded, patched
    <2>2. PICK task \in {loaded, patched} : Refreshed(task)
        BY <1>11 DEF Refresh, loaded, patched
    <2>3. at = "refresh" /\ file = "log" /\ UNCHANGED <<row, files>>
        BY <1>11 DEF Refresh
    <2>4. CASE hand.result = "failed"
        BY <2>1, <2>2, <2>3, <2>4 DEF Refreshed, files
    <2>5. CASE hand.result # "failed"
        BY <2>2, <2>3, <2>5 DEF Refreshed, SaveMetadata, Rest, files
    <2> QED BY <2>4, <2>5
<1>12. ASSUME OpenGate PROVE LogInv'
    <2>1. /\ row'.status = row.status /\ row'.url = row.url
          /\ row'.attempt = row.attempt /\ row'.container = row.container
        BY <1>12, <1>a DEF OpenGate
    <2>2. at = "gate" /\ UNCHANGED dir
        BY <1>12 DEF OpenGate, files
    <2>3. (at' = "idle" /\ file' = "log") \/ (at' = "create" /\ file' = "json")
        BY <1>12 DEF OpenGate, SaveMetadata, Rest
    <2> QED BY <1>0, <2>1, <2>2, <2>3
<1>13. ASSUME Cancel PROVE LogInv'
    BY <1>0, <1>13, <1>a, Statuses DEF Cancel, files, orchestrator, Content
<1>14. ASSUME CancelPreflight \/ RetryPreflight PROVE LogInv'
    BY <1>14 DEF CancelPreflight, RetryPreflight, files, orchestrator, Content
<1>15. ASSUME Retry PROVE LogInv'
    <2>1. CASE row' = NextAttempt /\ row.ready /\ at \notin Cleaning
        <3>1. ~Starting /\ ~Turning /\ (at # "rename" \/ file # "log")
            BY <1>0, <2>1
        <3> QED BY <1>0, <1>15, <2>1, <3>1 DEF Retry, NextAttempt, files, orchestrator, Content
    <2>2. CASE UNCHANGED row
        BY <1>15, <2>2 DEF Retry, files, orchestrator, Content
    <2> QED BY <1>15, <2>1, <2>2 DEF Retry
<1>16. ASSUME NEW r \in Reader, NEW f \in Artifact, Check(r, f) \/ Serve(r) \/ Answered(r)
       PROVE  LogInv'
    <2>1. UNCHANGED <<row, dir, tmp, at, file, hand>>
        BY <1>16 DEF Check, Serve, Answered, files, orchestrator
    <2> QED BY <2>1 DEF Content
<1>17. ASSUME Crash PROVE LogInv'
    <2>1. UNCHANGED dir /\ at' = "idle" /\ file' = "log"
        BY <1>17 DEF Crash, Rest, files
    <2>2. CASE UNCHANGED row
        BY <2>1, <2>2
    <2>3. CASE row.status = "running" /\ row' = [row EXCEPT !.status = "recovering"]
        BY <1>a, <2>1, <2>3, Statuses
    <2>4. CASE row.status = "provisioning"
               /\ row' = [row EXCEPT !.status = "recovering", !.container = 0]
        BY <1>a, <2>1, <2>4
    <2> QED BY <1>17, <2>2, <2>3, <2>4 DEF Crash
<1>18. ASSUME UNCHANGED vars PROVE LogInv'
    BY <1>18 DEF vars, orchestrator, Content
<1> QED
    BY <1>1, <1>2, <1>3, <1>4, <1>5, <1>6, <1>7, <1>8, <1>9, <1>10, <1>11, <1>12, <1>13,
       <1>14, <1>15, <1>16, <1>17, <1>18
    DEF Next, Artifacts, Artifact

\* What has overtaken stays so.
LEMMA OvertakenStays ==
    ASSUME [Next]_vars, overtaken PROVE overtaken'
<1>1. CASE \/ Dispatch \/ CleanUp \/ Recover \/ GiveUp \/ Kill \/ RecoverExited \/ Exited
           \/ FailDispatch \/ Reopen \/ Promote \/ Requeue
    BY <1>1 DEF Dispatch, CleanUp, Recover, GiveUp, Kill, RecoverExited, Exited, FailDispatch,
                Reopen, Promote, Requeue, Turn, LastWrite, outside, history
<1>2. CASE Assign \/ StartTask \/ Clear \/ Artifacts
    BY <1>2 DEF Assign, StartTask, Clear, Artifacts, CopyLog, CreateTmp, FillTmp, RenameTmp,
                Complete, Refresh, OpenGate, outside, history
<1>3. CASE CancelPreflight \/ Cancel \/ RetryPreflight \/ Retry
    BY <1>3 DEF CancelPreflight, Cancel, RetryPreflight, Retry, history
<1>4. CASE \E r \in Reader : (\E f \in Artifact : Check(r, f)) \/ Serve(r) \/ Answered(r)
    BY <1>4 DEF Check, Serve, Answered, history
<1>5. CASE Crash \/ UNCHANGED vars
    BY <1>5 DEF Crash, vars
<1> QED BY <1>1, <1>2, <1>3, <1>4, <1>5 DEF Next

\* An output URL of an ended attempt means the log of that attempt, for any
\* number of attempts, restarts and failures, until a retry is written into a
\* clean-up: the log and the row are written in this order, and the gate keeps a
\* retry out until both are.
THEOREM URLMeansLog == Spec => []OutputURLMeansLog
<1> DEFINE Inv == ~overtaken => LogInv
<1>1. TypeOK /\ Inv => OutputURLMeansLog
    BY DEF LogInv, OutputURLMeansLog, Log
<1>2. Init => Inv
    BY LogInit
<1>3. TypeOK /\ Inv /\ [Next]_vars => Inv'
    BY LogStep, OvertakenStays
<1> QED BY <1>1, <1>2, <1>3, Typing, TypingInit, PTL DEF Spec

----------------------------------------------------------------------------
(* What readers get, until then.                                           *)

\* The log never steps back to an earlier attempt nor ahead of the row, and a
\* reader that has checked a row found the log of that attempt beside it.
ReadInv ==
    /\ dir["log"].attempt <= row.attempt
    /\ \A r \in Reader : reader[r].at = "checked" /\ reader[r].file = "log" =>
           reader[r].attempt <= dir["log"].attempt
    /\ \A r \in Reader : reader[r].at = "answered" /\ reader[r].file = "log" =>
           reader[r].got.attempt >= reader[r].attempt

LEMMA ReadInit == Init => ReadInv
BY DEF Init, ReadInv, NoFile, NoRead, Artifact

\* The number of a task's attempt never goes down.
LEMMA AttemptsGrow ==
    ASSUME TypeOK, [Next]_vars
    PROVE  row'.attempt \in {row.attempt, row.attempt + 1}
<1>1. row \in Row
    BY DEF TypeOK
<1>2. NextAttempt.attempt = row.attempt + 1
    BY DEF NextAttempt
<1>3. CASE Dispatch \/ CleanUp \/ Recover \/ GiveUp \/ Kill \/ RecoverExited \/ Exited
    BY <1>3 DEF Dispatch, CleanUp, Recover, GiveUp, Kill, RecoverExited, Exited, Turn
<1>4. CASE Assign \/ StartTask \/ Clear
    BY <1>1, <1>4 DEF Assign, StartTask, Clear, Row
<1>5. CASE FailDispatch \/ Reopen \/ Promote
    BY <1>1, <1>5 DEF FailDispatch, Reopen, Promote, LastWrite, Row
<1>6. CASE Requeue
    BY <1>2, <1>6 DEF Requeue, LastWrite
<1>7. CASE Artifacts
    BY <1>1, <1>7 DEF Artifacts, CopyLog, CreateTmp, FillTmp, RenameTmp, Complete, Refresh,
                     OpenGate, Row
<1>8. CASE Cancel
    BY <1>1, <1>8 DEF Cancel, Row
<1>9. CASE Retry
    BY <1>2, <1>9 DEF Retry
<1>10. CASE \/ CancelPreflight \/ RetryPreflight
            \/ \E r \in Reader : (\E f \in Artifact : Check(r, f)) \/ Serve(r) \/ Answered(r)
    BY <1>10 DEF CancelPreflight, RetryPreflight, Check, Serve, Answered
<1>11. CASE Crash
    BY <1>1, <1>11 DEF Crash, Row
<1>12. CASE UNCHANGED vars
    BY <1>12 DEF vars
<1> QED BY <1>3, <1>4, <1>5, <1>6, <1>7, <1>8, <1>9, <1>10, <1>11, <1>12 DEF Next

LEMMA ReadStep ==
    ASSUME TypeOK, LogInv, ReadInv, [Next]_vars
    PROVE  ReadInv'
<1>0. /\ row.attempt \in Nat /\ dir["log"].attempt \in Nat
      /\ \A r \in Reader : reader[r].attempt \in Nat
      /\ row'.attempt >= row.attempt
    <2>1. dir["log"] \in File /\ \A r \in Reader : reader[r] \in Read
        BY DEF TypeOK, Artifact
    <2>2. row.attempt \in Attempt
        BY RowTypes DEF TypeOK
    <2>3. /\ dir["log"].attempt \in Attempt \cup {0}
          /\ \A r \in Reader : reader[r].attempt \in Attempt
        BY <2>1, ReadTypes DEF File
    <2>4. \A n \in Attempt \cup {0} : n \in Nat
        BY AttemptsAreNats
    <2>5. row'.attempt \in {row.attempt, row.attempt + 1}
        BY AttemptsGrow
    <2>6. row.attempt \in Nat
        BY <2>2, <2>4
    <2>7. row'.attempt >= row.attempt
        BY <2>5, <2>6
    <2> QED BY <2>3, <2>4, <2>6, <2>7
<1>00. row'.attempt \in Nat
    <2>1. row' \in Row
        BY Typing DEF TypeOK
    <2>2. row'.attempt \in Attempt
        BY <2>1, RowTypes
    <2> QED BY <2>2, AttemptsAreNats
<1> USE DEF ReadInv
<1>1. CASE UNCHANGED <<dir, reader>>
    BY <1>0, <1>00, <1>1
<1>2. CASE RenameTmp
    <2>0. UNCHANGED <<row, reader>> /\ tmp[file] = Content /\ file \in Artifact
        BY <1>2 DEF RenameTmp, outside, requests, history, LogInv, TypeOK
    <2>1. CASE UNCHANGED dir
        BY <1>1, <2>0, <2>1
    <2>2. CASE dir' = [dir EXCEPT ![file] = Content]
        <3>1. CASE file = "log"
            <4>1. hand.container = row.attempt
                BY <1>2, <3>1 DEF RenameTmp, LogInv, Logging
            <4>2. dir'["log"].attempt = row.attempt
                BY <2>2, <3>1, <4>1 DEF Content, TypeOK, Artifact
            <4> QED BY <1>0, <2>0, <4>2
        <3>2. CASE file # "log"
            BY <1>0, <2>0, <2>2, <3>2 DEF TypeOK, Artifact
        <3> QED BY <3>1, <3>2
    <2> QED BY <1>2, <2>0, <2>1, <2>2 DEF RenameTmp
<1>3. ASSUME NEW r \in Reader, NEW f \in Artifact, Check(r, f) PROVE ReadInv'
    <2>1. UNCHANGED <<row, dir>> /\ row.url
        BY <1>3 DEF Check, files
    <2>2. dir["log"].attempt = row.attempt
        BY <2>1 DEF LogInv, Log
    <2>3. reader' = [reader EXCEPT ![r] = [at |-> "checked", file |-> f,
                                           attempt |-> row.attempt, got |-> NoFile]]
        BY <1>3 DEF Check
    <2> QED BY <1>0, <2>1, <2>2, <2>3 DEF TypeOK
<1>4. ASSUME NEW r \in Reader, Serve(r) PROVE ReadInv'
    BY <1>0, <1>4 DEF Serve, TypeOK, files, NoRead, Read
<1>5. ASSUME NEW r \in Reader, Answered(r) PROVE ReadInv'
    BY <1>0, <1>5 DEF Answered, TypeOK, files, NoRead
<1>6. CASE Crash
    BY <1>0, <1>00, <1>6 DEF Crash, NoRead, files
<1>7. CASE CreateTmp \/ FillTmp
    BY <1>1, <1>7 DEF CreateTmp, FillTmp, outside, requests, history
<1>8. CASE Fileless
    BY <1>1, <1>8, FilelessSteps
<1>9. CASE UNCHANGED vars
    BY <1>1, <1>9 DEF vars
<1> QED
    BY <1>2, <1>3, <1>4, <1>5, <1>6, <1>7, <1>8, <1>9
    DEF Next, Artifacts, Fileless

\* No reader gets the log of an attempt before the one whose row admitted it, for
\* any number of readers and restarts, until a retry is written into a clean-up.
THEOREM ServedLogsAreCurrent == Spec => []ServedLogIsCurrent
<1> DEFINE Inv == ~overtaken => LogInv /\ ReadInv
<1>1. Inv => ServedLogIsCurrent
    BY DEF ReadInv, ServedLogIsCurrent
<1>2. Init => Inv
    BY LogInit, ReadInit
<1>3. TypeOK /\ Inv /\ [Next]_vars => Inv'
    BY LogStep, ReadStep, OvertakenStays
<1> QED BY <1>1, <1>2, <1>3, Typing, TypingInit, PTL DEF Spec
=============================================================================
