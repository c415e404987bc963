------------------------------ MODULE Backups -------------------------------
(***************************************************************************)
(* backup.Manager: every tick prunes the backup directory and may start    *)
(* the one worker, which makes a backup, uploads the newest valid artifact *)
(* and marks it as uploaded.  Tick and worker touch the same files, and    *)
(* the process may stop between any two file operations.                   *)
(*                                                                         *)
(* The name of an artifact is its timestamp.  The bytes of a file are the  *)
(* number of the backup that made them; a checksum stands for the bytes.   *)
(***************************************************************************)
EXTENDS Naturals, FiniteSetsExt

CONSTANTS
    Interval,          \* LocalBackupInterval
    Retention,         \* LocalBackupRetention; 0 keeps everything
    TempGrace,         \* staleTempGrace
    MaxBackoff,        \* the hour at which uploadBackoff stops to grow
    UploadEnabled,     \* a bucket is configured
    MaxTime,           \* bound: the clock
    MaxDuration,       \* bound: how long the worker may take for a backup
    MaxBackups,        \* bound: backups begun
    MaxFaults,         \* bound: file operations and uploads that fail
    MaxCrashes         \* bound: crashes and restarts

ASSUME BackupsAssumption ==
    /\ Interval \in Nat \ {0} /\ Retention \in Nat /\ TempGrace \in Nat
    /\ MaxBackoff \in Nat \ {0} /\ UploadEnabled \in BOOLEAN
    /\ MaxTime \in Nat /\ MaxDuration \in Nat /\ MaxBackups \in Nat
    /\ MaxFaults \in Nat /\ MaxCrashes \in Nat

VARIABLES
    file, meta, marker, temp,  \* the directory: artifacts, sidecars, markers, temps
    object,            \* the bucket, by object key
    worker,            \* the worker goroutine; idle when m.running is false
    pruner,            \* where the tick is
    failures,          \* m.uploadFailures
    nextAttempt,       \* m.nextUploadAttemptAt, 0 for nil
    now, backups, faults, crashes

files == <<file, meta, marker, temp>>
memory == <<failures, nextAttempt>>
counts == <<backups, crashes>>
vars == <<files, object, worker, pruner, memory, now, faults, counts>>

Time == 1 .. MaxTime
Name == 1 .. MaxTime + MaxBackups
Bytes == 1 .. MaxBackups
None == 0
Bad == MaxBackups + 1          \* a damaged file of the same size

NoMeta == [bytes |-> None, created |-> 0, finalized |-> 0]
NoArtifact == [name |-> None, bytes |-> None]
IdleWorker == [at |-> "idle", started |-> 0, name |-> None, bytes |-> None, artifact |-> NoArtifact]
Entry == {"artifact", "meta", "marker", "temp"} \X Name
IdlePruner == [at |-> "idle", todo |-> {}, protected |-> None, asof |-> 0, name |-> None]

TypeOK ==
    /\ file \in [Name -> Bytes \cup {None, Bad}]
    /\ meta \in [Name -> [bytes : Bytes \cup {None}, created : 0 .. MaxTime, finalized : 0 .. MaxTime]]
    /\ marker \in [Name -> Bytes \cup {None}]
    /\ temp \in [Name -> 0 .. MaxTime]
    /\ object \in [Name -> Bytes \cup {None, Bad}]
    /\ worker.at \in {"idle", "prepare", "copy", "finalize", "describe", "find", "upload", "mark"}
    /\ pruner.at \in {"idle", "look", "remove", "sidecar", "marker", "schedule"}
    /\ pruner.todo \subseteq Entry
    /\ nextAttempt \in 0 .. MaxTime + MaxBackoff
    /\ now \in Time /\ backups \in 0 .. MaxBackups
    /\ faults \in 0 .. MaxFaults /\ crashes \in 0 .. MaxCrashes

Init ==
    /\ file = [n \in Name |-> None] /\ meta = [n \in Name |-> NoMeta]
    /\ marker = [n \in Name |-> None] /\ temp = [n \in Name |-> 0]
    /\ object = [n \in Name |-> None]
    /\ worker = IdleWorker /\ pruner = IdlePruner
    /\ failures = 0 /\ nextAttempt = 0
    /\ now = 1 /\ backups = 0 /\ faults = 0 /\ crashes = 0

Works == UNCHANGED faults
Breaks == faults < MaxFaults /\ faults' = faults + 1

----------------------------------------------------------------------------
(* findLatestValidArtifact                                                 *)

\* readMetadata: the sidecar is there and fits the name and the size.
Described(n) == file[n] # None /\ meta[n].bytes # None /\ file[n] \in {meta[n].bytes, Bad}

\* Mutation: the checksum is not verified.
IsValid_NoChecksum(n) == Described(n)

\* verifyArtifactChecksum
IsValid(n) == Described(n) /\ file[n] = meta[n].bytes

Latest ==
    LET valid == {n \in Name : IsValid(n)}
    IN  IF valid = {} THEN NoArtifact
        ELSE [name |-> Max(valid), bytes |-> meta[Max(valid)].bytes]

----------------------------------------------------------------------------
(* MaybeSchedule: prune                                                    *)

Entries ==
       {<<"artifact", n>> : n \in {m \in Name : file[m] # None}}
  \cup {<<"meta", n>> : n \in {m \in Name : meta[m] # NoMeta}}
  \cup {<<"marker", n>> : n \in {m \in Name : marker[m] # None}}
  \cup {<<"temp", n>> : n \in {m \in Name : temp[m] # 0}}

\* A directory that cannot be read, or no retention: nothing is pruned.
PruneBegin ==
    /\ pruner.at = "idle"
    /\ \/ /\ Retention > 0 /\ Works
          /\ pruner' = [at |-> "look", todo |-> Entries, protected |-> Latest.name,
                        asof |-> now, name |-> None]
       \/ /\ IF Retention = 0 THEN Works ELSE Breaks
          /\ pruner' = [pruner EXCEPT !.at = "schedule"]
    /\ UNCHANGED <<files, object, worker, memory, now, counts>>

\* The entries are visited in the order of their file names.
Rank == [artifact |-> 1, meta |-> 2, temp |-> 3, marker |-> 4]

Visits(kind, n) ==
    /\ pruner.at = "look" /\ <<kind, n>> \in pruner.todo
    /\ \A e \in pruner.todo : n < e[2] \/ (n = e[2] /\ Rank[kind] <= Rank[e[1]])

Rest(kind, n) == pruner.todo \ {<<kind, n>>}
Passes(kind, n) == pruner' = [pruner EXCEPT !.todo = Rest(kind, n)]

\* The finalization if the sidecar tells it, else the timestamp in the name.
AgeRef(n) == IF Described(n) THEN meta[n].finalized ELSE n

TooOld(t, limit) == t + limit < pruner.asof

\* Mutation: the newest valid artifact is not protected.
PruneArtifact_Unprotected(n) ==
    /\ Visits("artifact", n)
    /\ IF ~TooOld(AgeRef(n), Retention)
       THEN Passes("artifact", n)
       ELSE pruner' = [pruner EXCEPT !.at = "remove", !.name = n, !.todo = Rest("artifact", n)]
    /\ UNCHANGED <<files, object, worker, memory, now, faults, counts>>

PruneArtifact(n) ==
    /\ Visits("artifact", n)
    /\ IF n = pruner.protected \/ ~TooOld(AgeRef(n), Retention)
       THEN Passes("artifact", n)
       ELSE pruner' = [pruner EXCEPT !.at = "remove", !.name = n, !.todo = Rest("artifact", n)]
    /\ UNCHANGED <<files, object, worker, memory, now, faults, counts>>

\* A removal that fails is logged, and prune goes on.
Removes(n, entries, gone) ==
    \/ Works /\ entries' = [entries EXCEPT ![n] = gone]
    \/ Breaks /\ UNCHANGED entries

\* The artifact goes first, then its sidecar, then its marker.
PruneRemove ==
    /\ pruner.at = "remove" /\ pruner' = [pruner EXCEPT !.at = "sidecar"]
    /\ Removes(pruner.name, file, None)
    /\ UNCHANGED <<meta, marker, temp, object, worker, memory, now, counts>>

PruneSidecar ==
    /\ pruner.at = "sidecar" /\ pruner' = [pruner EXCEPT !.at = "marker"]
    /\ Removes(pruner.name, meta, NoMeta)
    /\ UNCHANGED <<file, marker, temp, object, worker, memory, now, counts>>

PruneMarker ==
    /\ pruner.at = "marker" /\ pruner' = [pruner EXCEPT !.at = "look", !.name = None]
    /\ Removes(pruner.name, marker, None)
    /\ UNCHANGED <<file, meta, temp, object, worker, memory, now, counts>>

\* A temp file whose last write is longer ago than the grace is removed.
PruneTemp(n) ==
    /\ Visits("temp", n) /\ Passes("temp", n)
    /\ IF TooOld(temp[n], TempGrace) THEN Removes(n, temp, 0) ELSE Works /\ UNCHANGED temp
    /\ UNCHANGED <<file, meta, marker, object, worker, memory, now, counts>>

\* A sidecar or a marker without its artifact is removed.
PruneOrphan(n) ==
    /\ \/ /\ Visits("meta", n) /\ Passes("meta", n) /\ UNCHANGED marker
          /\ IF file[n] = None THEN Removes(n, meta, NoMeta) ELSE Works /\ UNCHANGED meta
       \/ /\ Visits("marker", n) /\ Passes("marker", n) /\ UNCHANGED meta
          /\ IF file[n] = None THEN Removes(n, marker, None) ELSE Works /\ UNCHANGED marker
    /\ UNCHANGED <<file, temp, object, worker, memory, now, counts>>

PruneEnds ==
    /\ pruner.at = "look" /\ pruner.todo = {}
    /\ pruner' = [pruner EXCEPT !.at = "schedule"]
    /\ UNCHANGED <<files, object, worker, memory, now, faults, counts>>

----------------------------------------------------------------------------
(* MaybeSchedule: the decision                                             *)

\* Mutation: the interval counts from the start of the last backup.
NeedsBackup_SinceStart ==
    \A n \in Name \cap {Latest.name} : meta[n].created + Interval <= now

\* There is no valid artifact, or the latest is as old as the interval.
NeedsBackup == \A n \in Name \cap {Latest.name} : meta[n].finalized + Interval <= now

\* No marker, or one of other bytes.
NeedsUpload(artifact) ==
    UploadEnabled /\ artifact # NoArtifact /\ marker[artifact.name] # artifact.bytes

UploadAttemptDue == nextAttempt <= now

StartWorker(at) ==
    worker' = [IdleWorker EXCEPT !.at = at, !.started = now, !.artifact = Latest]

\* While a worker runs, or when the directory cannot be read, the tick ends here.
Schedule ==
    /\ pruner.at = "schedule" /\ pruner' = IdlePruner
    /\ \/ /\ Works /\ worker.at = "idle"
          /\ \/ NeedsBackup /\ backups < MaxBackups /\ StartWorker("prepare")
             \/ ~NeedsBackup /\ NeedsUpload(Latest) /\ UploadAttemptDue /\ StartWorker("upload")
       \/ /\ Works /\ UNCHANGED worker
          /\ \/ worker.at # "idle"
             \/ NeedsBackup /\ backups = MaxBackups
             \/ ~NeedsBackup /\ ~(NeedsUpload(Latest) /\ UploadAttemptDue)
       \/ Breaks /\ worker.at = "idle" /\ UNCHANGED worker
    /\ UNCHANGED <<files, object, memory, now, counts>>

----------------------------------------------------------------------------
(* The worker: runBackup                                                   *)

WorkerTo(at) == worker' = [worker EXCEPT !.at = at]

\* preparePaths: the first free name from the start on; its old temps go.
Prepare ==
    /\ worker.at = "prepare" /\ Works
    /\ \E n \in Name :
        /\ n >= worker.started /\ file[n] = None
        /\ \A m \in worker.started .. n - 1 : file[m] # None
        /\ worker' = [worker EXCEPT !.at = "copy", !.name = n]
        /\ temp' = [temp EXCEPT ![n] = 0]
    /\ UNCHANGED <<file, meta, marker, object, pruner, memory, now, counts>>

\* The online backup, its compression and its validation, in temp files.
Copy ==
    /\ worker.at = "copy" /\ Works
    /\ backups' = backups + 1
    /\ temp' = [temp EXCEPT ![worker.name] = now]
    /\ worker' = [worker EXCEPT !.at = "finalize", !.bytes = backups']
    /\ UNCHANGED <<file, meta, marker, object, pruner, memory, now, crashes>>

\* The temp file takes its final name, unless prune has removed it.
Finalize ==
    /\ worker.at = "finalize" /\ Works
    /\ temp[worker.name] # 0
    /\ temp' = [temp EXCEPT ![worker.name] = 0]
    /\ file' = [file EXCEPT ![worker.name] = worker.bytes]
    /\ WorkerTo("describe")
    /\ UNCHANGED <<meta, marker, object, pruner, memory, now, counts>>

WriteMetadata ==
    /\ worker.at = "describe" /\ Works
    /\ meta' = [meta EXCEPT ![worker.name] =
                  [bytes |-> worker.bytes, created |-> worker.started, finalized |-> now]]
    /\ WorkerTo("find")
    /\ UNCHANGED <<file, marker, temp, object, pruner, memory, now, counts>>

\* Any step fails: temps and an artifact without sidecar are removed.  The
\* artifact that was the latest before, if any, is uploaded nevertheless.
BackupFails ==
    /\ worker.at \in {"prepare", "copy", "finalize", "describe"}
    /\ IF worker.at = "finalize" /\ temp[worker.name] = 0 THEN Works ELSE Breaks
    /\ temp' = [n \in Name |-> IF n = worker.name THEN 0 ELSE temp[n]]
    /\ file' = IF worker.at = "describe" THEN [file EXCEPT ![worker.name] = None] ELSE file
    /\ IF worker.artifact = NoArtifact THEN worker' = IdleWorker ELSE WorkerTo("upload")
    /\ UNCHANGED <<meta, marker, object, pruner, memory, now, counts>>

\* The artifact to upload is the latest valid one.
Find ==
    /\ worker.at = "find"
    /\ \/ /\ Works
          /\ worker' = IF Latest = NoArtifact THEN IdleWorker
                       ELSE [worker EXCEPT !.at = "upload", !.artifact = Latest]
       \/ Breaks /\ worker' = IdleWorker
    /\ UNCHANGED <<files, object, pruner, memory, now, counts>>

----------------------------------------------------------------------------
(* The worker: uploadArtifact                                              *)

\* The pause doubles with every failure, up to an hour.
uploadBackoff(n) == Min({2 ^ (n - 1), MaxBackoff})

RecordUploadFailure ==
    /\ failures' = failures + 1
    /\ nextAttempt' = now + uploadBackoff(failures')
    /\ worker' = IdleWorker

UploadPending == NeedsUpload(worker.artifact) /\ UploadAttemptDue

SkipUpload ==
    /\ worker.at = "upload" /\ ~UploadPending
    /\ worker' = IdleWorker
    /\ UNCHANGED <<files, object, pruner, memory, now, faults, counts>>

Stores == object' = [object EXCEPT ![worker.artifact.name] = file[worker.artifact.name]]

\* Mutation: the marker is written before the object is stored.
Upload_MarksFirst ==
    /\ worker.at = "upload" /\ UploadPending /\ Works
    /\ file[worker.artifact.name] # None
    /\ marker' = [marker EXCEPT ![worker.artifact.name] = worker.artifact.bytes]
    /\ WorkerTo("mark")
    /\ UNCHANGED <<file, meta, temp, object, pruner, memory, now, counts>>

Upload ==
    /\ worker.at = "upload" /\ UploadPending /\ Works
    /\ file[worker.artifact.name] # None
    /\ Stores
    /\ WorkerTo("mark")
    /\ UNCHANGED <<files, pruner, memory, now, counts>>

\* No artifact to open, or no answer from the bucket, which may have stored it.
UploadFails ==
    /\ worker.at = "upload" /\ UploadPending
    /\ IF file[worker.artifact.name] = None
       THEN Works /\ UNCHANGED object
       ELSE Breaks /\ (Stores \/ UNCHANGED object)
    /\ RecordUploadFailure
    /\ UNCHANGED <<files, pruner, now, counts>>

WriteMarker ==
    /\ worker.at = "mark" /\ Works
    /\ marker' = [marker EXCEPT ![worker.artifact.name] = worker.artifact.bytes]
    /\ failures' = 0 /\ nextAttempt' = 0
    /\ worker' = IdleWorker
    /\ UNCHANGED <<file, meta, temp, object, pruner, now, counts>>

WriteMarkerFails ==
    /\ worker.at = "mark" /\ Breaks
    /\ RecordUploadFailure
    /\ UNCHANGED <<files, object, pruner, now, counts>>

----------------------------------------------------------------------------

\* The clock of the host; a backup takes at most MaxDuration.
TimePasses ==
    /\ now < MaxTime
    /\ worker.at \in {"prepare", "copy", "finalize", "describe"} => now < worker.started + MaxDuration
    /\ now' = now + 1
    /\ UNCHANGED <<files, object, worker, pruner, memory, faults, counts>>

\* A finalized artifact is damaged on disk, while neither tick nor worker reads it.
Damage(n) ==
    /\ pruner.at = "idle" /\ worker.at = "idle"
    /\ IsValid(n) /\ Breaks
    /\ file' = [file EXCEPT ![n] = Bad]
    /\ UNCHANGED <<meta, marker, temp, object, worker, pruner, memory, now, counts>>

\* The process ends and is started again: the files stay, the rest is lost.
Crash ==
    /\ crashes < MaxCrashes /\ crashes' = crashes + 1
    /\ worker' = IdleWorker /\ pruner' = IdlePruner
    /\ failures' = 0 /\ nextAttempt' = 0
    /\ UNCHANGED <<files, object, now, faults, backups>>

Prune ==
    \/ PruneBegin \/ PruneRemove \/ PruneSidecar \/ PruneMarker \/ PruneEnds
    \/ \E n \in Name : PruneArtifact(n) \/ PruneTemp(n) \/ PruneOrphan(n)

Work ==
    \/ Prepare \/ Copy \/ Finalize \/ WriteMetadata \/ BackupFails \/ Find
    \/ SkipUpload \/ Upload \/ UploadFails \/ WriteMarker \/ WriteMarkerFails

Next == Prune \/ Schedule \/ Work \/ TimePasses \/ (\E n \in Name : Damage(n)) \/ Crash

Spec == Init /\ [][Next]_vars

----------------------------------------------------------------------------

\* The artifacts a restore can use: finalized, described and undamaged.
Restorable == {n \in Name : file[n] # None /\ file[n] = meta[n].bytes}

\* No step of tick, worker or restart takes away the newest valid artifact or
\* its sidecar, whatever they do at the same time.
NewestValidPreserved ==
    [][\A n \in Restorable :
         n = Max(Restorable) => file'[n] # None /\ meta'[n] = meta[n]]_vars

\* The artifact that is being uploaded is not pruned meanwhile.
UploadSourceKept ==
    [][worker.at \in {"upload", "mark"} =>
         file'[worker.artifact.name] = file[worker.artifact.name]]_vars

\* A marker that suppresses further uploads tells the truth: the bucket holds
\* the bytes of the artifact, whatever failed and restarted in between.
MarkerMeansStored ==
    \A n \in Restorable : marker[n] = meta[n].bytes => object[n] = meta[n].bytes

\* Backups keep their minimum distance, although uploads fail and are repeated and
\* the process restarts.
SpacedByInterval ==
    \A m, n \in Restorable : m < n => meta[m].finalized + Interval <= meta[n].created
=============================================================================
