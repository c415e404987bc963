--------------------------- MODULE BackupsProofs ----------------------------
(***************************************************************************)
(* Proofs about the backup manager: a marker tells the truth; and, if a    *)
(* backup is quick compared to the retention, the newest valid artifact    *)
(* and the one being uploaded are never pruned, and backups keep their     *)
(* distance.                                                               *)
(***************************************************************************)
EXTENDS Backups, FiniteSetTheorems, TLAPS

Backing == worker.at \in {"prepare", "copy", "finalize", "describe"}
Named == worker.at \in {"copy", "finalize", "describe"}
Written == worker.at \in {"finalize", "describe"}
Uploading == worker.at \in {"upload", "mark"}
Pruning == pruner.at \in {"look", "remove", "sidecar", "marker"}
Removing == pruner.at \in {"remove", "sidecar", "marker"}

Artifact == [name : Nat, bytes : Nat]
Worker == [at : {"idle", "prepare", "copy", "finalize", "describe", "find", "upload", "mark"},
           started : Nat, name : Nat, bytes : Nat, artifact : Artifact]
Pruner == [at : {"idle", "look", "remove", "sidecar", "marker", "schedule"},
           todo : SUBSET Entry, protected : Nat, asof : Nat, name : Nat]
Sidecar == [bytes : Nat, created : Nat, finalized : Nat]

Types ==
    /\ file \in [Name -> Nat] /\ meta \in [Name -> Sidecar]
    /\ marker \in [Name -> Nat] /\ object \in [Name -> Nat]
    /\ worker \in Worker /\ pruner \in Pruner
    /\ now \in Nat /\ backups \in Nat
    /\ Named => worker.name \in Name
    /\ Removing => pruner.name \in Name

\* The bytes of a backup are new: no sidecar, marker or older artifact has them
\* before its own sidecar is written.
BytesInv ==
    /\ backups <= MaxBackups
    /\ worker.at \in {"prepare", "copy"} => backups < MaxBackups
    /\ \A n \in Name : meta[n].bytes <= backups /\ marker[n] <= backups
    /\ worker.artifact.bytes <= backups
    /\ Written =>
         /\ worker.bytes = backups /\ backups > 0 /\ worker.artifact.bytes # backups
         /\ \A n \in Name : meta[n].bytes # backups /\ marker[n] # backups
    /\ worker.at \in {"copy", "finalize"} => file[worker.name] = None
    /\ worker.at = "describe" => file[worker.name] \in {None, worker.bytes}

\* The artifact to upload keeps its bytes or is gone, so what is stored is what
\* the marker will say.
StoreInv ==
    /\ \A n \in Name : IsValid(n) /\ marker[n] = meta[n].bytes => object[n] = marker[n]
    /\ (Backing \/ Uploading) /\ worker.artifact # NoArtifact =>
         /\ worker.artifact.name \in Name /\ worker.artifact.bytes # None
         /\ \/ worker.at = "describe" /\ worker.name = worker.artifact.name
            \/ file[worker.artifact.name] \in {None, worker.artifact.bytes}
    /\ Uploading => worker.artifact # NoArtifact
    /\ worker.at = "mark" => object[worker.artifact.name] = worker.artifact.bytes

MarkInv == Types /\ BytesInv /\ StoreInv

\* A backup is over within the retention, which also leaves room for the names that it
\* had to pass over.  (The retention is counted in days, a backup in minutes, and a name
\* is a second.)  A slower backup could take a name that prune has just judged too old,
\* or a name below that of an artifact that is still there.
Prompt ==
    Retention > 0 => MaxDuration <= Retention /\ MaxDuration + MaxBackups <= Retention + 2

Files == {n \in Name : file[n] # None}

\* There are no more artifacts than backups made.
CountInv ==
    /\ Cardinality(Files) <= backups
    /\ worker.at = "finalize" => Cardinality(Files) < backups

\* How far a name can be ahead of the clock, and what it has passed over.
NameInv ==
    /\ now >= 1
    /\ \A n \in Name : meta[n].bytes # None =>
         /\ n + 1 <= meta[n].created + meta[n].bytes
         /\ meta[n].created <= meta[n].finalized /\ meta[n].finalized <= now
    /\ Backing => 1 <= worker.started /\ worker.started <= now /\ now <= worker.started + MaxDuration
    /\ worker.at = "copy" => worker.name <= worker.started + backups
    /\ Written => worker.name + 1 <= worker.started + backups
    /\ Named =>
         /\ worker.started <= worker.name
         /\ \A m \in Name : worker.started <= m /\ m < worker.name => file[m] # None

\* What is being pruned is old, and it is not the newest valid artifact.
PruneInv ==
    /\ Pruning =>
         /\ Retention > 0 /\ pruner.asof <= now
         /\ (\E n \in Name : <<"artifact", n>> \in pruner.todo) => backups >= 1
         /\ pruner.protected # None => pruner.protected \in Name /\ IsValid(pruner.protected)
         /\ \A n \in Name : IsValid(n) => n <= pruner.protected \/ pruner.asof <= meta[n].finalized
    /\ Removing =>
         /\ pruner.name + Retention + 2 <= pruner.asof + backups
         /\ Backing => pruner.name < worker.started
         /\ IsValid(pruner.name) => pruner.name < pruner.protected

\* The artifact to upload is the newest valid one.
NewestInv ==
    Backing \/ Uploading =>
      /\ \A n \in Name : IsValid(n) => n <= worker.artifact.name
      /\ worker.artifact # NoArtifact => worker.artifact.name \in Name /\ IsValid(worker.artifact.name)

\* A name is free only if its artifact is too old for a backup under way to take it.
Taken(n) == file[n] # None \/ (Retention > 0 /\ n + Retention + 2 <= now + backups)

SpaceInv ==
    /\ \A m, n \in Name : IsValid(m) /\ IsValid(n) /\ m < n => meta[m].finalized + Interval <= meta[n].created
    /\ \A n, m \in Name : IsValid(n) /\ meta[n].created <= m /\ m < n => Taken(m)
    /\ Backing => \A n \in Name : IsValid(n) => meta[n].finalized + Interval <= worker.started
    /\ Named => \A n \in Name : IsValid(n) => n < worker.name

PromptInv == CountInv /\ NameInv /\ PruneInv /\ NewestInv /\ SpaceInv
----------------------------------------------------------------------------
(* Operators.                                                              *)

\* A finite set of numbers has a greatest element.
LEMMA MaxIsGreatest ==
    ASSUME NEW S \in SUBSET Nat, IsFiniteSet(S), S # {}
    PROVE  Max(S) \in S /\ \A y \in S : y <= Max(S)
<1> DEFINE Above(x) == {y \in S : x < y}
           Tails == {Above(x) : x \in S}
           Less == StrictSubsetOrdering(S)
<1>1. Tails \subseteq FiniteSubsetsOf(S) /\ Tails # {}
    <2>1. FiniteSubsetsOf(S) = SUBSET S
        BY FS_FiniteSubsetsOfFinite
    <2>2. \A x \in S : Above(x) \in SUBSET S /\ Above(x) \in Tails
        OBVIOUS
    <2>3. Tails \subseteq SUBSET S
        BY <2>2
    <2>4. Tails # {}
        BY <2>2
    <2> QED BY <2>1, <2>3, <2>4
<1>2. PICK t \in Tails : \A u \in Tails : <<u, t>> \notin Less
    <2>1. IsWellFoundedOn(Less, FiniteSubsetsOf(S))
        BY FS_StrictSubsetOrderingWellFounded
    <2> HIDE DEF Tails, Less
    <2> QED BY <1>1, <2>1, WFMin
<1>3. PICK x \in S : t = Above(x)
    OBVIOUS
<1>4. \A y \in S : y <= x
    <2> SUFFICES ASSUME NEW y \in S, x < y PROVE FALSE
        OBVIOUS
    <2>1. Above(y) \in Tails /\ Above(y) \in SUBSET S
        OBVIOUS
    <2>2. y \in t /\ y \notin Above(y) /\ t \in SUBSET S
        BY <1>3
    <2>3. \A z \in Above(y) : z \in S /\ x < z
        OBVIOUS
    <2>4. Above(y) \subseteq t
        BY <1>3, <2>3
    <2>5. <<Above(y), t>> \in Less
        BY <2>1, <2>2, <2>4, Zenon DEF StrictSubsetOrdering
    <2> QED BY <1>2, <2>1, <2>5
<1>5. \E m \in S : \A y \in S : m >= y
    BY <1>4
<1> QED BY <1>5 DEF Max

LEMMA NamesAreFinite == IsFiniteSet(Name) /\ Name \in SUBSET Nat
BY BackupsAssumption, FS_Interval DEF Name

\* The size and the checksum together say that a file has the bytes of its sidecar.
LEMMA ValidIs ==
    \A n : IsValid(n) <=> file[n] # None /\ file[n] = meta[n].bytes
BY DEF IsValid, Described

\* findLatestValidArtifact finds the newest valid artifact if there is one.
LEMMA LatestIs ==
    ASSUME Types
    PROVE  /\ Latest \in Artifact
           /\ \A n \in Name : IsValid(n) => n <= Latest.name
           /\ Latest # NoArtifact =>
                /\ Latest.name \in Name /\ IsValid(Latest.name)
                /\ Latest.bytes = meta[Latest.name].bytes
           /\ Latest = NoArtifact => \A n \in Name : ~IsValid(n)
<1> DEFINE valid == {n \in Name : IsValid(n)}
<1>1. valid \in SUBSET Nat /\ IsFiniteSet(valid)
    BY NamesAreFinite, FS_Subset
<1>2. CASE valid = {}
    <2>1. Latest = NoArtifact
        BY <1>2 DEF Latest
    <2> QED BY <1>2, <2>1 DEF NoArtifact, Artifact, None
<1>3. CASE valid # {}
    <2>1. Max(valid) \in valid /\ \A n \in valid : n <= Max(valid)
        BY <1>1, <1>3, MaxIsGreatest
    <2>2. Latest = [name |-> Max(valid), bytes |-> meta[Max(valid)].bytes]
        BY <1>3 DEF Latest
    <2>3. Max(valid) \in Name /\ IsValid(Max(valid)) /\ Max(valid) \in Nat
        BY <1>1, <2>1
    <2>4. meta[Max(valid)].bytes \in Nat
        BY <2>3 DEF Types, Sidecar
    <2>5. Max(valid) # None
        BY <2>3 DEF Name, None
    <2> HIDE DEF valid
    <2>6. Latest.name = Max(valid) /\ Latest.bytes = meta[Max(valid)].bytes
        BY <2>2
    <2>7. Latest \in Artifact /\ Latest # NoArtifact
        BY <2>2, <2>3, <2>4, <2>5 DEF Artifact, NoArtifact
    <2> QED BY <2>1, <2>3, <2>6, <2>7 DEF valid
<1> QED BY <1>2, <1>3

LEMMA IdleIs == IdleWorker \in Worker /\ IdlePruner \in Pruner
BY DEF IdleWorker, Worker, Artifact, NoArtifact, None, IdlePruner, Pruner

\* What a worker starts with.
LEMMA Starts ==
    ASSUME Types, NEW at \in {"prepare", "upload"}, StartWorker(at)
    PROVE  /\ worker' \in Worker /\ worker'.at = at
           /\ worker'.started = now /\ worker'.artifact = Latest
<1>1. now \in Nat /\ Latest \in Artifact /\ IdleWorker \in Worker
    BY LatestIs, IdleIs DEF Types
<1> QED BY <1>1 DEF StartWorker, Worker

\* A worker that goes on.
LEMMA GoesOn ==
    ASSUME Types, NEW at \in {"describe", "find", "upload", "mark"}, WorkerTo(at)
    PROVE  /\ worker' \in Worker /\ worker'.at = at
           /\ worker'.started = worker.started /\ worker'.name = worker.name
           /\ worker'.bytes = worker.bytes /\ worker'.artifact = worker.artifact
BY DEF Types, Worker, WorkerTo
----------------------------------------------------------------------------
(* Types.                                                                  *)

LEMMA EntriesAre == Entries \subseteq Entry
BY DEF Entries, Entry

LEMMA PruneTypes ==
    ASSUME Types, Prune
    PROVE  Types'
<1> USE DEF Prune, files, memory, counts
<1>1. UNCHANGED <<object, worker, now, backups>>
    BY DEF PruneBegin, PruneRemove, PruneSidecar, PruneMarker, PruneEnds, PruneArtifact,
           PruneTemp, PruneOrphan
<1>2. (file \in [Name -> Nat] /\ meta \in [Name -> Sidecar] /\ marker \in [Name -> Nat])'
    <2>1. NoMeta \in Sidecar /\ None \in Nat
        BY DEF NoMeta, Sidecar, None
    <2>2. CASE PruneRemove
        BY <2>1, <2>2 DEF PruneRemove, Removes, Types
    <2>3. CASE PruneSidecar
        BY <2>1, <2>3 DEF PruneSidecar, Removes, Types
    <2>4. CASE PruneMarker
        BY <2>1, <2>4 DEF PruneMarker, Removes, Types
    <2>5. ASSUME NEW n \in Name, PruneOrphan(n)
          PROVE  (file \in [Name -> Nat] /\ meta \in [Name -> Sidecar] /\ marker \in [Name -> Nat])'
        BY <2>1, <2>5 DEF PruneOrphan, Removes, Types
    <2>6. CASE UNCHANGED <<file, meta, marker>>
        BY <2>6 DEF Types
    <2> QED BY <2>2, <2>3, <2>4, <2>5, <2>6 DEF PruneBegin, PruneEnds, PruneArtifact, PruneTemp
<1>3. (pruner \in Pruner /\ (Removing => pruner.name \in Name))'
    <2> USE DEF Removing
    <2>1. CASE PruneBegin
        <3>1. Latest.name \in Nat /\ now \in Nat /\ None \in Nat
            BY LatestIs DEF Artifact, Types, None
        <3> QED BY <2>1, <3>1, EntriesAre DEF PruneBegin, Pruner, Types
    <2>2. CASE PruneRemove \/ PruneSidecar \/ PruneMarker \/ PruneEnds
        <3>1. None \in Nat
            BY DEF None
        <3>2. CASE PruneMarker
            BY <3>1, <3>2 DEF PruneMarker, Pruner, Types
        <3> QED BY <2>2, <3>2 DEF PruneRemove, PruneSidecar, PruneEnds, Pruner, Types
    <2>3. ASSUME NEW n \in Name, PruneArtifact(n) PROVE (pruner \in Pruner /\ (Removing => pruner.name \in Name))'
        <3>1. n \in Nat /\ Rest("artifact", n) \in SUBSET Entry
            BY NamesAreFinite DEF Rest, Types, Pruner
        <3> QED BY <2>3, <3>1 DEF PruneArtifact, Passes, Visits, Pruner, Types
    <2>4. ASSUME NEW n \in Name, PruneTemp(n) \/ PruneOrphan(n)
          PROVE (pruner \in Pruner /\ (Removing => pruner.name \in Name))'
        <3>1. \A k : Rest(k, n) \in SUBSET Entry
            BY DEF Rest, Types, Pruner
        <3> QED BY <2>4, <3>1 DEF PruneTemp, PruneOrphan, Passes, Visits, Pruner, Types
    <2> QED BY <2>1, <2>2, <2>3, <2>4
<1> QED BY <1>1, <1>2, <1>3 DEF Types, Named

LEMMA WorkTypes ==
    ASSUME Types, Work
    PROVE  Types'
<1> USE DEF files, memory, counts
<1>1. ASSUME Prepare PROVE Types'
    <2>1. PICK n \in Name : worker' = [worker EXCEPT !.at = "copy", !.name = n]
        BY <1>1 DEF Prepare
    <2>2. n \in Nat
        BY NamesAreFinite
    <2>3. worker' \in Worker /\ worker'.name = n
        BY <2>1, <2>2 DEF Types, Worker
    <2> QED BY <1>1, <2>3 DEF Prepare, Types, Named, Removing
<1>2. ASSUME Copy PROVE Types'
    <2>1. backups' \in Nat /\ worker' \in Worker /\ worker'.name = worker.name
        <3>1. backups' \in Nat
            BY <1>2 DEF Copy, Types
        <3> QED BY <1>2, <3>1 DEF Copy, Types, Worker
    <2> QED BY <1>2, <2>1 DEF Copy, Types, Named, Removing
<1>3. ASSUME Finalize PROVE Types'
    <2>1. worker.bytes \in Nat
        BY DEF Types, Worker
    <2> QED BY <1>3, <2>1, GoesOn DEF Finalize, Types, Named, Removing
<1>4. ASSUME WriteMetadata PROVE Types'
    <2>1. [bytes |-> worker.bytes, created |-> worker.started, finalized |-> now] \in Sidecar
        BY DEF Types, Worker, Sidecar
    <2> QED BY <1>4, <2>1, GoesOn DEF WriteMetadata, Types, Named, Removing
<1>5. ASSUME BackupFails PROVE Types'
    <2>1. worker' \in Worker /\ worker'.at \in {"idle", "upload"}
        <3>1. CASE worker' = IdleWorker
            BY <3>1, IdleIs DEF IdleWorker
        <3>2. CASE WorkerTo("upload")
            BY <3>2, GoesOn
        <3> QED BY <1>5, <3>1, <3>2 DEF BackupFails
    <2>2. file' \in [Name -> Nat]
        BY <1>5 DEF BackupFails, Types, None
    <2> QED BY <1>5, <2>1, <2>2 DEF BackupFails, Types, Named, Removing
<1>6. ASSUME Find PROVE Types'
    <2>1. worker' \in Worker /\ worker'.at \in {"idle", "upload"}
        <3>1. CASE worker' = IdleWorker
            BY <3>1, IdleIs DEF IdleWorker
        <3>2. CASE worker' = [worker EXCEPT !.at = "upload", !.artifact = Latest]
            BY <3>2, LatestIs DEF Types, Worker
        <3> QED BY <1>6, <3>1, <3>2 DEF Find
    <2> QED BY <1>6, <2>1 DEF Find, Types, Named, Removing
<1>7. ASSUME SkipUpload \/ UploadFails \/ WriteMarker \/ WriteMarkerFails PROVE Types'
    <2>1. worker' = IdleWorker /\ worker'.at = "idle"
        BY <1>7 DEF SkipUpload, UploadFails, WriteMarker, WriteMarkerFails, RecordUploadFailure, IdleWorker
    <2>2. (marker \in [Name -> Nat] /\ object \in [Name -> Nat])'
        <3>1. worker.artifact.bytes \in Nat
            BY DEF Types, Worker, Artifact
        <3>2. UploadFails => object' \in [Name -> Nat]
            <4>1. UploadPending /\ Stores => object' \in [Name -> Nat]
                <5>1. CASE worker.artifact.name \in Name
                    BY <5>1 DEF Stores, Types
                <5>2. CASE worker.artifact.name \notin Name
                    BY <5>2 DEF Stores, Types
                <5> QED BY <5>1, <5>2
            <4> QED BY <4>1 DEF UploadFails, Types
        <3> QED BY <1>7, <3>1, <3>2 DEF SkipUpload, UploadFails, WriteMarker, WriteMarkerFails, Types
    <2>3. UNCHANGED <<file, meta, pruner, now, backups>>
        BY <1>7 DEF SkipUpload, UploadFails, WriteMarker, WriteMarkerFails
    <2> QED BY <2>1, <2>2, <2>3, IdleIs DEF Types, Named, Removing
<1>8. ASSUME Upload PROVE Types'
    <2>1. object' \in [Name -> Nat]
        <3>1. CASE worker.artifact.name \in Name
            BY <1>8, <3>1 DEF Upload, Stores, Types
        <3>2. CASE worker.artifact.name \notin Name
            BY <1>8, <3>2 DEF Upload, Stores, Types
        <3> QED BY <3>1, <3>2
    <2> QED BY <1>8, <2>1, GoesOn DEF Upload, Types, Named, Removing
<1> QED BY <1>1, <1>2, <1>3, <1>4, <1>5, <1>6, <1>7, <1>8 DEF Work

LEMMA OtherTypes ==
    ASSUME Types, \/ Schedule \/ TimePasses \/ (\E n \in Name : Damage(n)) \/ Crash \/ UNCHANGED vars
    PROVE  Types'
<1> USE DEF files, memory, counts
<1>1. ASSUME Schedule PROVE Types'
    <2>1. worker' = worker \/ StartWorker("prepare") \/ StartWorker("upload")
        BY <1>1 DEF Schedule
    <2>2. worker' \in Worker /\ (Named' => worker' = worker)
        BY <2>1, Starts DEF Types, Named
    <2>3. pruner' = IdlePruner
        BY <1>1 DEF Schedule
    <2> QED BY <1>1, <2>2, <2>3, IdleIs DEF Schedule, Types, Named, Removing, IdlePruner
<1>2. ASSUME TimePasses PROVE Types'
    BY <1>2 DEF TimePasses, Types, Named, Removing
<1>3. ASSUME NEW n \in Name, Damage(n) PROVE Types'
    <2>1. Bad \in Nat
        BY BackupsAssumption DEF Bad
    <2> QED BY <1>3, <2>1 DEF Damage, Types, Named, Removing
<1>4. ASSUME Crash PROVE Types'
    BY <1>4, IdleIs DEF Crash, Types, Named, Removing, IdleWorker, IdlePruner
<1>5. ASSUME UNCHANGED vars PROVE Types'
    BY <1>5 DEF vars, Types, Named, Removing
<1> QED BY <1>1, <1>2, <1>3, <1>4, <1>5

LEMMA TypesStep == Types /\ [Next]_vars => Types'
BY PruneTypes, WorkTypes, OtherTypes DEF Next
----------------------------------------------------------------------------
(* A marker tells the truth.                                               *)

\* What a step of prune does to the files: it takes away, at names it may.
LEMMA PruneTakes ==
    ASSUME Types, Prune
    PROVE  /\ UNCHANGED <<object, worker, now, backups>>
           /\ \A n \in Name :
                /\ file'[n] \in {file[n], None} /\ meta'[n] \in {meta[n], NoMeta}
                /\ marker'[n] \in {marker[n], None}
BY DEF Prune, PruneBegin, PruneRemove, PruneSidecar, PruneMarker, PruneEnds, PruneArtifact,
       PruneTemp, PruneOrphan, Removes, Types, files, memory, counts

LEMMA BytesStep == Types /\ BytesInv /\ [Next]_vars => BytesInv'
<1> SUFFICES ASSUME Types, BytesInv, [Next]_vars PROVE BytesInv'
    OBVIOUS
<1> USE DEF BytesInv, Written, files, memory, counts
<1>0. Types' /\ backups \in Nat /\ MaxBackups \in Nat
    BY TypesStep, BackupsAssumption DEF Types
<1>1. ASSUME Prune PROVE BytesInv'
    <2>1. NoMeta.bytes = 0 /\ None = 0
        BY DEF NoMeta, None
    <2>2. \A n \in Name : /\ meta'[n].bytes = meta[n].bytes \/ meta'[n].bytes = 0
                          /\ marker'[n] = marker[n] \/ marker'[n] = 0
                          /\ file'[n] = file[n] \/ file'[n] = None
        BY <1>1, <2>1, PruneTakes
    <2> QED BY <1>0, <1>1, <2>1, <2>2, PruneTakes DEF Types, Named
<1>2. ASSUME Prepare PROVE BytesInv'
    <2>1. PICK n \in Name : file[n] = None /\ worker' = [worker EXCEPT !.at = "copy", !.name = n]
        BY <1>2 DEF Prepare
    <2>2. worker'.at = "copy" /\ worker'.name = n /\ worker'.artifact = worker.artifact
        BY <2>1 DEF Types, Worker
    <2> QED BY <1>2, <2>1, <2>2 DEF Prepare
<1>3. ASSUME Copy PROVE BytesInv'
    <2>1. /\ worker'.at = "finalize" /\ worker'.bytes = backups + 1 /\ backups' = backups + 1
          /\ worker'.artifact = worker.artifact /\ worker'.name = worker.name
        BY <1>3 DEF Copy, Types, Worker
    <2>2. /\ worker.artifact.bytes \in Nat
          /\ \A n \in Name : meta[n].bytes \in Nat /\ marker[n] \in Nat
        BY DEF Types, Worker, Artifact, Sidecar
    <2>3. \A n \in Name : meta[n].bytes # backups + 1 /\ marker[n] # backups + 1
        BY <1>0, <2>2
    <2> QED BY <1>0, <1>3, <2>1, <2>2, <2>3 DEF Copy
<1>4. ASSUME Finalize PROVE BytesInv'
    <2>1. file'[worker.name] = worker.bytes
        BY <1>4 DEF Finalize, Types, Named
    <2> QED BY <1>0, <1>4, <2>1, GoesOn DEF Finalize
<1>5. ASSUME WriteMetadata PROVE BytesInv'
    <2>1. \A n \in Name : meta'[n].bytes = meta[n].bytes \/ meta'[n].bytes = worker.bytes
        BY <1>5 DEF WriteMetadata, Types
    <2> QED BY <1>0, <1>5, <2>1, GoesOn DEF WriteMetadata
<1>6. ASSUME BackupFails PROVE BytesInv'
    <2>1. worker'.at \in {"idle", "upload"} /\ worker'.artifact.bytes <= backups
        <3>1. CASE worker' = IdleWorker
            BY <1>0, <3>1 DEF IdleWorker, NoArtifact, None
        <3>2. CASE WorkerTo("upload")
            BY <3>2, GoesOn
        <3> QED BY <1>6, <3>1, <3>2 DEF BackupFails
    <2> QED BY <1>0, <1>6, <2>1 DEF BackupFails
<1>7. ASSUME Find PROVE BytesInv'
    <2>1. worker'.at \in {"idle", "upload"} /\ worker'.artifact.bytes <= backups
        <3>1. CASE worker' = IdleWorker
            BY <1>0, <3>1 DEF IdleWorker, NoArtifact, None
        <3>2. CASE worker' = [worker EXCEPT !.at = "upload", !.artifact = Latest] /\ Latest # NoArtifact
            BY <3>2, LatestIs DEF Types, Worker
        <3> QED BY <1>7, <3>1, <3>2 DEF Find
    <2> QED BY <1>0, <1>7, <2>1 DEF Find
<1>8. ASSUME SkipUpload \/ UploadFails \/ WriteMarker \/ WriteMarkerFails PROVE BytesInv'
    <2>1. worker'.at = "idle" /\ worker'.artifact.bytes = 0
        BY <1>8 DEF SkipUpload, UploadFails, WriteMarker, WriteMarkerFails, RecordUploadFailure,
                    IdleWorker, NoArtifact, None
    <2>2. UNCHANGED <<file, meta, backups>>
        BY <1>8 DEF SkipUpload, UploadFails, WriteMarker, WriteMarkerFails
    <2>3. \A n \in Name : marker'[n] = marker[n] \/ marker'[n] = worker.artifact.bytes
        BY <1>8 DEF SkipUpload, UploadFails, WriteMarker, WriteMarkerFails, Types
    <2> QED BY <1>0, <2>1, <2>2, <2>3
<1>9. ASSUME Upload PROVE BytesInv'
    BY <1>0, <1>9, GoesOn DEF Upload
<1>10. ASSUME Schedule PROVE BytesInv'
    <2>1. CASE StartWorker("prepare") /\ backups < MaxBackups
        <3>1. Latest.bytes <= backups
            BY LatestIs, <1>0 DEF NoArtifact, None
        <3> QED BY <1>0, <1>10, <2>1, <3>1, Starts DEF Schedule
    <2>2. CASE StartWorker("upload") /\ NeedsUpload(Latest)
        <3>1. Latest.bytes <= backups
            BY LatestIs, <1>0 DEF NoArtifact, None
        <3> QED BY <1>0, <1>10, <2>2, <3>1, Starts DEF Schedule
    <2>3. CASE worker' = worker
        BY <1>10, <2>3 DEF Schedule
    <2> QED BY <1>10, <2>1, <2>2, <2>3 DEF Schedule
<1>11. ASSUME NEW n \in Name, Damage(n) PROVE BytesInv'
    BY <1>11 DEF Damage
<1>12. ASSUME Crash PROVE BytesInv'
    BY <1>0, <1>12 DEF Crash, IdleWorker, NoArtifact, None
<1>13. ASSUME TimePasses \/ UNCHANGED vars PROVE BytesInv'
    BY <1>13 DEF TimePasses, vars
<1> QED BY <1>1, <1>2, <1>3, <1>4, <1>5, <1>6, <1>7, <1>8, <1>9, <1>10, <1>11, <1>12, <1>13
        DEF Next, Work

\* A step that leaves the object alone and at every name leaves file, sidecar and marker
\* as they are, or invalid, or with a marker of other bytes.
LEMMA TruthKept ==
    ASSUME StoreInv, object' = object,
           \A n \in Name : \/ file'[n] = file[n] /\ meta'[n] = meta[n] /\ marker'[n] = marker[n]
                           \/ ~IsValid(n)'
                           \/ marker'[n] # meta'[n].bytes
    PROVE  (\A n \in Name : IsValid(n) /\ marker[n] = meta[n].bytes => object[n] = marker[n])'
BY DEF StoreInv, IsValid, Described

LEMMA StoreStep == Types /\ BytesInv /\ StoreInv /\ [Next]_vars => StoreInv'
<1> SUFFICES ASSUME Types, BytesInv, StoreInv, [Next]_vars PROVE StoreInv'
    OBVIOUS
<1> USE DEF files, memory, counts
<1> DEFINE Truth == \A n \in Name : IsValid(n) /\ marker[n] = meta[n].bytes => object[n] = marker[n]
           Source == (Backing \/ Uploading) /\ worker.artifact # NoArtifact =>
                       /\ worker.artifact.name \in Name /\ worker.artifact.bytes # None
                       /\ \/ worker.at = "describe" /\ worker.name = worker.artifact.name
                          \/ file[worker.artifact.name] \in {None, worker.artifact.bytes}
           Chosen == Uploading => worker.artifact # NoArtifact
           Stored == worker.at = "mark" => object[worker.artifact.name] = worker.artifact.bytes
<1>0. Types' /\ backups \in Nat /\ MaxBackups \in Nat
    BY TypesStep, BackupsAssumption DEF Types
<1>inv. Truth /\ Source /\ Chosen /\ Stored
    BY DEF StoreInv
<1>def. (Truth /\ Source /\ Chosen /\ Stored)' => StoreInv'
    BY DEF StoreInv
<1>lat. Latest # NoArtifact => /\ Latest.name \in Name /\ Latest.bytes # None
                               /\ file[Latest.name] = Latest.bytes
    BY LatestIs, ValidIs
<1>1. ASSUME Prune PROVE StoreInv'
    <2>1. ASSUME NEW n \in Name, IsValid(n)', marker'[n] = meta'[n].bytes
          PROVE  file'[n] = file[n] /\ meta'[n] = meta[n] /\ marker'[n] = marker[n]
        <3>1. file'[n] # None /\ meta'[n].bytes # None
            BY <2>1 DEF IsValid, Described
        <3>2. NoMeta.bytes = None
            BY DEF NoMeta
        <3> QED BY <1>1, <2>1, <3>1, <3>2, PruneTakes
    <2>2. Truth'
        BY <1>1, <2>1, TruthKept, PruneTakes
    <2>3. Source' /\ Chosen' /\ Stored'
        BY <1>1, <1>inv, PruneTakes DEF Backing, Uploading
    <2> QED BY <2>2, <2>3, <1>def
<1>2. ASSUME Prepare PROVE StoreInv'
    <2>1. PICK n \in Name : file[n] = None /\ worker' = [worker EXCEPT !.at = "copy", !.name = n]
        BY <1>2 DEF Prepare
    <2>2. worker'.at = "copy" /\ worker'.name = n /\ worker'.artifact = worker.artifact
        BY <2>1 DEF Types, Worker
    <2>3. Source' /\ Chosen' /\ Stored'
        BY <1>2, <1>inv, <2>2 DEF Prepare, Backing, Uploading
    <2>4. Truth'
        BY <1>2, TruthKept DEF Prepare
    <2> QED BY <2>3, <2>4, <1>def
<1>3. ASSUME Copy PROVE StoreInv'
    <2>1. worker'.at = "finalize" /\ worker'.artifact = worker.artifact
        BY <1>3 DEF Copy, Types, Worker
    <2>2. Source' /\ Chosen' /\ Stored'
        BY <1>3, <1>inv, <2>1 DEF Copy, Backing, Uploading
    <2>3. Truth'
        BY <1>3, TruthKept DEF Copy
    <2> QED BY <2>2, <2>3, <1>def
<1>4. ASSUME Finalize PROVE StoreInv'
    <2>1. worker.name \in Name /\ \A n \in Name : n # worker.name => file'[n] = file[n]
        BY <1>4 DEF Finalize, Types, Named
    <2>2. file'[worker.name] = worker.bytes
        BY <1>4, <2>1 DEF Finalize, Types
    <2>3. Source' /\ Chosen' /\ Stored'
        BY <1>4, <1>inv, <2>1, GoesOn DEF Finalize, Backing, Uploading
    <2>4. \A n \in Name : n = worker.name => ~IsValid(n)'
        BY <1>4, <2>1, <2>2 DEF Finalize, BytesInv, Written, IsValid, Described
    <2>5. Truth'
        BY <1>4, <2>1, <2>4, TruthKept DEF Finalize
    <2> QED BY <2>3, <2>5, <1>def
<1>5. ASSUME WriteMetadata PROVE StoreInv'
    <2>1. worker.name \in Name /\ \A n \in Name : n # worker.name => meta'[n] = meta[n]
        BY <1>5 DEF WriteMetadata, Types, Named
    <2>2. meta'[worker.name].bytes = worker.bytes /\ marker' = marker /\ marker[worker.name] # worker.bytes
        BY <1>5, <2>1 DEF WriteMetadata, Types, BytesInv, Written
    <2>3. Truth'
        BY <1>5, <2>1, <2>2, TruthKept DEF WriteMetadata
    <2>4. Source' /\ Chosen' /\ Stored'
        BY <1>5, GoesOn DEF WriteMetadata, Backing, Uploading
    <2> QED BY <2>3, <2>4, <1>def
<1>6. ASSUME BackupFails PROVE StoreInv'
    <2>1. \A n \in Name : /\ file'[n] \in {file[n], None}
                          /\ worker.at = "describe" /\ n = worker.name => file'[n] = None
        BY <1>6 DEF BackupFails, Types
    <2>2. Truth'
        BY <1>6, <2>1, TruthKept DEF BackupFails, IsValid, Described
    <2>3. CASE worker' = IdleWorker
        <3>1. Source' /\ Chosen' /\ Stored'
            BY <2>3 DEF IdleWorker, Backing, Uploading
        <3> QED BY <2>2, <3>1, <1>def
    <2>4. CASE worker.artifact # NoArtifact /\ WorkerTo("upload")
        <3>1. Source'
            BY <1>6, <1>inv, <2>1, <2>4, GoesOn DEF BackupFails, Backing
        <3>2. Chosen' /\ Stored'
            BY <2>4, GoesOn DEF Uploading
        <3> QED BY <2>2, <3>1, <3>2, <1>def
    <2> QED BY <1>6, <2>3, <2>4 DEF BackupFails
<1>7. ASSUME Find PROVE StoreInv'
    <2>1. Truth'
        BY <1>7, TruthKept DEF Find
    <2>2. CASE worker' = IdleWorker
        <3>1. Source' /\ Chosen' /\ Stored'
            BY <2>2 DEF IdleWorker, Backing, Uploading
        <3> QED BY <2>1, <3>1, <1>def
    <2>3. CASE Latest # NoArtifact /\ worker' = [worker EXCEPT !.at = "upload", !.artifact = Latest]
        <3>1. worker'.at = "upload" /\ worker'.artifact = Latest
            BY <2>3 DEF Types, Worker
        <3>2. Source' /\ Chosen' /\ Stored'
            BY <1>7, <1>lat, <2>3, <3>1 DEF Find
        <3> QED BY <2>1, <3>2, <1>def
    <2> QED BY <1>7, <2>2, <2>3 DEF Find
<1>8. ASSUME SkipUpload \/ WriteMarkerFails PROVE StoreInv'
    <2>1. worker'.at = "idle" /\ UNCHANGED <<file, meta, marker, object>>
        BY <1>8 DEF SkipUpload, WriteMarkerFails, RecordUploadFailure, IdleWorker
    <2>2. Source' /\ Chosen' /\ Stored' /\ Truth'
        BY <2>1, TruthKept DEF Backing, Uploading
    <2> QED BY <2>2, <1>def
\* What is stored are the bytes of the file, so a marker that fits the file is true.
<1>9. ASSUME Upload \/ UploadFails PROVE StoreInv'
    <2>1. UNCHANGED <<file, meta, marker>> /\ worker.at = "upload"
        BY <1>9 DEF Upload, UploadFails
    <2>2. object' = object \/ Stores
        BY <1>9 DEF Upload, UploadFails
    <2>3. \A n \in Name : object'[n] = object[n] \/ object'[n] = file[n]
        BY <2>2 DEF Stores, Types
    <2>4. Truth'
        BY <1>inv, <2>1, <2>3 DEF IsValid, Described
    <2>5. CASE Upload
        <3>1. object'[worker.artifact.name] = worker.artifact.bytes
            BY <1>inv, <2>1, <2>5 DEF Upload, Stores, Types, Uploading
        <3>2. Source' /\ Chosen' /\ Stored'
            BY <1>inv, <2>1, <2>5, <3>1, GoesOn DEF Upload, Uploading
        <3> QED BY <2>4, <3>2, <1>def
    <2>6. CASE UploadFails
        <3>1. worker'.at = "idle"
            BY <2>6 DEF UploadFails, RecordUploadFailure, IdleWorker
        <3>2. Source' /\ Chosen' /\ Stored'
            BY <3>1 DEF Backing, Uploading
        <3> QED BY <2>4, <3>2, <1>def
    <2> QED BY <1>9, <2>5, <2>6
<1>10. ASSUME WriteMarker PROVE StoreInv'
    <2>1. /\ worker.at = "mark" /\ UNCHANGED <<file, meta, object>> /\ worker'.at = "idle"
          /\ marker' = [marker EXCEPT ![worker.artifact.name] = worker.artifact.bytes]
        BY <1>10 DEF WriteMarker, IdleWorker
    <2>2. \A n \in Name : \/ marker'[n] = marker[n]
                          \/ n = worker.artifact.name /\ marker'[n] = worker.artifact.bytes
        BY <2>1 DEF Types
    <2>3. Truth'
        BY <1>inv, <2>1, <2>2 DEF IsValid, Described
    <2>4. Source' /\ Chosen' /\ Stored'
        BY <2>1 DEF Backing, Uploading
    <2> QED BY <2>3, <2>4, <1>def
<1>11. ASSUME Schedule PROVE StoreInv'
    <2>1. Truth'
        BY <1>11, TruthKept DEF Schedule
    <2>2. CASE StartWorker("prepare")
        <3>1. Source' /\ Chosen' /\ Stored'
            BY <1>11, <1>lat, <2>2, Starts DEF Schedule, Uploading
        <3> QED BY <2>1, <3>1, <1>def
    <2>3. CASE StartWorker("upload") /\ NeedsUpload(Latest)
        <3>1. Source' /\ Chosen' /\ Stored'
            BY <1>11, <1>lat, <2>3, Starts DEF Schedule, NeedsUpload
        <3> QED BY <2>1, <3>1, <1>def
    <2>4. CASE worker' = worker
        <3>1. Source' /\ Chosen' /\ Stored'
            BY <1>11, <1>inv, <2>4 DEF Schedule, Backing, Uploading
        <3> QED BY <2>1, <3>1, <1>def
    <2> QED BY <1>11, <2>2, <2>3, <2>4 DEF Schedule
<1>12. ASSUME NEW n \in Name, Damage(n) PROVE StoreInv'
    <2>1. Bad # None /\ \A m \in Name : meta[m].bytes # Bad
        BY <1>0 DEF Bad, None, BytesInv, Types, Sidecar
    <2>2. ~IsValid(n)' /\ \A m \in Name : m # n => file'[m] = file[m]
        BY <1>12, <2>1 DEF Damage, IsValid, Described, Types
    <2>3. Truth'
        BY <1>12, <2>2, TruthKept DEF Damage
    <2>4. Source' /\ Chosen' /\ Stored'
        BY <1>12 DEF Damage, Backing, Uploading
    <2> QED BY <2>3, <2>4, <1>def
<1>13. ASSUME Crash PROVE StoreInv'
    <2>1. worker'.at = "idle" /\ UNCHANGED <<file, meta, marker, object>>
        BY <1>13 DEF Crash, IdleWorker
    <2>2. Source' /\ Chosen' /\ Stored' /\ Truth'
        BY <2>1, TruthKept DEF Backing, Uploading
    <2> QED BY <2>2, <1>def
<1>14. ASSUME TimePasses \/ UNCHANGED vars PROVE StoreInv'
    <2>1. UNCHANGED <<file, meta, marker, object, worker>>
        BY <1>14 DEF TimePasses, vars
    <2> QED BY <1>inv, <2>1 DEF StoreInv, IsValid, Described, Backing, Uploading
<1> QED BY <1>1, <1>2, <1>3, <1>4, <1>5, <1>6, <1>7, <1>8, <1>9, <1>10, <1>11, <1>12, <1>13, <1>14
        DEF Next, Work

LEMMA MarkInvInit == Init => MarkInv
<1> SUFFICES ASSUME Init PROVE MarkInv
    OBVIOUS
<1> USE DEF Init, None
<1>1. Types
    BY IdleIs DEF Types, NoMeta, Sidecar, IdleWorker, IdlePruner, Named, Removing
<1>2. BytesInv
    BY BackupsAssumption DEF BytesInv, Written, NoMeta, IdleWorker, NoArtifact
<1>3. StoreInv
    BY DEF StoreInv, IsValid, Described, IdleWorker, Backing, Uploading
<1> QED BY <1>1, <1>2, <1>3 DEF MarkInv

LEMMA MarkInvStep == MarkInv /\ [Next]_vars => MarkInv'
BY TypesStep, BytesStep, StoreStep DEF MarkInv

\* A marker that makes the server skip an upload tells the truth, for any retention and
\* interval, whatever prune and the worker do to the files at the same time, whatever
\* operation fails, and across restarts.
THEOREM MarkersAreTrue == Spec => []MarkerMeansStored
<1>1. MarkInv => MarkerMeansStored
    BY DEF MarkInv, StoreInv, MarkerMeansStored, Restorable, IsValid, Described, BytesInv
<1> QED BY <1>1, MarkInvInit, MarkInvStep, PTL DEF Spec
----------------------------------------------------------------------------
(* What a step can do, for the properties that rest on the clock.          *)

\* An artifact becomes valid only when its sidecar is written.
LEMMA NewlyValid ==
    ASSUME MarkInv, [Next]_vars, NEW n \in Name, IsValid(n)'
    PROVE  \/ IsValid(n) /\ file'[n] = file[n] /\ meta'[n] = meta[n]
           \/ /\ WriteMetadata /\ n = worker.name /\ file'[n] = file[n]
              /\ meta'[n] = [bytes |-> worker.bytes, created |-> worker.started, finalized |-> now]
<1> USE DEF files, memory, counts
<1>0. Types /\ BytesInv /\ file'[n] # None /\ file'[n] = meta'[n].bytes
    BY ValidIs DEF MarkInv, IsValid, Described
<1>1. CASE file'[n] = file[n] /\ meta'[n] = meta[n]
    BY <1>1 DEF IsValid, Described
<1>2. CASE Prune
    <2>1. NoMeta.bytes = None
        BY DEF NoMeta
    <2> QED BY <1>0, <1>1, <1>2, <2>1, PruneTakes
<1>3. CASE Finalize
    <2>1. worker.name \in Name /\ meta' = meta
        BY <1>3, <1>0 DEF Finalize, Types, Named
    <2>2. n = worker.name => file'[n] # meta'[n].bytes
        BY <1>0, <1>3, <2>1 DEF Finalize, Types, BytesInv, Written
    <2> QED BY <1>0, <1>1, <1>3, <2>1, <2>2 DEF Finalize, Types
<1>4. CASE WriteMetadata
    BY <1>0, <1>1, <1>4 DEF WriteMetadata, Types
<1>5. CASE BackupFails
    BY <1>0, <1>1, <1>5 DEF BackupFails, Types
<1>6. CASE \E m \in Name : Damage(m)
    <2>1. meta' = meta /\ meta[n].bytes # Bad
        BY <1>6, <1>0, BackupsAssumption DEF Damage, BytesInv, Types, Bad, Sidecar
    <2> QED BY <1>0, <1>1, <1>6, <2>1 DEF Damage, Types
<1>7. CASE \/ Prepare \/ Copy \/ Find \/ SkipUpload \/ Upload \/ UploadFails \/ WriteMarker
           \/ WriteMarkerFails \/ Schedule \/ TimePasses \/ Crash \/ UNCHANGED vars
    BY <1>1, <1>7 DEF Prepare, Copy, Find, SkipUpload, Upload, UploadFails, WriteMarker,
                      WriteMarkerFails, Schedule, TimePasses, Crash, vars
<1> QED BY <1>2, <1>3, <1>4, <1>5, <1>6, <1>7 DEF Next, Work

\* A valid artifact ceases to be one only by prune or by damage.
LEMMA StaysValid ==
    ASSUME MarkInv, [Next]_vars, NEW n \in Name, IsValid(n)
    PROVE  \/ file'[n] = file[n] /\ meta'[n] = meta[n] /\ IsValid(n)'
           \/ pruner.at = "idle" /\ worker.at = "idle" /\ file'[n] = Bad /\ meta'[n] = meta[n]
           \/ Removing /\ n = pruner.name
<1> USE DEF files, memory, counts
<1>0. Types /\ BytesInv /\ file[n] # None /\ file[n] = meta[n].bytes
    BY ValidIs DEF MarkInv
<1>1. CASE file'[n] = file[n] /\ meta'[n] = meta[n]
    BY <1>1 DEF IsValid, Described
<1>2. CASE PruneRemove \/ PruneSidecar
    BY <1>0, <1>1, <1>2 DEF PruneRemove, PruneSidecar, Removes, Types, Removing
<1>3. CASE PruneMarker \/ PruneBegin \/ PruneEnds \/ \E m \in Name : PruneArtifact(m) \/ PruneTemp(m)
    BY <1>1, <1>3 DEF PruneMarker, PruneBegin, PruneEnds, PruneArtifact, PruneTemp
<1>4. CASE \E m \in Name : PruneOrphan(m)
    BY <1>0, <1>1, <1>4 DEF PruneOrphan, Removes, Types
<1>5. CASE Finalize \/ WriteMetadata \/ BackupFails
    <2>1. n = worker.name => worker.at \notin {"finalize", "describe"}
        BY <1>0 DEF BytesInv, Written
    <2> QED BY <1>0, <1>1, <1>5, <2>1 DEF Finalize, WriteMetadata, BackupFails, Types
<1>6. CASE \E m \in Name : Damage(m)
    BY <1>0, <1>1, <1>6 DEF Damage, Types
<1>7. CASE \/ Prepare \/ Copy \/ Find \/ SkipUpload \/ Upload \/ UploadFails \/ WriteMarker
           \/ WriteMarkerFails \/ Schedule \/ TimePasses \/ Crash \/ UNCHANGED vars
    BY <1>1, <1>7 DEF Prepare, Copy, Find, SkipUpload, Upload, UploadFails, WriteMarker,
                      WriteMarkerFails, Schedule, TimePasses, Crash, vars
<1> QED BY <1>2, <1>3, <1>4, <1>5, <1>6, <1>7 DEF Next, Work, Prune

\* A sidecar is written by the worker for its own artifact, or taken away.
LEMMA SidecarsAre ==
    ASSUME Types, [Next]_vars, NEW n \in Name
    PROVE  \/ meta'[n] = meta[n] \/ meta'[n] = NoMeta
           \/ /\ WriteMetadata /\ n = worker.name
              /\ meta'[n] = [bytes |-> worker.bytes, created |-> worker.started, finalized |-> now]
<1> USE DEF files, memory, counts
<1>1. CASE Prune
    BY <1>1, PruneTakes
<1>2. CASE WriteMetadata
    BY <1>2 DEF WriteMetadata, Types
<1>3. CASE ~Prune /\ ~WriteMetadata
    BY <1>3 DEF Next, Work, Prepare, Copy, Finalize, BackupFails, Find, SkipUpload, Upload,
                UploadFails, WriteMarker, WriteMarkerFails, Schedule, TimePasses, Damage, Crash, vars
<1> QED BY <1>1, <1>2, <1>3

\* Artifacts come by Finalize, and go by prune or when their backup fails.
LEMMA FilesAre ==
    ASSUME MarkInv, [Next]_vars, NEW n \in Name
    PROVE  /\ file[n] = None /\ file'[n] # None => Finalize /\ n = worker.name
           /\ file[n] # None /\ file'[n] = None =>
                \/ PruneRemove /\ n = pruner.name
                \/ BackupFails /\ worker.at = "describe" /\ n = worker.name
<1> USE DEF files, memory, counts
<1>0. Types /\ BytesInv
    BY DEF MarkInv
<1>1. CASE Finalize
    BY <1>0, <1>1 DEF Finalize, Types, BytesInv, Written, None
<1>2. CASE PruneRemove
    BY <1>0, <1>2 DEF PruneRemove, Removes, Types
<1>3. CASE BackupFails
    BY <1>0, <1>3 DEF BackupFails, Types
<1>4. CASE \E m \in Name : Damage(m)
    <2>1. Bad # None
        BY BackupsAssumption DEF Bad, None
    <2> QED BY <1>0, <1>4, <2>1 DEF Damage, Types, IsValid, Described
<1>5. CASE Prune /\ ~PruneRemove
    BY <1>5 DEF Prune, PruneSidecar, PruneMarker, PruneBegin, PruneEnds, PruneArtifact, PruneTemp,
                PruneOrphan
<1>6. CASE \/ Prepare \/ Copy \/ WriteMetadata \/ Find \/ SkipUpload \/ Upload \/ UploadFails
           \/ WriteMarker \/ WriteMarkerFails \/ Schedule \/ TimePasses \/ Crash \/ UNCHANGED vars
    BY <1>6 DEF Prepare, Copy, WriteMetadata, Find, SkipUpload, Upload, UploadFails, WriteMarker,
                WriteMarkerFails, Schedule, TimePasses, Crash, vars
<1> QED BY <1>1, <1>2, <1>3, <1>4, <1>5, <1>6 DEF Next, Work

\* Time and the count of backups only grow.
LEMMA Counters ==
    ASSUME Types, [Next]_vars
    PROVE  /\ now' = now \/ (TimePasses /\ now' = now + 1)
           /\ backups' = backups \/ (Copy /\ backups' = backups + 1)
BY PruneTakes DEF Next, Work, Prepare, Copy, Finalize, WriteMetadata, BackupFails, Find, SkipUpload,
   Upload, UploadFails, WriteMarker, WriteMarkerFails, Schedule, TimePasses, Damage, Crash, vars,
   files, memory, counts

\* When the sidecar is written, or the backup has failed, the backup is over.
LEMMA BackupEnds ==
    ASSUME Types
    PROVE  /\ WriteMetadata => worker'.at = "find"
           /\ BackupFails => worker'.at \in {"idle", "upload"}
BY GoesOn DEF WriteMetadata, BackupFails, IdleWorker

\* A backup is begun by a tick that sees a need for it, and then goes on by itself; the
\* artifact to upload is the latest one, found when the worker is started or by Find.
WorkerGoesOn ==
        /\ Backing' => \/ Backing /\ worker'.started = worker.started /\ worker'.artifact = worker.artifact
                       \/ Schedule /\ NeedsBackup /\ StartWorker("prepare")
        /\ Named' => Prepare \/ (Named /\ worker'.name = worker.name)
        /\ worker'.at = "copy" => Prepare \/ worker' = worker
        /\ worker'.at = "finalize" => Copy \/ worker' = worker
        /\ worker'.at = "describe" => Finalize \/ worker' = worker
        /\ (Backing \/ Uploading)' =>
             \/ (Backing \/ Uploading) /\ worker'.artifact = worker.artifact
             \/ (Find \/ Schedule) /\ worker'.artifact = Latest

LEMMA WorkerGoes ==
    ASSUME Types, [Next]_vars
    PROVE  WorkerGoesOn
<1> USE DEF files, memory, counts
<1>1. CASE worker' = worker
    BY <1>1 DEF WorkerGoesOn, Backing, Named, Uploading
<1>2. CASE worker' = IdleWorker
    BY <1>2 DEF WorkerGoesOn, IdleWorker, Backing, Named, Uploading
<1>3. ASSUME NEW n \in Name, Prepare, worker' = [worker EXCEPT !.at = "copy", !.name = n]
      PROVE  WorkerGoesOn
    <2>1. /\ worker'.at = "copy" /\ worker'.started = worker.started
          /\ worker'.artifact = worker.artifact
        BY <1>3 DEF Types, Worker
    <2> QED BY <1>3, <2>1 DEF WorkerGoesOn, Prepare, Backing, Named, Uploading
<1>4. CASE Copy
    <2>1. /\ worker'.at = "finalize" /\ worker'.started = worker.started
          /\ worker'.artifact = worker.artifact /\ worker'.name = worker.name
        BY <1>4 DEF Copy, Types, Worker
    <2> QED BY <1>4, <2>1 DEF WorkerGoesOn, Copy, Backing, Named, Uploading
<1>5. CASE Finalize
    BY <1>5, GoesOn DEF WorkerGoesOn, Finalize, Backing, Named, Uploading
<1>6. CASE WriteMetadata
    BY <1>6, GoesOn DEF WorkerGoesOn, WriteMetadata, Backing, Named, Uploading
<1>7. CASE BackupFails /\ WorkerTo("upload")
    BY <1>7, GoesOn DEF WorkerGoesOn, BackupFails, Backing, Named, Uploading
<1>8. CASE Find /\ worker' = [worker EXCEPT !.at = "upload", !.artifact = Latest]
    <2>1. worker'.at = "upload" /\ worker'.artifact = Latest
        BY <1>8 DEF Types, Worker
    <2> QED BY <1>8, <2>1 DEF WorkerGoesOn, Backing, Named, Uploading
<1>9. CASE Upload
    BY <1>9, GoesOn DEF WorkerGoesOn, Upload, Backing, Named, Uploading
<1>10. CASE Schedule /\ NeedsBackup /\ StartWorker("prepare")
    BY <1>10, Starts DEF WorkerGoesOn, Backing, Named, Uploading
<1>11. CASE Schedule /\ StartWorker("upload")
    BY <1>11, Starts DEF WorkerGoesOn, Backing, Named, Uploading
<1>12. Prune \/ TimePasses \/ (\E n \in Name : Damage(n)) \/ UNCHANGED vars => worker' = worker
    BY PruneTakes DEF TimePasses, Damage, vars
<1>13. Crash \/ SkipUpload \/ UploadFails \/ WriteMarker \/ WriteMarkerFails => worker' = IdleWorker
    BY DEF Crash, SkipUpload, UploadFails, WriteMarker, WriteMarkerFails, RecordUploadFailure
<1>14. BackupFails => worker' = IdleWorker \/ WorkerTo("upload")
    BY DEF BackupFails
<1>15. Find => worker' = IdleWorker \/ worker' = [worker EXCEPT !.at = "upload", !.artifact = Latest]
    BY DEF Find
<1>16. Schedule => \/ worker' = worker
                   \/ NeedsBackup /\ StartWorker("prepare")
                   \/ StartWorker("upload")
    BY DEF Schedule
<1>17. Prepare => \E n \in Name : worker' = [worker EXCEPT !.at = "copy", !.name = n]
    BY DEF Prepare
<1> QED BY <1>1, <1>2, <1>3, <1>4, <1>5, <1>6, <1>7, <1>8, <1>9, <1>10, <1>11, <1>12, <1>13,
           <1>14, <1>15, <1>16, <1>17 DEF Next, Work

\* A tick prunes what it has listed when it began, and keeps what it protects.
PrunerGoesOn ==
    /\ Pruning' => \/ PruneBegin /\ pruner'.at = "look"
                   \/ /\ Pruning /\ pruner'.todo \subseteq pruner.todo
                      /\ pruner'.asof = pruner.asof /\ pruner'.protected = pruner.protected
    /\ Removing' => \/ Removing /\ pruner'.name = pruner.name
                    \/ \E n \in Name : PruneArtifact(n) /\ pruner'.name = n /\ n # pruner.protected
                                       /\ TooOld(AgeRef(n), Retention)
                                       /\ <<"artifact", n>> \in pruner.todo

LEMMA PrunerGoes ==
    ASSUME Types, [Next]_vars
    PROVE  PrunerGoesOn
<1> USE DEF files, memory, counts
<1>1. CASE pruner' = pruner
    BY <1>1 DEF PrunerGoesOn, Pruning, Removing
<1>2. CASE pruner' = IdlePruner
    BY <1>2 DEF PrunerGoesOn, IdlePruner, Pruning, Removing
<1>3. CASE PruneBegin
    <2>1. pruner'.at \in {"look", "schedule"}
        BY <1>3 DEF PruneBegin, Types, Pruner
    <2> QED BY <1>3, <2>1 DEF PrunerGoesOn, Pruning, Removing
<1>4. CASE PruneRemove \/ PruneSidecar \/ PruneMarker \/ PruneEnds
    BY <1>4 DEF PrunerGoesOn, PruneRemove, PruneSidecar, PruneMarker, PruneEnds, Types, Pruner,
                Pruning, Removing
<1>5. ASSUME NEW n \in Name, PruneArtifact(n) PROVE PrunerGoesOn
    <2>1. CASE pruner' = [pruner EXCEPT !.todo = Rest("artifact", n)]
        BY <1>5, <2>1 DEF PrunerGoesOn, PruneArtifact, Visits, Rest, Types, Pruner, Pruning, Removing
    <2>2. CASE /\ n # pruner.protected /\ TooOld(AgeRef(n), Retention)
               /\ pruner' = [pruner EXCEPT !.at = "remove", !.name = n, !.todo = Rest("artifact", n)]
        <3>1. /\ pruner'.at = "remove" /\ pruner'.name = n /\ pruner'.todo \subseteq pruner.todo
              /\ pruner'.asof = pruner.asof /\ pruner'.protected = pruner.protected
            BY <2>2 DEF Rest, Types, Pruner
        <3> QED BY <1>5, <2>2, <3>1 DEF PrunerGoesOn, PruneArtifact, Visits, Pruning, Removing
    <2> QED BY <1>5, <2>1, <2>2 DEF PruneArtifact, Passes
<1>6. ASSUME NEW n \in Name, PruneTemp(n) \/ PruneOrphan(n) PROVE PrunerGoesOn
    <2>1. \E k : pruner' = [pruner EXCEPT !.todo = Rest(k, n)] /\ pruner.at = "look"
        BY <1>6 DEF PruneTemp, PruneOrphan, Passes, Visits
    <2> QED BY <2>1 DEF PrunerGoesOn, Rest, Types, Pruner, Pruning, Removing
<1>7. Schedule \/ Crash => pruner' = IdlePruner
    BY DEF Schedule, Crash
<1>8. Work \/ TimePasses \/ (\E n \in Name : Damage(n)) \/ UNCHANGED vars => pruner' = pruner
    BY DEF Work, Prepare, Copy, Finalize, WriteMetadata, BackupFails, Find, SkipUpload, Upload,
           UploadFails, WriteMarker, WriteMarkerFails, TimePasses, Damage, vars
<1> QED BY <1>1, <1>2, <1>3, <1>4, <1>5, <1>6, <1>7, <1>8 DEF Next, Prune
----------------------------------------------------------------------------
(* Names, and the artifacts they pass over.                                *)

LEMMA CountStep == MarkInv /\ CountInv /\ [Next]_vars => CountInv'
<1> SUFFICES ASSUME MarkInv, CountInv, [Next]_vars PROVE CountInv'
    OBVIOUS
<1>1. IsFiniteSet(Files) /\ Cardinality(Files) \in Nat /\ Types /\ backups \in Nat
    BY NamesAreFinite, FS_Subset, FS_CardinalityType DEF Files, MarkInv, Types
<1>2. backups' \in {backups, backups + 1} /\ (Copy => backups' = backups + 1)
    BY <1>1, Counters DEF Copy
<1>3. CASE Finalize
    <2>1. Files' \subseteq Files \cup {worker.name}
        BY FilesAre DEF Files
    <2>2. Cardinality(Files \cup {worker.name}) <= Cardinality(Files) + 1 /\ IsFiniteSet(Files \cup {worker.name})
        BY <1>1, FS_AddElement
    <2>3. Cardinality(Files') <= Cardinality(Files) + 1 /\ Cardinality(Files') \in Nat
        BY <1>1, <2>1, <2>2, FS_Subset, FS_CardinalityType
    <2>4. Cardinality(Files) < backups /\ worker'.at = "describe" /\ backups' = backups
        BY <1>1, <1>3, GoesOn DEF CountInv, Finalize, counts
    <2> QED BY <1>1, <2>3, <2>4 DEF CountInv
<1>4. CASE ~Finalize
    <2>1. Files' \subseteq Files
        BY <1>4, FilesAre DEF Files
    <2>2. Cardinality(Files') <= Cardinality(Files) /\ Cardinality(Files') \in Nat
        BY <1>1, <2>1, FS_Subset, FS_CardinalityType
    <2>3. worker'.at = "finalize" => Copy \/ worker' = worker
        BY <1>1, WorkerGoes DEF WorkerGoesOn
    <2> QED BY <1>1, <1>2, <2>2, <2>3 DEF CountInv
<1> QED BY <1>3, <1>4

\* The first free name is at most as far away as there are artifacts.
LEMMA FirstFree ==
    ASSUME MarkInv, CountInv, NameInv, NEW n \in Name, worker.started <= n, worker.at = "prepare",
           \A m \in worker.started .. n - 1 : file[m] # None
    PROVE  n <= worker.started + backups
<1>1. /\ worker.started \in Nat /\ n \in Nat /\ backups \in Nat /\ worker.started >= 1
      /\ IsFiniteSet(Files)
    BY NamesAreFinite, FS_Subset DEF MarkInv, Types, Worker, NameInv, Backing, Files
<1>2. worker.started .. n - 1 \subseteq Files
    <2>1. worker.started .. n - 1 \subseteq Name
        BY <1>1, BackupsAssumption DEF Name
    <2> QED BY <2>1 DEF Files
<1>3. Cardinality(worker.started .. n - 1) <= Cardinality(Files)
    BY <1>1, <1>2, FS_Subset
<1>4. Cardinality(worker.started .. n - 1) = IF worker.started > n - 1 THEN 0 ELSE n - worker.started
    <2>1. n - 1 \in Int /\ worker.started \in Int
        BY <1>1
    <2>2. Cardinality(worker.started .. n - 1)
            = IF worker.started > n - 1 THEN 0 ELSE (n - 1) - worker.started + 1
        BY <2>1, FS_Interval
    <2> QED BY <1>1, <2>2
<1>5. Cardinality(Files) \in Nat /\ Cardinality(Files) <= backups
    BY <1>1, FS_CardinalityType DEF CountInv
<1> QED BY <1>1, <1>3, <1>4, <1>5

\* Prepare takes the first free name.
LEMMA PrepareTakes ==
    ASSUME Types, Prepare
    PROVE  /\ worker'.name \in Name /\ file[worker'.name] = None
           /\ worker'.at = "copy" /\ worker'.started = worker.started
           /\ worker.started <= worker'.name
           /\ \A m \in worker.started .. worker'.name - 1 : file[m] # None
<1>1. PICK n \in Name : /\ n >= worker.started /\ file[n] = None
                        /\ \A m \in worker.started .. n - 1 : file[m] # None
                        /\ worker' = [worker EXCEPT !.at = "copy", !.name = n]
    BY DEF Prepare
<1>2. worker'.name = n /\ worker'.at = "copy" /\ worker'.started = worker.started
    BY <1>1 DEF Types, Worker
<1>3. n \in Nat /\ worker.started \in Nat
    BY NamesAreFinite DEF Types, Worker
<1> QED BY <1>1, <1>2, <1>3

LEMMA NameStep == MarkInv /\ CountInv /\ NameInv /\ PruneInv /\ [Next]_vars => NameInv'
<1> SUFFICES ASSUME MarkInv, CountInv, NameInv, PruneInv, [Next]_vars PROVE NameInv'
    OBVIOUS
<1>0. /\ Types /\ BytesInv /\ Types' /\ now \in Nat /\ backups \in Nat
      /\ worker.started \in Nat /\ worker.name \in Nat /\ worker.bytes \in Nat
      /\ Name \in SUBSET Nat /\ MaxDuration \in Nat
      /\ \A n \in Name : meta[n] \in Sidecar
    BY TypesStep, NamesAreFinite, BackupsAssumption DEF MarkInv, Types, Worker
<1>1. now' \in {now, now + 1} /\ backups' \in {backups, backups + 1}
    BY <1>0, Counters
<1>2. WorkerGoesOn
    BY <1>0, WorkerGoes
<1>a. (now >= 1)'
    BY <1>0, <1>1 DEF NameInv
<1>b. ASSUME NEW n \in Name, meta'[n].bytes # None
      PROVE  /\ n + 1 <= meta'[n].created + meta'[n].bytes
             /\ meta'[n].created <= meta'[n].finalized /\ meta'[n].finalized <= now'
    <2>1. CASE meta'[n] = meta[n]
        BY <1>0, <1>1, <1>b, <2>1 DEF NameInv, Sidecar
    <2>2. CASE meta'[n] = NoMeta
        BY <1>b, <2>2 DEF NoMeta
    <2>3. CASE /\ WriteMetadata /\ n = worker.name
               /\ meta'[n] = [bytes |-> worker.bytes, created |-> worker.started, finalized |-> now]
        <3>1. worker.name + 1 <= worker.started + worker.bytes /\ worker.started <= now
            BY <2>3 DEF WriteMetadata, NameInv, Written, Backing, MarkInv, BytesInv
        <3> QED BY <1>0, <1>1, <2>3, <3>1
    <2> QED BY <1>0, <2>1, <2>2, <2>3, SidecarsAre
<1>c. Backing' => /\ 1 <= worker'.started /\ worker'.started <= now'
                  /\ now' <= worker'.started + MaxDuration
    <2>1. CASE Backing /\ worker'.started = worker.started
        <3>1. now' = now \/ now < worker.started + MaxDuration
            BY <1>0, <2>1, Counters DEF TimePasses, Backing
        <3> QED BY <1>0, <1>1, <2>1, <3>1 DEF NameInv
    <2>2. CASE Schedule /\ StartWorker("prepare")
        <3>1. worker'.started = now /\ now' = now
            BY <1>0, <2>2, Starts DEF Schedule
        <3> QED BY <1>0, <3>1 DEF NameInv
    <2> QED BY <1>2, <2>1, <2>2 DEF WorkerGoesOn
<1>d. worker'.at = "copy" => worker'.name <= worker'.started + backups'
    <2>1. CASE Prepare
        <3>1. worker'.name <= worker.started + backups
            BY <1>0, <2>1, PrepareTakes, FirstFree DEF Prepare
        <3> QED BY <1>0, <2>1, <3>1, PrepareTakes DEF Prepare, counts
    <2>2. CASE worker' = worker
        BY <1>0, <1>1, <2>2 DEF NameInv
    <2> QED BY <1>2, <2>1, <2>2 DEF WorkerGoesOn
<1>e. Written' => worker'.name + 1 <= worker'.started + backups'
    <2>1. CASE worker' = worker
        BY <1>0, <1>1, <2>1 DEF NameInv, Written
    <2>2. CASE Copy
        <3>1. worker'.name = worker.name /\ worker'.started = worker.started /\ backups' = backups + 1
            BY <1>0, <2>2 DEF Copy, Types, Worker
        <3> QED BY <1>0, <2>2, <3>1 DEF Copy, NameInv
    <2>3. CASE Finalize
        <3>1. worker'.name = worker.name /\ worker'.started = worker.started /\ backups' = backups
            BY <1>0, <2>3, GoesOn DEF Finalize, counts
        <3> QED BY <2>3, <3>1 DEF Finalize, NameInv, Written
    <2> QED BY <1>2, <2>1, <2>2, <2>3 DEF WorkerGoesOn, Written
<1>f. ASSUME Named', NEW m \in Name, worker'.started <= m, m < worker'.name
      PROVE  file'[m] # None
    <2>1. CASE Prepare
        <3>1. m \in worker.started .. worker'.name - 1
            <4>1. worker'.name \in Nat /\ m \in Nat /\ worker'.started = worker.started
                BY <1>0, <2>1, PrepareTakes
            <4> QED BY <1>0, <1>f, <4>1
        <3> QED BY <1>0, <2>1, <3>1, PrepareTakes DEF Prepare
    <2>2. CASE Named /\ worker'.name = worker.name
        <3>1. Backing /\ Backing' /\ worker'.started = worker.started
            BY <1>0, <1>2, <1>f, <2>2, Starts DEF Named, Backing, WorkerGoesOn
        <3>2. file[m] # None /\ m # worker.name
            BY <1>0, <1>f, <2>2, <3>1 DEF NameInv
        <3>3. PruneRemove => m # pruner.name
            BY <1>0, <1>f, <3>1 DEF PruneRemove, PruneInv, Removing, Types, Pruner
        <3> QED BY <3>2, <3>3, FilesAre
    <2> QED BY <1>2, <1>f, <2>1, <2>2 DEF WorkerGoesOn
<1>g. Named' => worker'.started <= worker'.name
    <2>1. CASE Prepare
        BY <1>0, <2>1, PrepareTakes
    <2>2. CASE Named /\ worker'.name = worker.name
        <3>1. Named' => worker'.started = worker.started
            BY <1>0, <1>2, <2>2, Starts DEF Named, Backing, WorkerGoesOn
        <3> QED BY <2>2, <3>1 DEF NameInv
    <2> QED BY <1>2, <2>1, <2>2 DEF WorkerGoesOn
<1> QED BY <1>a, <1>b, <1>c, <1>d, <1>e, <1>f, <1>g DEF NameInv
----------------------------------------------------------------------------
(* What is pruned.                                                         *)

\* An artifact chosen for removal is too old for a backup under way to take its name,
\* and if it is valid it was so before the tick began.
LEMMA Chosen ==
    ASSUME Prompt, MarkInv, NameInv, PruneInv, Pruning, NEW n \in Name,
           TooOld(AgeRef(n), Retention), <<"artifact", n>> \in pruner.todo
    PROVE  /\ n + Retention + 2 <= pruner.asof + backups
           /\ Backing => n < worker.started
           /\ IsValid(n) => meta[n].finalized < pruner.asof
<1>0. /\ n \in Nat /\ Retention \in Nat /\ MaxDuration \in Nat /\ MaxBackups \in Nat
      /\ pruner.asof \in Nat /\ now \in Nat /\ backups \in Nat /\ worker.started \in Nat
      /\ meta[n].bytes \in Nat /\ meta[n].created \in Nat /\ meta[n].finalized \in Nat
    BY NamesAreFinite, BackupsAssumption DEF MarkInv, Types, Pruner, Worker, Sidecar
<1>1. /\ pruner.asof <= now /\ backups >= 1 /\ backups <= MaxBackups
      /\ MaxDuration <= Retention /\ MaxDuration + MaxBackups <= Retention + 2
      /\ Backing => now <= worker.started + MaxDuration
    BY DEF PruneInv, Prompt, MarkInv, BytesInv, NameInv
<1>2. CASE Described(n)
    <2>1. /\ meta[n].finalized + Retention < pruner.asof
          /\ n + 1 <= meta[n].created + meta[n].bytes /\ meta[n].created <= meta[n].finalized
        BY <1>2 DEF TooOld, AgeRef, Described, NameInv
    <2>2. meta[n].bytes <= backups /\ (Backing => meta[n].bytes < MaxBackups)
        BY <1>0, <1>1 DEF MarkInv, BytesInv, Backing, Written
    <2> QED BY <1>0, <1>1, <2>1, <2>2
<1>3. CASE ~Described(n)
    <2>1. n + Retention < pruner.asof /\ ~IsValid(n)
        BY <1>3 DEF TooOld, AgeRef, IsValid
    <2> QED BY <1>0, <1>1, <2>1
<1> QED BY <1>2, <1>3

LEMMA PruneStep ==
    Prompt /\ MarkInv /\ CountInv /\ NameInv /\ PruneInv /\ [Next]_vars => PruneInv'
<1> SUFFICES ASSUME Prompt, MarkInv, CountInv, NameInv, PruneInv, [Next]_vars PROVE PruneInv'
    OBVIOUS
<1>0. /\ Types /\ Types' /\ now \in Nat /\ backups \in Nat /\ Retention \in Nat
      /\ pruner.asof \in Nat /\ pruner.protected \in Nat /\ pruner.name \in Nat
      /\ worker.started \in Nat /\ worker.name \in Nat
      /\ Name \in SUBSET Nat /\ \A n \in Name : meta[n].finalized \in Nat
    BY TypesStep, NamesAreFinite, BackupsAssumption DEF MarkInv, Types, Pruner, Worker, Sidecar
<1>1. now' \in {now, now + 1} /\ backups' \in {backups, backups + 1}
    BY <1>0, Counters
<1>2. WorkerGoesOn /\ PrunerGoesOn
    BY <1>0, WorkerGoes, PrunerGoes
<1> DEFINE LookOK == /\ Retention > 0 /\ pruner.asof <= now
                     /\ (\E n \in Name : <<"artifact", n>> \in pruner.todo) => backups >= 1
                     /\ pruner.protected # None => pruner.protected \in Name /\ IsValid(pruner.protected)
                     /\ \A n \in Name : IsValid(n) =>
                          n <= pruner.protected \/ pruner.asof <= meta[n].finalized
           RemoveOK == /\ pruner.name + Retention + 2 <= pruner.asof + backups
                       /\ Backing => pruner.name < worker.started
                       /\ IsValid(pruner.name) => pruner.name < pruner.protected
<1>3. CASE PruneBegin /\ pruner'.at = "look"
    <2>a. /\ Retention > 0
          /\ pruner' = [at |-> "look", todo |-> Entries, protected |-> Latest.name,
                        asof |-> now, name |-> None]
        <3>1. [pruner EXCEPT !.at = "schedule"].at = "schedule"
            BY <1>0 DEF Types, Pruner
        <3> QED BY <1>3, <3>1, Zenon DEF PruneBegin
    <2>b. UNCHANGED <<file, meta, now, backups>>
        BY <1>3 DEF PruneBegin, files, counts
    <2>1. /\ Retention > 0 /\ UNCHANGED <<file, meta, now, backups>>
          /\ pruner'.protected = Latest.name /\ pruner'.asof = now /\ pruner'.todo = Entries
        BY <2>a, <2>b
    <2>2. ASSUME NEW n \in Name, <<"artifact", n>> \in Entries PROVE backups >= 1
        <3>1. n \in Files
            BY <2>2 DEF Entries, Files
        <3>2. Cardinality(Files) # 0 /\ Cardinality(Files) \in Nat
            BY <3>1, NamesAreFinite, FS_Subset, FS_CardinalityType, FS_EmptySet DEF Files
        <3> QED BY <1>0, <3>2 DEF CountInv
    <2>3. \A n \in Name : IsValid(n)' <=> IsValid(n)
        BY <2>1 DEF IsValid, Described
    <2>4. Latest = NoArtifact => Latest.name = None
        BY DEF NoArtifact
    <2>5. Latest.name # None => Latest.name \in Name /\ IsValid(Latest.name)
        BY <1>0, <2>4, LatestIs
    <2>6. pruner'.protected # None => pruner'.protected \in Name /\ IsValid(pruner.protected)'
        BY <2>1, <2>5 DEF IsValid, Described
    <2>7. ASSUME NEW n \in Name, IsValid(n)'
          PROVE  n <= pruner'.protected \/ pruner'.asof <= meta'[n].finalized
        BY <1>0, <2>1, <2>3, <2>7, LatestIs
    <2>8. pruner'.asof <= now'
        BY <1>0, <2>1
    <2>9. LookOK'
        BY <2>1, <2>2, <2>6, <2>7, <2>8
    <2> QED BY <1>3, <2>9 DEF PruneInv, Removing
<1>4. CASE /\ Pruning /\ pruner'.todo \subseteq pruner.todo
           /\ pruner'.asof = pruner.asof /\ pruner'.protected = pruner.protected
    <2>1. LookOK
        BY <1>4 DEF PruneInv
    <2>2. LookOK'
        <3>1. ASSUME pruner.protected # None PROVE IsValid(pruner.protected)'
            <4>1. pruner.protected \in Name /\ IsValid(pruner.protected)
                BY <2>1, <3>1
            <4>2. Removing => pruner.name # pruner.protected
                BY <1>0, <4>1 DEF PruneInv
            <4>3. IsValid(pruner.protected) /\ file'[pruner.protected] = file[pruner.protected]
                  /\ meta'[pruner.protected] = meta[pruner.protected]
                BY <1>4, <4>1, <4>2, StaysValid DEF Pruning
            <4> QED BY <1>4, <4>3 DEF IsValid, Described
        <3>2. ASSUME NEW n \in Name, IsValid(n)'
              PROVE  n <= pruner.protected \/ pruner.asof <= meta'[n].finalized
            BY <1>0, <2>1, <3>2, NewlyValid
        <3>3. pruner.asof <= now' /\ (backups >= 1 => backups' >= 1)
            BY <1>0, <1>1, <2>1
        <3> QED BY <1>4, <2>1, <3>1, <3>2, <3>3
    <2>3. ASSUME Removing', Removing, pruner'.name = pruner.name PROVE RemoveOK'
        <3>1. RemoveOK /\ pruner.name \in Name
            BY <1>0, <2>3 DEF PruneInv, Types
        <3>2. Backing' => Backing /\ worker'.started = worker.started
            BY <1>2, <2>3 DEF WorkerGoesOn, Schedule, Removing
        <3>3. IsValid(pruner.name)' => IsValid(pruner.name)
            <4>1. WriteMetadata => pruner.name # worker.name
                BY <1>0, <3>1 DEF WriteMetadata, NameInv, Named, Backing
            <4>2. \A n \in Name : n = pruner.name /\ IsValid(n)' => IsValid(n)
                BY <4>1, NewlyValid
            <4> QED BY <2>3, <3>1, <4>2
        <3> QED BY <1>0, <1>1, <1>4, <2>3, <3>1, <3>2, <3>3
    <2>4. ASSUME NEW n \in Name, PruneArtifact(n), pruner'.name = n, n # pruner.protected,
                 TooOld(AgeRef(n), Retention), <<"artifact", n>> \in pruner.todo
          PROVE  RemoveOK'
        <3>1. /\ n + Retention + 2 <= pruner.asof + backups
              /\ Backing => n < worker.started
              /\ IsValid(n) => meta[n].finalized < pruner.asof
            BY <1>4, <2>4, Chosen
        <3>2. IsValid(n) => n < pruner.protected
            BY <1>0, <2>1, <2>4, <3>1
        <3>3. UNCHANGED <<file, meta, worker, backups>>
            BY <2>4 DEF PruneArtifact, files, counts
        <3>4. (IsValid(n)' <=> IsValid(n)) /\ (Backing' <=> Backing)
            BY <3>3 DEF IsValid, Described, Backing
        <3> QED BY <1>4, <2>4, <3>1, <3>2, <3>3, <3>4 DEF IsValid, Described
    <2>5. Removing' => RemoveOK'
        BY <1>2, <2>3, <2>4 DEF PrunerGoesOn
    <2> QED BY <2>2, <2>5 DEF PruneInv
<1>5. CASE ~Pruning'
    BY <1>5 DEF PruneInv, Pruning, Removing
<1> QED BY <1>2, <1>3, <1>4, <1>5 DEF PrunerGoesOn
----------------------------------------------------------------------------
(* The newest valid artifact.                                              *)

\* Prune never removes the newest valid artifact.
LEMMA NewestIsKept ==
    ASSUME MarkInv, PruneInv, Removing, IsValid(pruner.name)
    PROVE  \E n \in Name : IsValid(n) /\ pruner.name < n
<1>1. pruner.name < pruner.protected /\ pruner.name \in Nat /\ pruner.protected \in Nat /\ Pruning
    BY DEF PruneInv, MarkInv, Types, Pruner, Removing, Pruning
<1>2. pruner.protected # None
    BY <1>1 DEF None
<1> QED BY <1>1, <1>2 DEF PruneInv

LEMMA NewestStep == MarkInv /\ PruneInv /\ NewestInv /\ [Next]_vars => NewestInv'
<1> SUFFICES ASSUME MarkInv, PruneInv, NewestInv, [Next]_vars, (Backing \/ Uploading)'
             PROVE  /\ \A n \in Name : IsValid(n)' => n <= worker'.artifact.name
                    /\ worker'.artifact # NoArtifact =>
                         /\ worker'.artifact.name \in Name
                         /\ \A n \in Name : n = worker'.artifact.name => IsValid(n)'
    <2>1. ASSUME \A n \in Name : n = worker'.artifact.name => IsValid(n)', worker'.artifact.name \in Name
          PROVE  IsValid(worker.artifact.name)'
        BY <2>1
    <2> QED BY <2>1 DEF NewestInv
<1>0. /\ Types /\ Types' /\ WorkerGoesOn /\ Name \in SUBSET Nat /\ worker.artifact.name \in Nat
      /\ pruner.name \in Nat
    BY TypesStep, WorkerGoes, NamesAreFinite DEF MarkInv, Types, Worker, Artifact, Pruner
<1>1. CASE (Backing \/ Uploading) /\ worker'.artifact = worker.artifact
    <2>1. ASSUME NEW n \in Name, IsValid(n)' PROVE n <= worker.artifact.name
        <3>1. ~WriteMetadata
            BY <1>0, BackupEnds DEF Backing, Uploading
        <3> QED BY <1>1, <2>1, <3>1, NewlyValid DEF NewestInv
    <2>2. ASSUME worker.artifact # NoArtifact, NEW n \in Name, n = worker.artifact.name PROVE IsValid(n)'
        <3>1. IsValid(n) /\ worker.at # "idle"
            BY <1>1, <2>2 DEF NewestInv, Backing, Uploading
        <3>2. CASE Removing /\ n = pruner.name
            <4>1. PICK m \in Name : IsValid(m) /\ n < m
                BY <3>1, <3>2, NewestIsKept
            <4>2. m <= n
                BY <1>1, <2>2, <4>1 DEF NewestInv
            <4> QED BY <1>0, <4>1, <4>2
        <3> QED BY <3>1, <3>2, StaysValid
    <2>3. worker.artifact # NoArtifact => worker.artifact.name \in Name
        BY <1>1 DEF NewestInv
    <2> QED BY <1>1, <2>1, <2>2, <2>3
<1>2. CASE (Find \/ Schedule) /\ worker'.artifact = Latest
    <2>1. UNCHANGED <<file, meta>>
        BY <1>2 DEF Find, Schedule, files
    <2>2. \A n \in Name : IsValid(n)' <=> IsValid(n)
        BY <2>1 DEF IsValid, Described
    <2> QED BY <1>0, <1>2, <2>2, LatestIs
<1> QED BY <1>0, <1>1, <1>2 DEF WorkerGoesOn
----------------------------------------------------------------------------
(* The distance between backups.                                           *)

\* A name stays taken while there is a younger artifact.
LEMMA StaysTaken ==
    ASSUME MarkInv, PruneInv, SpaceInv, [Next]_vars, NEW m \in Name, Taken(m),
           NEW n \in Name, IsValid(n), m < n
    PROVE  Taken(m)'
<1>1. /\ Types /\ m \in Nat /\ n \in Nat /\ now \in Nat /\ backups \in Nat /\ Retention \in Nat
      /\ pruner.asof \in Nat
    BY NamesAreFinite, BackupsAssumption DEF MarkInv, Types, Pruner
<1>2. now' \in {now, now + 1} /\ backups' \in {backups, backups + 1}
    BY <1>1, Counters
<1>3. CASE Retention > 0 /\ m + Retention + 2 <= now + backups
    BY <1>1, <1>2, <1>3 DEF Taken
<1>4. CASE file[m] # None /\ file'[m] # None
    BY <1>4 DEF Taken
<1>5. CASE PruneRemove /\ m = pruner.name
    <2>1. Retention > 0 /\ pruner.asof <= now /\ m + Retention + 2 <= pruner.asof + backups
        BY <1>5 DEF PruneRemove, PruneInv, Pruning, Removing
    <2> QED BY <1>1, <1>2, <2>1 DEF Taken
<1>6. ~(BackupFails /\ worker.at = "describe" /\ m = worker.name)
    BY <1>1 DEF SpaceInv, Named
<1> QED BY <1>3, <1>4, <1>5, <1>6, FilesAre DEF Taken

\* A backup takes a name after those of all valid artifacts.
LEMMA TakesLaterName ==
    ASSUME Prompt, MarkInv, NameInv, SpaceInv, Prepare, NEW n \in Name, IsValid(n)
    PROVE  n < worker'.name
<1> SUFFICES ASSUME ~(n < worker'.name) PROVE FALSE
    OBVIOUS
<1>1. /\ Types /\ worker'.name \in Name /\ file[worker'.name] = None /\ worker.started <= worker'.name
      /\ worker.at = "prepare" /\ Backing
    BY PrepareTakes DEF MarkInv, Prepare, Backing
<1>2. /\ n \in Nat /\ worker'.name \in Nat /\ worker.started \in Nat /\ now \in Nat /\ backups \in Nat
      /\ Retention \in Nat /\ MaxDuration \in Nat /\ MaxBackups \in Nat /\ Interval \in Nat
      /\ meta[n].created \in Nat /\ meta[n].finalized \in Nat
    BY <1>1, NamesAreFinite, BackupsAssumption DEF Types, Worker, Sidecar
<1>3. file[n] # None /\ meta[n].bytes # None
    BY DEF IsValid, Described
<1>4. worker'.name < n
    <2>1. worker'.name # n
        BY <1>1, <1>3
    <2> QED BY <1>2, <2>1
<1>5. meta[n].created <= meta[n].finalized /\ meta[n].finalized + Interval <= worker.started
    BY <1>1, <1>3 DEF NameInv, SpaceInv
<1>6. Taken(worker'.name)
    <2>1. meta[n].created <= worker'.name
        BY <1>1, <1>2, <1>5
    <2> QED BY <1>1, <1>4, <2>1 DEF SpaceInv
<1>7. Retention > 0 /\ worker'.name + Retention + 2 <= now + backups
    BY <1>1, <1>6 DEF Taken
<1>8. now <= worker.started + MaxDuration /\ backups < MaxBackups
    BY <1>1 DEF NameInv, MarkInv, BytesInv
<1>9. MaxDuration + MaxBackups <= Retention + 2
    BY <1>7 DEF Prompt
<1> QED BY <1>1, <1>2, <1>7, <1>8, <1>9

LEMMA SpaceStep ==
    Prompt /\ MarkInv /\ NameInv /\ PruneInv /\ SpaceInv /\ [Next]_vars => SpaceInv'
<1> SUFFICES ASSUME Prompt, MarkInv, NameInv, PruneInv, SpaceInv, [Next]_vars PROVE SpaceInv'
    OBVIOUS
<1>0. /\ Types /\ Types' /\ WorkerGoesOn /\ Name \in SUBSET Nat /\ Interval \in Nat
      /\ worker.started \in Nat /\ now \in Nat
      /\ \A n \in Name : meta[n].created \in Nat /\ meta[n].finalized \in Nat
    BY TypesStep, WorkerGoes, NamesAreFinite, BackupsAssumption DEF MarkInv, Types, Worker, Sidecar
<1>1. WriteMetadata => ~Backing' /\ ~Named' /\ Backing /\ Named
    BY <1>0, BackupEnds DEF Backing, Named, WriteMetadata
<1>a. ASSUME NEW m \in Name, NEW n \in Name, IsValid(m)', IsValid(n)', m < n
      PROVE  meta'[m].finalized + Interval <= meta'[n].created
    <2>1. CASE IsValid(m) /\ meta'[m] = meta[m] /\ IsValid(n) /\ meta'[n] = meta[n]
        BY <1>a, <2>1 DEF SpaceInv
    <2>2. CASE /\ IsValid(m) /\ meta'[m] = meta[m] /\ WriteMetadata
               /\ meta'[n] = [bytes |-> worker.bytes, created |-> worker.started, finalized |-> now]
        BY <1>1, <2>2 DEF SpaceInv
    <2>3. CASE WriteMetadata /\ m = worker.name /\ (IsValid(n) \/ n = worker.name)
        BY <1>0, <1>1, <1>a, <2>3 DEF SpaceInv
    <2> QED BY <1>a, <2>1, <2>2, <2>3, NewlyValid
<1>b. ASSUME NEW n \in Name, NEW m \in Name, IsValid(n)', meta'[n].created <= m, m < n
      PROVE  Taken(m)'
    <2>1. CASE IsValid(n) /\ meta'[n] = meta[n]
        BY <1>b, <2>1, StaysTaken DEF SpaceInv
    <2>2. CASE /\ WriteMetadata /\ n = worker.name
               /\ meta'[n] = [bytes |-> worker.bytes, created |-> worker.started, finalized |-> now]
        BY <1>1, <1>b, <2>2 DEF NameInv, WriteMetadata, Taken
    <2> QED BY <1>b, <2>1, <2>2, NewlyValid
<1>c. ASSUME Backing', NEW n \in Name, IsValid(n)'
      PROVE  meta'[n].finalized + Interval <= worker'.started
    <2>1. IsValid(n) /\ meta'[n] = meta[n]
        BY <1>1, <1>c, NewlyValid
    <2>2. CASE Backing /\ worker'.started = worker.started
        BY <2>1, <2>2 DEF SpaceInv
    <2>3. CASE NeedsBackup /\ StartWorker("prepare")
        <3>1. n <= Latest.name /\ Latest.name \in Name /\ IsValid(Latest.name)
            BY <1>0, <2>1, LatestIs
        <3>2. meta[Latest.name].finalized + Interval <= now /\ worker'.started = now
            BY <1>0, <2>3, <3>1, Starts DEF NeedsBackup
        <3>3. CASE n = Latest.name
            BY <2>1, <3>2, <3>3
        <3>4. CASE n < Latest.name
            <4>1. meta[n].finalized + Interval <= meta[Latest.name].created
                BY <2>1, <3>1, <3>4 DEF SpaceInv
            <4>2. meta[Latest.name].created <= meta[Latest.name].finalized
                BY <3>1 DEF NameInv, IsValid, Described
            <4>3. /\ meta[Latest.name].created \in Nat /\ meta[Latest.name].finalized \in Nat
                  /\ meta[n].finalized \in Nat
                BY <1>0, <3>1
            <4> QED BY <1>0, <2>1, <3>2, <4>1, <4>2, <4>3
        <3> QED BY <1>0, <3>1, <3>3, <3>4
    <2> QED BY <1>0, <1>c, <2>2, <2>3 DEF WorkerGoesOn
<1>d. ASSUME Named', NEW n \in Name, IsValid(n)' PROVE n < worker'.name
    <2>1. IsValid(n)
        BY <1>1, <1>d, NewlyValid
    <2>2. CASE Prepare
        BY <2>1, <2>2, TakesLaterName
    <2>3. CASE Named /\ worker'.name = worker.name
        BY <2>1, <2>3 DEF SpaceInv
    <2> QED BY <1>0, <1>d, <2>2, <2>3 DEF WorkerGoesOn
<1> QED BY <1>a, <1>b, <1>c, <1>d DEF SpaceInv
----------------------------------------------------------------------------
(* The theorems that rest on the clock.                                    *)

LEMMA PromptInvInit == Init => PromptInv
<1> SUFFICES ASSUME Init PROVE PromptInv
    OBVIOUS
<1>1. \A n \in Name : file[n] = None /\ meta[n] = NoMeta /\ ~IsValid(n)
    BY DEF Init, IsValid, Described
<1>2. ~Backing /\ ~Uploading /\ ~Named /\ ~Written /\ ~Pruning /\ ~Removing /\ worker.at = "idle"
    BY DEF Init, IdleWorker, IdlePruner, Backing, Uploading, Named, Written, Pruning, Removing
<1>3. CountInv
    <2>1. Files = {} /\ backups = 0
        BY <1>1 DEF Files, Init
    <2> QED BY <1>2, <2>1, FS_EmptySet DEF CountInv
<1>4. NameInv
    BY <1>1, <1>2 DEF NameInv, NoMeta, Init
<1>5. PruneInv /\ NewestInv /\ SpaceInv
    BY <1>1, <1>2 DEF PruneInv, NewestInv, SpaceInv
<1> QED BY <1>3, <1>4, <1>5 DEF PromptInv

LEMMA PromptInvStep == Prompt /\ MarkInv /\ PromptInv /\ [Next]_vars => MarkInv' /\ PromptInv'
BY MarkInvStep, CountStep, NameStep, PruneStep, NewestStep, SpaceStep DEF PromptInv

LEMMA PromptInvHolds == ASSUME Prompt PROVE Spec => [](MarkInv /\ PromptInv)
<1>1. MarkInv /\ PromptInv /\ [Next]_vars => (MarkInv /\ PromptInv)'
    BY PromptInvStep
<1> QED BY <1>1, MarkInvInit, PromptInvInit, PTL DEF Spec

LEMMA RestorableIs ==
    /\ \A n : n \in Restorable <=> n \in Name /\ IsValid(n)
    /\ IsFiniteSet(Restorable) /\ Restorable \in SUBSET Nat
<1>1. \A n : n \in Restorable <=> n \in Name /\ IsValid(n)
    BY ValidIs DEF Restorable
<1>2. Restorable \subseteq Name
    BY DEF Restorable
<1> QED BY <1>1, <1>2, NamesAreFinite, FS_Subset

\* Whatever tick, worker, damage and restart do at the same time, the newest valid
\* artifact and its sidecar stay in the directory.
THEOREM NewestStays == ASSUME Prompt PROVE Spec => NewestValidPreserved
<1>1. ASSUME MarkInv, PromptInv, [Next]_vars,
             NEW n \in Restorable, n = Max(Restorable)
      PROVE  file'[n] # None /\ meta'[n] = meta[n]
    <2>1. n \in Name /\ IsValid(n) /\ \A m \in Name : IsValid(m) => m <= n
        BY <1>1, RestorableIs, MaxIsGreatest
    <2>2. file[n] # None /\ Bad # None
        BY <2>1, BackupsAssumption DEF IsValid, Described, Bad, None
    <2>3. ~(Removing /\ n = pruner.name)
        <3>1. n \in Nat /\ \A m \in Name : m \in Nat
            BY <2>1, NamesAreFinite
        <3> QED BY <1>1, <2>1, <3>1, NewestIsKept DEF PromptInv
    <2> QED BY <1>1, <2>1, <2>2, <2>3, StaysValid
<1>2. MarkInv /\ PromptInv /\ [Next]_vars =>
        (\A n \in Restorable : n = Max(Restorable) => file'[n] # None /\ meta'[n] = meta[n])
    BY <1>1
<1> QED BY <1>2, PromptInvHolds, PTL DEF Spec, NewestValidPreserved

\* The artifact that is being uploaded is neither pruned nor changed meanwhile.
THEOREM UploadSourceStays == ASSUME Prompt PROVE Spec => UploadSourceKept
<1>1. ASSUME MarkInv, PromptInv, [Next]_vars, worker.at \in {"upload", "mark"}
      PROVE  file'[worker.artifact.name] = file[worker.artifact.name]
    <2>1. /\ worker.artifact.name \in Name /\ IsValid(worker.artifact.name)
          /\ \A m \in Name : IsValid(m) => m <= worker.artifact.name
        BY <1>1 DEF MarkInv, StoreInv, PromptInv, NewestInv, Uploading
    <2>2. ~(Removing /\ worker.artifact.name = pruner.name)
        <3>1. worker.artifact.name \in Nat /\ \A m \in Name : m \in Nat
            BY <2>1, NamesAreFinite
        <3> QED BY <1>1, <2>1, <3>1, NewestIsKept DEF PromptInv
    <2>3. worker.at # "idle"
        BY <1>1
    <2> QED BY <1>1, <2>1, <2>2, <2>3, StaysValid
<1>2. MarkInv /\ PromptInv /\ [Next]_vars =>
        (worker.at \in {"upload", "mark"} => file'[worker.artifact.name] = file[worker.artifact.name])
    BY <1>1
<1> QED BY <1>2, PromptInvHolds, PTL DEF Spec, UploadSourceKept

\* A backup begins at least an interval after every artifact that a restore could use was
\* finalized, although uploads are repeated and the process is started again.
THEOREM BackupsAreSpaced == ASSUME Prompt PROVE Spec => []SpacedByInterval
<1>1. MarkInv /\ PromptInv => SpacedByInterval
    BY RestorableIs DEF PromptInv, SpaceInv, SpacedByInterval
<1> QED BY <1>1, PromptInvHolds, PTL
=============================================================================
