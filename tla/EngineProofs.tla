---------------------------- MODULE EngineProofs ----------------------------
(***************************************************************************)
(* Proofs about the two engines, the runs of the Kubernetes runtime and    *)
(* the log of a runtime container.  For any number of containers,          *)
(* destinations, entries and workloads, and whichever of their calls fail, *)
(* also those that fail after they were carried out: what a job reports of *)
(* a backup, of a restored target and of the containers or workloads       *)
(* around it is what became of it, and a backup file is not removed before *)
(* every destination has it.  And for any text, cut into any chunks: no    *)
(* secret stands whole in the log that is handed on.                       *)
(***************************************************************************)
EXTENDS MCComponents, LiveFileProofs, StorageProofs, SetInduction,
        FiniteSetTheorems, TLAPS

-----------------------------------------------------------------------------
(* BackupRun: the invariant.                                               *)

(* Where a good result leaves the backup when the strategy is done.        *)
MadeWell ==
  IF plan.strategy = "tar" THEN stored = {} ELSE stored = {Repository}

(* Files: nothing is made before the strategy runs, and the unencrypted    *)
(* file is not removed before there is an encrypted one.                   *)
BackupFiles ==
  /\ run.at \in {"discover", "stop", "make"} => local = {}
  /\ run.at \in {"encrypt", "swap"} => plan.gpg
  /\ run.at = "swap" => "cipher" \in local

(* Nothing is stored before the strategy runs; after it a good result has  *)
(* stored what it should; and what was gone through in the upload is       *)
(* stored.                                                                 *)
BackupPlaces ==
  /\ run.at \in {"discover", "stop", "make", "encrypt", "swap"} => stored = {}
  /\ run.at \in {"encrypt", "swap", "upload"} => plan.strategy = "tar"
  /\ run.at \in {"after", "start"} /\ good => MadeWell
  /\ run.at = "upload" =>
       /\ stored \subseteq plan.uploads /\ run.todo \subseteq plan.uploads
       /\ good => plan.uploads \subseteq stored \union run.todo
  /\ run.at = "end" /\ good =>
       /\ stored # {}
       /\ stored = IF plan.strategy = "tar" THEN plan.uploads ELSE {Repository}

(* As long as the result is good, each container that was stopped runs     *)
(* again or is still to be started.                                        *)
BackupRestarts ==
  /\ run.at = "start" /\ good =>
       \A c \in down : c \in run.todo \/ service[c] = "running"
  /\ run.at \in {"upload", "end"} /\ good =>
       \A c \in down : service[c] = "running"

BackupInv ==
  /\ plan \in BackupPlan
  /\ service = [c \in Service |-> service[c]] /\ down \subseteq Service
  /\ BackupFiles /\ BackupPlaces /\ BackupRestarts
  /\ report # "pending" => run.at \in {"end", "killed"}
  /\ report = "succeeded" => run.at = "end" /\ good

(* The place of the engine is a record.                                    *)
RunRecord == run = [at |-> run.at, todo |-> run.todo]

\* It stays one.
LEMMA RunRecordStep ==
  ASSUME RunRecord, [BackupNext]_backupVars
  PROVE  RunRecord'
<1>1. CASE UNCHANGED run
  BY <1>1 DEF RunRecord
<1>2. CASE \E p, todo : run' = [at |-> p, todo |-> todo]
  BY <1>2 DEF RunRecord
<1>3. CASE \E x : run' = [run EXCEPT !.todo = @ \ {x}]
  BY <1>3 DEF RunRecord
<1>4. QED
  <2>1. ASSUME NEW c \in Service, StopService(c) \/ StartService(c)
        PROVE  run' = [run EXCEPT !.todo = @ \ {c}]
    BY <2>1 DEF StopService, StartService, Ticked
  <2>2. ASSUME NEW d \in Destination, Upload(d)
        PROVE  run' = [run EXCEPT !.todo = @ \ {d}]
    BY <2>2 DEF Upload, Ticked
  <2>3. CASE Report \/ RemoveRuntime \/ UNCHANGED backupVars
    BY <1>1, <2>3 DEF Report, RemoveRuntime, backupVars
  <2>4. CASE \/ Discover \/ Before \/ ResticBackup \/ Tarball \/ Encrypt
             \/ RemovePlain \/ After \/ Started \/ CleanupArtifact \/ KillRun
    <3>1. \E p, todo : run' = [at |-> p, todo |-> todo]
      BY <2>4, Zenon
      DEF Discover, Before, ResticBackup, Tarball, Encrypt, RemovePlain, After,
          Started, CleanupArtifact, KillRun, Fails, To, Through
    <3>2. QED
      BY <1>2, <3>1
  <2>5. QED
    BY <1>3, <2>1, <2>2, <2>3, <2>4 DEF BackupNext

\* The invariant holds at first.
LEMMA BackupInvInit == BackupInit => BackupInv
  BY DEF BackupInit, BackupInv, BackupFiles, BackupPlaces, BackupRestarts,
         MadeWell

\* Containers are stopped, before anything is made.
LEMMA StopKeeps ==
  ASSUME BackupInv, RunRecord, Discover \/ Before \/ \E c \in Service : StopService(c)
  PROVE  BackupInv'
<1> USE DEF BackupInv, BackupFiles, BackupPlaces, BackupRestarts, In, To,
            Through, Ticked, RunRecord
<1>1. CASE Discover
  BY <1>1 DEF Discover
<1>2. CASE Before
  BY <1>2 DEF Before, Fails
<1>3. ASSUME NEW c \in Service, StopService(c)
      PROVE  BackupInv'
  <2>1. run.at = "stop" /\ run'.at = "stop"
    BY <1>3 DEF StopService
  <2>2. service' = [d \in Service |-> service'[d]]
    BY <1>3 DEF StopService
  <2>3. QED
    BY <1>3, <2>1, <2>2 DEF StopService
<1>4. QED
  BY <1>1, <1>2, <1>3

\* The backup is made.
LEMMA MakeKeeps ==
  ASSUME BackupInv,
         ResticBackup \/ Tarball \/ Encrypt \/ RemovePlain \/ After
  PROVE  BackupInv'
<1> USE DEF BackupInv, BackupFiles, BackupPlaces, BackupRestarts, MadeWell, In,
            To, Through
<1>0. plan.strategy \in {"tar", "restic"}
  BY DEF BackupPlan
<1>1. CASE ResticBackup
  BY <1>0, <1>1 DEF ResticBackup
<1>2. CASE Tarball
  BY <1>0, <1>2 DEF Tarball
<1>3. CASE Encrypt
  BY <1>0, <1>3 DEF Encrypt
<1>4. CASE RemovePlain
  BY <1>0, <1>4 DEF RemovePlain
<1>5. CASE After
  BY <1>0, <1>5 DEF After, Fails
<1>6. QED
  BY <1>1, <1>2, <1>3, <1>4, <1>5

\* Containers are started again.
LEMMA RestartKeeps ==
  ASSUME BackupInv, RunRecord, Started \/ \E c \in Service : StartService(c)
  PROVE  BackupInv'
<1> USE DEF BackupInv, BackupFiles, BackupPlaces, BackupRestarts, MadeWell, In,
            To, Through, Ticked, RunRecord
<1>1. CASE Started
  <2>1. plan.strategy \in {"tar", "restic"}
    BY DEF BackupPlan
  <2>2. QED
    BY <1>1, <2>1 DEF Started
<1>2. ASSUME NEW c \in Service, StartService(c)
      PROVE  BackupInv'
  <2>1. /\ run.at = "start" /\ run'.at = "start" /\ run'.todo = run.todo \ {c}
        /\ UNCHANGED <<plan, down, local, stored, report>>
    BY <1>2 DEF StartService
  <2>2. service' = [d \in Service |-> service'[d]]
    BY <1>2 DEF StartService
  <2>3. good' => /\ good
                 /\ \A d \in Service :
                      service'[d] = IF d = c THEN "running" ELSE service[d]
    BY <1>2 DEF StartService
  <2>4. QED
    BY <1>2, <2>1, <2>2, <2>3
<1>3. QED
  BY <1>1, <1>2

\* The backup is uploaded, and the local file removed.
LEMMA UploadKeeps ==
  ASSUME BackupInv, RunRecord, CleanupArtifact \/ \E d \in Destination : Upload(d)
  PROVE  BackupInv'
<1> USE DEF BackupInv, BackupFiles, BackupPlaces, BackupRestarts, In, To,
            Through, Ticked, RunRecord
<1>1. CASE CleanupArtifact
  <2>1. /\ run.at = "upload" /\ run.todo = {} /\ run'.at = "end"
        /\ good' => good /\ plan.uploads # {}
        /\ UNCHANGED <<plan, service, down, stored, report>>
    BY <1>1 DEF CleanupArtifact
  <2>2. good' => stored = plan.uploads
    BY <2>1
  <2>3. QED
    BY <2>1, <2>2
<1>2. ASSUME NEW d \in Destination, Upload(d)
      PROVE  BackupInv'
  <2>1. /\ run.at = "upload" /\ run'.at = "upload" /\ run'.todo = run.todo \ {d}
        /\ d \in run.todo /\ stored' \in {stored, stored \union {d}}
        /\ good' => good /\ stored' = stored \union {d}
        /\ UNCHANGED <<plan, service, down, local, report>>
    BY <1>2 DEF Upload
  <2>2. /\ stored' \subseteq plan.uploads
        /\ good' => plan.uploads \subseteq stored' \union run'.todo
    BY <2>1
  <2>3. QED
    BY <2>1, <2>2
<1>3. QED
  BY <1>1, <1>2

\* Every step keeps the invariant.
LEMMA BackupInvStep ==
  ASSUME BackupInv, RunRecord, [BackupNext]_backupVars
  PROVE  BackupInv'
<1>1. CASE UNCHANGED backupVars
  BY <1>1 DEF backupVars, BackupInv, BackupFiles, BackupPlaces, BackupRestarts,
              MadeWell
<1>2. CASE Report \/ KillRun \/ RemoveRuntime
  BY <1>2 DEF Report, KillRun, RemoveRuntime, BackupInv, BackupFiles,
              BackupPlaces, BackupRestarts, MadeWell, In, To
<1>3. QED
  BY <1>1, <1>2, StopKeeps, MakeKeeps, RestartKeeps, UploadKeeps DEF BackupNext

\* The invariant holds in every state that can be reached.
LEMMA BackupInvariant == BackupSpec => []BackupInv
<1>1. BackupInit => RunRecord
  BY DEF BackupInit, RunRecord
<1>2. BackupInv /\ RunRecord /\ [BackupNext]_backupVars
        => BackupInv' /\ RunRecord'
  BY BackupInvStep, RunRecordStep
<1>3. QED
  BY BackupInvInit, <1>1, <1>2, PTL DEF BackupSpec

\* A backup that is reported as a success is stored wherever it was asked
\* for, and the containers that were stopped for it run.
THEOREM BackupReportsAreReal == BackupSpec => []ReportedBackupIsReal
<1>1. BackupInv => ReportedBackupIsReal
  BY DEF BackupInv, BackupPlaces, BackupRestarts, ReportedBackupIsReal
<1>2. QED
  BY BackupInvariant, <1>1, PTL

\* No step of an engine that still runs removes the last copy of a backup.
THEOREM LastCopiesAreKept == BackupSpec => LastCopyIsKept
<1> DEFINE Keeps ==
      report = "pending" =>
        \A f \in local \ local' :
          \/ f # File(plan) /\ File(plan) \in local
          \/ plan.uploads \subseteq stored
<1>1. ASSUME BackupInv, [BackupNext]_backupVars
      PROVE  [Keeps]_backupVars
  <2>1. CASE UNCHANGED local \/ local \subseteq local' \/ local = {}
    BY <2>1
  <2>2. CASE RemovePlain
    BY <1>1, <2>2 DEF RemovePlain, BackupInv, BackupFiles, File, In
  <2>3. CASE CleanupArtifact
    BY <1>1, <2>3 DEF CleanupArtifact, BackupInv, BackupPlaces, In
  <2>4. CASE Tarball
    BY <1>1, <2>1, <2>4 DEF Tarball, BackupInv, BackupFiles, In
  <2>5. CASE RemoveRuntime
    BY <2>5 DEF RemoveRuntime
  <2>6. QED
    BY <1>1, <2>1, <2>2, <2>3, <2>4, <2>5
    DEF BackupNext, backupVars, Discover, Before, ResticBackup, Encrypt, After,
        Started, Report, KillRun, StopService, StartService, Upload
<1>2. QED
  BY BackupInvariant, <1>1, PTL DEF BackupSpec, LastCopyIsKept

-----------------------------------------------------------------------------
(* BackupRun: types.                                                       *)

BackupTypes == RunRecord /\ BackupTypeOK

\* Every step of a backup keeps the types.
LEMMA BackupTypesStep ==
  ASSUME BackupTypes, [BackupNext]_backupVars
  PROVE  BackupTypes'
<1> USE DEF BackupTypes, BackupTypeOK, RunRecord, In, To, Through, Ticked
<1>1. CASE UNCHANGED backupVars
  BY <1>1 DEF backupVars
<1>2. CASE Discover
  <2>1. PICK S \in {{}, {c \in Service : service[c] = "running"}} :
          run' = [at |-> "stop", todo |-> IF plan.cold THEN S ELSE {}]
    BY <1>2 DEF Discover
  <2>2. run'.todo \subseteq Service
    BY <2>1
  <2>3. QED
    BY <1>2, <2>1, <2>2 DEF Discover
<1>3. ASSUME NEW c \in Service, StopService(c) \/ StartService(c)
      PROVE  BackupTypes'
  <2>1. RunRecord' /\ run'.todo \subseteq run.todo
    BY <1>3 DEF StopService, StartService
  <2>2. service' \in [Service -> {"running", "stopped"}]
    BY <1>3 DEF StopService, StartService
  <2>3. down' \subseteq Service /\ good' \in BOOLEAN
    BY <1>3 DEF StopService, StartService
  <2>4. UNCHANGED <<plan, local, stored, report>>
    BY <1>3 DEF StopService, StartService
  <2>5. QED
    BY <2>1, <2>2, <2>3, <2>4
<1>4. ASSUME NEW d \in Destination, Upload(d)
      PROVE  BackupTypes'
  <2>1. RunRecord' /\ run'.todo \subseteq run.todo
    BY <1>4 DEF Upload
  <2>2. stored' \subseteq Destination \union {Repository} /\ good' \in BOOLEAN
    BY <1>4 DEF Upload
  <2>3. UNCHANGED <<plan, service, down, local, report>>
    BY <1>4 DEF Upload
  <2>4. QED
    BY <2>1, <2>2, <2>3
<1>5. CASE Before \/ After
  <2>1. \E p : \E todo \in SUBSET Service : run' = [at |-> p, todo |-> todo]
    BY <1>5 DEF Before, After, Fails
  <2>2. good' \in BOOLEAN /\ UNCHANGED <<plan, service, down, local, stored, report>>
    BY <1>5 DEF Before, After, Fails
  <2>3. RunRecord' /\ run'.todo \subseteq Service
    BY <2>1
  <2>4. QED
    BY <2>2, <2>3
<1>6. CASE ResticBackup \/ Tarball \/ Encrypt \/ RemovePlain
  <2>1. \E p : run' = [at |-> p, todo |-> {}]
    BY <1>6 DEF ResticBackup, Tarball, Encrypt, RemovePlain
  <2>2. RunRecord' /\ run'.todo = {}
    BY <2>1
  <2>3. local' \subseteq {"plain", "cipher"} /\ good' \in BOOLEAN
    BY <1>6 DEF ResticBackup, Tarball, Encrypt, RemovePlain
  <2>4. stored' \subseteq Destination \union {Repository}
    BY <1>6 DEF ResticBackup, Tarball, Encrypt, RemovePlain
  <2>5. UNCHANGED <<plan, service, down, report>>
    BY <1>6 DEF ResticBackup, Tarball, Encrypt, RemovePlain
  <2>6. QED
    BY <2>2, <2>3, <2>4, <2>5
<1>7. CASE Started \/ CleanupArtifact
  <2>1. plan.uploads \subseteq Destination
    BY DEF BackupPlan
  <2>2. \E p : \E todo \in SUBSET Destination : run' = [at |-> p, todo |-> todo]
    BY <1>7, <2>1 DEF Started, CleanupArtifact
  <2>3. RunRecord' /\ run'.todo \subseteq Destination
    BY <2>2
  <2>4. local' \subseteq {"plain", "cipher"} /\ good' \in BOOLEAN
    BY <1>7 DEF Started, CleanupArtifact
  <2>5. UNCHANGED <<plan, service, down, stored, report>>
    BY <1>7 DEF Started, CleanupArtifact
  <2>6. QED
    BY <2>3, <2>4, <2>5
<1>8. CASE Report \/ KillRun \/ RemoveRuntime
  BY <1>8 DEF Report, KillRun, RemoveRuntime
<1>9. QED
  BY <1>1, <1>2, <1>3, <1>4, <1>5, <1>6, <1>7, <1>8 DEF BackupNext

\* What a backup keeps is of its type: whatever fails, the engine has only
\* containers and destinations to go through (BackupEngine.run).
THEOREM BackupTypeCorrect == BackupSpec => []BackupTypeOK
<1>1. BackupInit => BackupTypes
  BY DEF BackupInit, BackupTypes, BackupTypeOK, RunRecord
<1>2. BackupTypes /\ [BackupNext]_backupVars => BackupTypes'
  BY BackupTypesStep
<1>3. BackupTypes => BackupTypeOK
  BY DEF BackupTypes
<1>4. QED
  BY <1>1, <1>2, <1>3, PTL DEF BackupSpec

-----------------------------------------------------------------------------
(* RestoreRun: the invariant.                                              *)

(* What a report says of the target and of the containers is so.           *)
Holds(r) ==
  /\ r.destroyed = "none" => Untouched
  /\ r.ok => IF asked.mode = "dryRun" THEN Untouched
             ELSE \A e \in Entry : Restored(e)
  /\ r.ok \/ r.restart = "succeeded" =>
       \A c \in stopped : container[c] = "running"

(* The target as the engine goes through it, in either layout.             *)
TargetPlace ==
  /\ outcome.destroyed = "none" => Untouched
  /\ engine.at \in {"plan", "gate", "stop", "download", "check", "extract"} =>
       outcome.destroyed = "none"
  /\ engine.at = "extract" => asked.layout = "backupDir"
  /\ engine.at \in {"walk", "copy"} =>
       /\ asked.layout = "backupDir" /\ outcome.destroyed = "partial"
       /\ engine.todo \subseteq Entry
       /\ \A e \in Entry \ engine.todo : Restored(e)
  /\ engine.at = "walk" => \A e \in engine.todo : content[e] = "old"
  /\ engine.at = "copy" =>
       \A e \in engine.todo :
         content[e] # "old" =>
           /\ e \notin asked.readOnly
           /\ \A f \in engine.todo \ {e} : content[f] = "old"
  /\ engine.at \in {"clear", "unpack"} =>
       asked.layout = "direct" /\ outcome.destroyed = "partial"
  /\ engine.at = "clear" => \A e \in Entry \ engine.todo : content[e] = "empty"
  /\ engine.at = "unpack" =>
       /\ engine.todo \subseteq asked.archive
       /\ \A e \in Entry \ engine.todo :
            content[e] = IF e \in asked.archive THEN "new" ELSE "empty"
  /\ engine.at = "chown" =>
       outcome.destroyed = "partial" /\ \A e \in Entry : Restored(e)
  /\ engine.at \in {"cleanup", "start"} /\ outcome.ok =>
       \A e \in Entry : Restored(e)

(* The containers, and what is noted of their restart.                     *)
RestartPlace ==
  /\ engine.at = "plan" => stopped = {}
  /\ engine.at \in {"gate", "stop", "download", "check", "extract", "walk",
                    "copy", "clear", "unpack", "chown", "cleanup", "start"} =>
       asked.mode = "forced"
  /\ engine.at \notin {"start", "write", "exited", "killed"} =>
       outcome.restart = "notRequested"
  /\ engine.at = "start" =>
       /\ outcome.restart \in {"notRequested", "failed"}
       /\ outcome.ok => outcome.restart # "failed"
       /\ outcome.restart # "failed" =>
            \A c \in stopped : c \in engine.todo \/ container[c] = "running"

(* The report on its way: outcome, result file, job result.                *)
ReportPlace ==
  /\ engine.at = "write" => Holds(outcome)
  /\ evidence \in Outcome \union {NoEvidence}
  /\ engine.at # "exited" => evidence = NoEvidence
  /\ verdict = Pending => Holds(evidence) /\ engine.at # "killed"
  /\ verdict # Pending => engine.at \in {"exited", "killed"}
  /\ Holds(verdict)

RestoreInv ==
  /\ asked \in Asked /\ stopped \subseteq Container
  /\ container = [c \in Container |-> container[c]]
  /\ content = [e \in Entry |-> content[e]]
  /\ outcome \in Outcome
  /\ TargetPlace /\ RestartPlace /\ ReportPlace

(* The place of the engine is a record.                                    *)
EngineRecord == engine = [at |-> engine.at, todo |-> engine.todo]

\* It stays one.
LEMMA EngineRecordStep ==
  ASSUME EngineRecord, [RestoreNext]_restoreVars
  PROVE  EngineRecord'
<1>1. CASE UNCHANGED engine
  BY <1>1 DEF EngineRecord
<1>2. CASE \E p, todo : engine' = [at |-> p, todo |-> todo]
  BY <1>2 DEF EngineRecord
<1>3. CASE \E x : engine' = [engine EXCEPT !.todo = @ \ {x}]
  BY <1>3 DEF EngineRecord
<1>4. CASE engine' = [engine EXCEPT !.at = "copy"]
  BY <1>4 DEF EngineRecord
<1>5. CASE /\ \A p : Enters(p) => \E q, todo : engine' = [at |-> q, todo |-> todo]
           /\ \A p, todo : EntersWith(p, todo)
                => \E q, r : engine' = [at |-> q, todo |-> r]
  <2>1. ASSUME NEW c \in Container, StopOne(c) \/ StartOne(c)
        PROVE  EngineRecord'
    BY <1>2, <1>3, <1>5, <2>1 DEF StopOne, StartOne, Done
  <2>2. ASSUME NEW e \in Entry, ClearEntry(e) \/ CopyEntry(e) \/ UnpackEntry(e)
        PROVE  EngineRecord'
    BY <1>2, <1>3, <1>4, <1>5, <2>2
    DEF ClearEntry, CopyEntry, UnpackEntry, Done, Raise
  <2>3. CASE UNCHANGED restoreVars \/ ReadResult
    BY <1>1, <2>3 DEF restoreVars, ReadResult
  <2>4. CASE \/ PlanRestore \/ Gate \/ StopsDone \/ StartsDone \/ FetchArchive
             \/ Check \/ Extract \/ EntriesDone \/ Chown \/ Cleanup
             \/ WriteResult \/ Kill
    BY <1>2, <1>5, <2>4
    DEF PlanRestore, Gate, StopsDone, StartsDone, FetchArchive, Check, Extract,
        EntriesDone, Chown, Cleanup, WriteResult, Kill, Refuse, Raise
  <2>5. QED
    BY <2>1, <2>2, <2>3, <2>4 DEF RestoreNext
<1>6. QED
  BY <1>5, Zenon DEF Enters, EntersWith

\* The invariant holds at first.
LEMMA RestoreInvInit == RestoreInit => RestoreInv
  BY DEF RestoreInit, RestoreInv, TargetPlace, RestartPlace, ReportPlace, Holds,
         Untouched, Outcome, NoEvidence, Pending, Container

\* A report that says nothing is never wrong.
LEMMA NothingIsSaid ==
  /\ Holds(NoEvidence) /\ Holds(Pending)
  /\ NoEvidence # Pending
  BY DEF Holds, NoEvidence, Pending

\* As long as the engine runs, its result file is not written, and the worker
\* has nothing to report.
LEMMA BeforeTheEnd ==
  ASSUME RestoreInv, engine.at \notin {"exited", "killed"}
  PROVE  evidence = NoEvidence /\ verdict = Pending
  BY DEF RestoreInv, ReportPlace

\* A step of the engine up to the restart that leaves report and result file
\* alone keeps what is said of them.
LEMMA ReportWaits ==
  ASSUME RestoreInv, engine.at \notin {"exited", "killed"},
         engine'.at \notin {"write", "killed"},
         UNCHANGED <<evidence, verdict>>
  PROVE  ReportPlace'
<1>1. evidence' = NoEvidence /\ verdict' = Pending
  BY BeforeTheEnd
<1>2. Holds(evidence)' /\ Holds(verdict)'
  BY <1>1 DEF Holds, NoEvidence, Pending
<1>3. QED
  BY <1>1, <1>2 DEF ReportPlace, NoEvidence, Pending

\* The same for a step to the result file, when what it will say is so.
LEMMA ReportIsReady ==
  ASSUME RestoreInv, engine.at \notin {"exited", "killed"},
         engine'.at = "write", Holds(outcome)',
         UNCHANGED <<evidence, verdict>>
  PROVE  ReportPlace'
<1>1. evidence' = NoEvidence /\ verdict' = Pending
  BY BeforeTheEnd
<1>2. Holds(evidence)' /\ Holds(verdict)'
  BY <1>1 DEF Holds, NoEvidence, Pending
<1>3. QED
  BY <1>1, <1>2 DEF ReportPlace, NoEvidence, Pending

\* An error, after which the finally clause comes.
LEMMA Raised ==
  ASSUME RestoreInv, Raise, UNCHANGED <<asked, container, stopped>>,
         engine.at \in {"download", "check", "extract", "walk", "copy",
                        "clear", "unpack", "chown"},
         content' = [e \in Entry |-> content'[e]],
         outcome.destroyed = "none" => UNCHANGED content,
         UNCHANGED <<evidence, verdict>>
  PROVE  RestoreInv'
<1>1. /\ outcome' \in Outcome /\ outcome'.ok = FALSE
      /\ outcome'.destroyed = outcome.destroyed
      /\ outcome'.restart = outcome.restart
      /\ engine'.at = "cleanup"
  BY DEF Raise, RestoreInv, Outcome, Enters
<1>2. TargetPlace'
  BY <1>1 DEF RestoreInv, TargetPlace, Untouched
<1>3. RestartPlace'
  BY <1>1 DEF RestoreInv, RestartPlace
<1>4. ReportPlace'
  BY <1>1, ReportWaits
<1>5. QED
  BY <1>1, <1>2, <1>3, <1>4 DEF RestoreInv

\* Before the target is touched.
LEMMA PlanKeeps ==
  ASSUME RestoreInv, PlanRestore \/ Gate
  PROVE  RestoreInv'
<1>1. /\ UNCHANGED <<asked, container, content, stopped, evidence, verdict>>
      /\ engine.at \in {"plan", "gate"}
  BY DEF PlanRestore, Gate, Here
<1>2. Untouched /\ outcome.destroyed = "none" /\ outcome.restart = "notRequested"
  BY <1>1 DEF RestoreInv, TargetPlace, RestartPlace
<1>3. CASE Refuse
  <2>1. /\ outcome' \in Outcome /\ outcome'.ok = FALSE
        /\ outcome'.destroyed = "none" /\ outcome'.restart = "notRequested"
        /\ engine'.at = "write"
    BY <1>2, <1>3 DEF Refuse, RestoreInv, Outcome, Enters
  <2>2. TargetPlace' /\ RestartPlace'
    BY <1>1, <1>2, <2>1 DEF TargetPlace, RestartPlace, Untouched
  <2>3. Holds(outcome)'
    BY <1>1, <1>2, <2>1 DEF Holds, Untouched
  <2>4. QED
    BY <1>1, <2>1, <2>2, <2>3, ReportIsReady DEF RestoreInv
<1>4. CASE /\ asked.mode = "dryRun" /\ Here("plan") /\ Enters("write")
           /\ UNCHANGED outcome
  <2>1. stopped = {} /\ engine'.at = "write"
    BY <1>4 DEF RestoreInv, RestartPlace, Here, Enters
  <2>2. TargetPlace' /\ RestartPlace'
    BY <1>1, <1>2, <1>4, <2>1 DEF TargetPlace, RestartPlace, Untouched
  <2>3. Holds(outcome)'
    BY <1>1, <1>2, <1>4, <2>1 DEF Holds, Untouched
  <2>4. QED
    BY <1>1, <1>4, <2>1, <2>2, <2>3, ReportIsReady DEF RestoreInv
<1>5. ASSUME engine'.at \in {"gate", "stop"}, UNCHANGED outcome,
             asked.mode = "forced"
      PROVE  RestoreInv'
  <2>1. TargetPlace' /\ RestartPlace'
    BY <1>1, <1>2, <1>5 DEF TargetPlace, RestartPlace, Untouched
  <2>2. QED
    BY <1>1, <1>5, <2>1, ReportWaits DEF RestoreInv
<1>6. QED
  <2>1. engine.at = "gate" => asked.mode = "forced"
    BY DEF RestoreInv, RestartPlace
  <2>2. CASE PlanRestore
    BY <1>3, <1>4, <1>5, <2>2 DEF PlanRestore, EntersWith
  <2>3. CASE Gate
    BY <1>3, <1>5, <2>1, <2>3 DEF Gate, EntersWith, Here
  <2>4. QED
    BY <2>2, <2>3

\* Containers are stopped, and the archive is fetched.
LEMMA PrepareKeeps ==
  ASSUME RestoreInv, EngineRecord,
         StopsDone \/ FetchArchive \/ \E c \in Container : StopOne(c)
  PROVE  RestoreInv'
<1>1. /\ UNCHANGED <<asked, content, evidence, verdict>>
      /\ engine.at \in {"stop", "download"}
  BY DEF StopsDone, FetchArchive, StopOne, Here
<1>2. /\ Untouched /\ outcome.destroyed = "none" /\ asked.mode = "forced"
      /\ outcome.restart = "notRequested"
  BY <1>1 DEF RestoreInv, TargetPlace, RestartPlace
<1>3. ASSUME engine'.at \in {"stop", "download", "check", "exited"},
             UNCHANGED outcome, stopped' \subseteq Container,
             container' = [c \in Container |-> container'[c]]
      PROVE  RestoreInv'
  <2>1. TargetPlace' /\ RestartPlace'
    BY <1>1, <1>2, <1>3 DEF TargetPlace, RestartPlace, Untouched
  <2>2. QED
    BY <1>1, <1>3, <2>1, ReportWaits DEF RestoreInv
<1>4. CASE StopsDone
  BY <1>3, <1>4 DEF StopsDone, Enters, RestoreInv
<1>5. CASE FetchArchive
  <2>1. CASE Raise
    BY <1>5, <1>1, <2>1, Raised DEF FetchArchive, Here, RestoreInv
  <2>2. CASE Enters("check") /\ UNCHANGED outcome
    BY <1>3, <1>5, <2>2 DEF FetchArchive, Enters, RestoreInv
  <2>3. QED
    BY <1>5, <2>1, <2>2 DEF FetchArchive
<1>6. ASSUME NEW c \in Container, StopOne(c)
      PROVE  RestoreInv'
  <2>1. UNCHANGED outcome /\ stopped' \subseteq Container
    BY <1>6 DEF StopOne, RestoreInv
  <2>2. container' = [d \in Container |-> container'[d]]
    BY <1>6 DEF StopOne, RestoreInv
  <2>3. engine'.at \in {"stop", "exited"}
    <3>1. CASE Enters("exited")
      BY <3>1 DEF Enters
    <3>2. CASE Done(c)
      BY <1>6, <3>2 DEF StopOne, Done, Here, EngineRecord
    <3>3. QED
      BY <1>6, <3>1, <3>2 DEF StopOne
  <2>4. QED
    BY <1>3, <2>1, <2>2, <2>3
<1>7. QED
  BY <1>4, <1>5, <1>6

\* The target is about to be touched, and the outcome says so first.
LEMMA BeginKeeps ==
  ASSUME RestoreInv, Check \/ Extract
  PROVE  RestoreInv'
<1>1. /\ UNCHANGED <<asked, container, content, stopped, evidence, verdict>>
      /\ engine.at \in {"check", "extract"}
  BY DEF Check, Extract, Here
<1>2. /\ Untouched /\ outcome.destroyed = "none" /\ asked.mode = "forced"
      /\ outcome.restart = "notRequested" /\ outcome.ok \in BOOLEAN
  BY <1>1 DEF RestoreInv, TargetPlace, RestartPlace, Outcome
<1>3. CASE Raise
  BY <1>1, <1>3, Raised DEF RestoreInv
<1>4. CASE Check /\ ~Raise
  <2>1. CASE /\ asked.layout = "direct" /\ EntersWith("clear", Entry)
             /\ outcome' = [outcome EXCEPT !.destroyed = "partial"]
    <3>1. /\ engine'.at = "clear" /\ engine'.todo = Entry
          /\ outcome' \in Outcome /\ outcome'.destroyed = "partial"
          /\ outcome'.restart = outcome.restart
      BY <2>1 DEF EntersWith, RestoreInv, Outcome
    <3>2. TargetPlace' /\ RestartPlace'
      BY <1>1, <1>2, <2>1, <3>1 DEF TargetPlace, RestartPlace
    <3>3. QED
      BY <1>1, <3>1, <3>2, ReportWaits DEF RestoreInv
  <2>2. CASE /\ asked.layout = "backupDir" /\ Enters("extract")
             /\ UNCHANGED outcome
    <3>1. engine'.at = "extract"
      BY <2>2 DEF Enters
    <3>2. TargetPlace' /\ RestartPlace'
      BY <1>1, <1>2, <2>2, <3>1 DEF TargetPlace, RestartPlace, Untouched
    <3>3. QED
      BY <1>1, <2>2, <3>1, <3>2, ReportWaits DEF RestoreInv
  <2>3. QED
    BY <1>4, <2>1, <2>2 DEF Check
<1>5. CASE Extract /\ ~Raise
  <2>1. /\ engine.at = "extract" /\ engine'.at = "walk" /\ engine'.todo = Entry
        /\ outcome' = [outcome EXCEPT !.destroyed = "partial"]
    BY <1>5 DEF Extract, Here, EntersWith
  <2>2. /\ outcome' \in Outcome /\ outcome'.destroyed = "partial"
        /\ outcome'.restart = outcome.restart
    BY <2>1 DEF RestoreInv, Outcome
  <2>3. asked.layout = "backupDir"
    BY <2>1 DEF RestoreInv, TargetPlace
  <2>4. TargetPlace' /\ RestartPlace'
    BY <1>1, <1>2, <2>1, <2>2, <2>3 DEF TargetPlace, RestartPlace, Untouched
  <2>5. QED
    BY <1>1, <2>1, <2>2, <2>4, ReportWaits DEF RestoreInv
<1>6. QED
  BY <1>3, <1>4, <1>5

\* The walk through the entries goes on.
LEMMA WalksOn ==
  ASSUME RestoreInv, engine.at \in {"walk", "copy", "clear", "unpack"},
         engine'.at \in {"walk", "copy", "clear", "unpack", "chown"},
         content' = [e \in Entry |-> content'[e]], TargetPlace',
         UNCHANGED <<asked, container, stopped, outcome, evidence, verdict>>
  PROVE  RestoreInv'
<1>1. RestartPlace'
  BY DEF RestoreInv, RestartPlace
<1>2. QED
  BY <1>1, ReportWaits DEF RestoreInv

\* Every entry was gone through.
LEMMA WalkEnds ==
  ASSUME RestoreInv, EntriesDone
  PROVE  RestoreInv'
<1>1. /\ engine.at \in {"walk", "clear", "unpack"} /\ engine.todo = {}
      /\ UNCHANGED <<asked, container, content, stopped, outcome, evidence,
                     verdict>>
  BY DEF EntriesDone
<1>2. content' = [e \in Entry |-> content'[e]] /\ outcome.destroyed = "partial"
  BY <1>1 DEF RestoreInv, TargetPlace
<1>3. CASE engine.at = "clear"
  <2>1. engine'.at = "unpack" /\ engine'.todo = asked.archive
    BY <1>3 DEF EntriesDone, Here, EntersWith
  <2>2. asked.layout = "direct" /\ \A e \in Entry : content[e] = "empty"
    BY <1>1, <1>3 DEF RestoreInv, TargetPlace
  <2>3. TargetPlace'
    BY <1>1, <1>2, <2>1, <2>2 DEF TargetPlace
  <2>4. QED
    BY <1>1, <1>2, <2>1, <2>3, WalksOn
<1>4. CASE engine.at \in {"walk", "unpack"}
  <2>1. engine'.at = "chown"
    BY <1>4 DEF EntriesDone, Here, Enters
  <2>2. \A e \in Entry : Restored(e)
    <3>1. CASE engine.at = "walk"
      BY <1>1, <3>1 DEF RestoreInv, TargetPlace
    <3>2. CASE engine.at = "unpack"
      <4>1. /\ asked.layout = "direct"
            /\ \A e \in Entry :
                 content[e] = IF e \in asked.archive THEN "new" ELSE "empty"
        BY <1>1, <3>2 DEF RestoreInv, TargetPlace
      <4>2. QED
        BY <4>1 DEF Restored
    <3>3. QED
      BY <1>4, <3>1, <3>2
  <2>3. \A e \in Entry : Restored(e)'
    BY <1>1, <2>2 DEF Restored
  <2>4. TargetPlace'
    BY <1>1, <1>2, <2>1, <2>3 DEF TargetPlace
  <2>5. QED
    BY <1>1, <1>2, <2>1, <2>4, WalksOn
<1>5. QED
  BY <1>1, <1>3, <1>4

\* An entry is cleared or passed over.
LEMMA ClearKeeps ==
  ASSUME RestoreInv, EngineRecord, NEW e \in Entry, ClearEntry(e)
  PROVE  RestoreInv'
<1>1. /\ UNCHANGED <<asked, container, stopped, evidence, verdict>>
      /\ engine.at \in {"walk", "clear"} /\ e \in engine.todo
  BY DEF ClearEntry
<1>2. /\ outcome.destroyed = "partial"
      /\ content = [f \in Entry |-> content[f]]
  BY <1>1 DEF RestoreInv, TargetPlace
<1>3. content' = [f \in Entry |-> content'[f]]
  BY <1>2 DEF ClearEntry
<1>4. CASE Raise
  BY <1>1, <1>2, <1>3, <1>4, Raised
<1>5. ASSUME engine'.at \in {"walk", "copy", "clear"}, TargetPlace',
             UNCHANGED outcome
      PROVE  RestoreInv'
  BY <1>1, <1>3, <1>5, WalksOn
<1>6. engine.at = "walk" =>
        /\ asked.layout = "backupDir" /\ engine.todo \subseteq Entry
        /\ \A f \in Entry \ engine.todo : Restored(f)
        /\ \A f \in engine.todo : content[f] = "old"
  BY DEF RestoreInv, TargetPlace
<1>7. CASE /\ e \in asked.readOnly /\ Here("walk") /\ Done(e)
           /\ UNCHANGED <<content, outcome>>
  <2>1. engine.at = "walk"
    BY <1>7 DEF Here
  <2>2. engine'.at = "walk" /\ engine'.todo = engine.todo \ {e}
    BY <1>7, <2>1 DEF Done, EngineRecord
  <2>3. Restored(e)
    BY <1>1, <1>6, <1>7, <2>1 DEF Restored
  <2>4. \A f \in Entry \ engine'.todo : Restored(f)'
    BY <1>1, <1>6, <1>7, <2>1, <2>2, <2>3 DEF Restored
  <2>5. TargetPlace'
    BY <1>1, <1>2, <1>6, <1>7, <2>1, <2>2, <2>4 DEF TargetPlace
  <2>6. QED
    BY <1>5, <1>7, <2>2, <2>5
<1>8. CASE /\ e \notin asked.readOnly
           /\ content' = [content EXCEPT ![e] = "empty"]
           /\ IF Here("walk") /\ e \in asked.archive
              THEN engine' = [engine EXCEPT !.at = "copy"] ELSE Done(e)
           /\ UNCHANGED outcome
  <2>1. /\ \A f \in Entry : content'[f] = IF f = e THEN "empty" ELSE content[f]
        /\ e \notin asked.readOnly /\ UNCHANGED outcome
    BY <1>2, <1>8
  <2>2. engine.at = "walk" =>
          \A f \in Entry \ engine.todo : f # e /\ Restored(f)'
    BY <1>1, <1>6, <2>1 DEF Restored
  <2>3. CASE engine.at = "walk" /\ e \in asked.archive
    <3>1. engine'.at = "copy" /\ engine'.todo = engine.todo
      <4>1. engine' = [engine EXCEPT !.at = "copy"]
        BY <1>8, <2>3, Zenon DEF Here
      <4>2. QED
        BY <4>1 DEF EngineRecord
    <3>2. \A f \in engine'.todo \ {e} : content'[f] = "old"
      BY <1>6, <2>1, <2>3, <3>1
    <3>3. TargetPlace'
      BY <1>1, <1>2, <1>6, <2>1, <2>2, <2>3, <3>1, <3>2 DEF TargetPlace
    <3>4. QED
      BY <1>5, <2>1, <3>1, <3>3
  <2>4. CASE engine.at = "walk" /\ e \notin asked.archive
    <3>1. engine'.at = "walk" /\ engine'.todo = engine.todo \ {e}
      <4>1. engine' = [engine EXCEPT !.todo = engine.todo \ {e}]
        BY <1>8, <2>4, Zenon DEF Here, Done
      <4>2. QED
        BY <2>4, <4>1 DEF EngineRecord
    <3>2. Restored(e)'
      BY <1>1, <1>6, <2>1, <2>4 DEF Restored
    <3>3. \A f \in Entry \ engine'.todo : Restored(f)'
      BY <2>2, <2>4, <3>1, <3>2
    <3>4. TargetPlace'
      BY <1>1, <1>2, <1>6, <2>1, <2>4, <3>1, <3>3 DEF TargetPlace
    <3>5. QED
      BY <1>5, <2>1, <3>1, <3>4
  <2>5. CASE engine.at = "clear"
    <3>1. engine'.at = "clear" /\ engine'.todo = engine.todo \ {e}
      <4>1. engine' = [engine EXCEPT !.todo = engine.todo \ {e}]
        BY <1>8, <2>5 DEF Here, Done
      <4>2. QED
        BY <2>5, <4>1 DEF EngineRecord
    <3>2. /\ asked.layout = "direct"
          /\ \A f \in Entry \ engine.todo : content[f] = "empty"
      BY <2>5 DEF RestoreInv, TargetPlace
    <3>3. TargetPlace'
      BY <1>1, <1>2, <2>1, <3>1, <3>2 DEF TargetPlace
    <3>4. QED
      BY <1>5, <2>1, <3>1, <3>3
  <2>6. QED
    BY <1>1, <2>3, <2>4, <2>5
<1>9. QED
  BY <1>4, <1>7, <1>8 DEF ClearEntry

\* An entry is copied from the temporary directory.
LEMMA CopyKeeps ==
  ASSUME RestoreInv, EngineRecord, NEW e \in Entry, CopyEntry(e)
  PROVE  RestoreInv'
<1>1. /\ UNCHANGED <<asked, container, stopped, evidence, verdict>>
      /\ engine.at = "copy" /\ e \in engine.todo /\ content[e] = "empty"
      /\ e \in asked.archive
  BY DEF CopyEntry, Here
<1>2. /\ outcome.destroyed = "partial" /\ asked.layout = "backupDir"
      /\ content = [f \in Entry |-> content[f]]
      /\ engine.todo \subseteq Entry
      /\ \A f \in Entry \ engine.todo : Restored(f)
      /\ e \notin asked.readOnly
      /\ \A f \in engine.todo \ {e} : content[f] = "old"
  BY <1>1 DEF RestoreInv, TargetPlace
<1>3. content' = [f \in Entry |-> content'[f]]
  BY <1>2 DEF CopyEntry
<1>4. CASE Raise
  BY <1>1, <1>2, <1>3, <1>4, Raised
<1>5. CASE /\ content' = [content EXCEPT ![e] = "new"]
           /\ EntersWith("walk", engine.todo \ {e})
           /\ UNCHANGED outcome
  <2>1. \A f \in Entry : content'[f] = IF f = e THEN "new" ELSE content[f]
    BY <1>2, <1>5
  <2>2. engine'.at = "walk" /\ engine'.todo = engine.todo \ {e}
    BY <1>5 DEF EntersWith
  <2>3. Restored(e)'
    BY <1>1, <1>2, <2>1 DEF Restored
  <2>4. \A f \in Entry \ engine.todo : Restored(f)'
    BY <1>1, <1>2, <2>1 DEF Restored
  <2>5. \A f \in Entry \ engine'.todo : Restored(f)'
    BY <2>2, <2>3, <2>4
  <2>6. TargetPlace'
    BY <1>1, <1>2, <1>5, <2>1, <2>2, <2>5 DEF TargetPlace
  <2>7. QED
    BY <1>1, <1>3, <1>5, <2>2, <2>6, WalksOn
<1>6. QED
  BY <1>4, <1>5 DEF CopyEntry

\* An entry is extracted over the cleared target.
LEMMA UnpackKeeps ==
  ASSUME RestoreInv, EngineRecord, NEW e \in Entry, UnpackEntry(e)
  PROVE  RestoreInv'
<1>1. /\ UNCHANGED <<asked, container, stopped, evidence, verdict>>
      /\ engine.at = "unpack" /\ e \in engine.todo
  BY DEF UnpackEntry, Here
<1>2. /\ outcome.destroyed = "partial" /\ asked.layout = "direct"
      /\ content = [f \in Entry |-> content[f]]
      /\ engine.todo \subseteq asked.archive
      /\ \A f \in Entry \ engine.todo :
           content[f] = IF f \in asked.archive THEN "new" ELSE "empty"
  BY <1>1 DEF RestoreInv, TargetPlace
<1>3. content' = [f \in Entry |-> content'[f]]
  BY <1>2 DEF UnpackEntry
<1>4. CASE Raise
  BY <1>1, <1>2, <1>3, <1>4, Raised
<1>5. CASE /\ content' = [content EXCEPT ![e] = "new"]
           /\ Done(e) /\ UNCHANGED outcome
  <2>1. \A f \in Entry : content'[f] = IF f = e THEN "new" ELSE content[f]
    BY <1>2, <1>5
  <2>2. engine'.at = "unpack" /\ engine'.todo = engine.todo \ {e}
    BY <1>1, <1>5 DEF Done, EngineRecord
  <2>3. TargetPlace'
    BY <1>1, <1>2, <1>5, <2>1, <2>2 DEF TargetPlace
  <2>4. QED
    BY <1>1, <1>3, <1>5, <2>2, <2>3, WalksOn
<1>6. QED
  BY <1>4, <1>5 DEF UnpackEntry

\* The end of the destructive part, and the finally clause.
LEMMA CleanupKeeps ==
  ASSUME RestoreInv, Chown \/ Cleanup
  PROVE  RestoreInv'
<1>1. /\ UNCHANGED <<asked, container, content, stopped, evidence, verdict>>
      /\ engine.at \in {"chown", "cleanup"}
  BY DEF Chown, Cleanup, Here
<1>2. /\ asked.mode = "forced" /\ outcome.restart = "notRequested"
      /\ outcome \in Outcome /\ content = [e \in Entry |-> content[e]]
  BY <1>1 DEF RestoreInv, RestartPlace
<1>3. CASE Chown
  <2>1. /\ engine.at = "chown" /\ outcome.destroyed = "partial"
        /\ \A e \in Entry : Restored(e)
    BY <1>3 DEF Chown, Here, RestoreInv, TargetPlace
  <2>2. CASE Raise
    BY <1>1, <1>2, <2>1, <2>2, Raised
  <2>3. CASE /\ Enters("cleanup")
             /\ outcome' = [outcome EXCEPT !.destroyed = "complete"]
    <3>1. /\ engine'.at = "cleanup" /\ outcome' \in Outcome
          /\ outcome'.destroyed = "complete"
          /\ outcome'.restart = outcome.restart
      BY <1>2, <2>3 DEF Enters, Outcome
    <3>2. \A e \in Entry : Restored(e)'
      BY <1>1, <2>1 DEF Restored
    <3>3. TargetPlace' /\ RestartPlace'
      BY <1>1, <1>2, <3>1, <3>2 DEF TargetPlace, RestartPlace
    <3>4. QED
      BY <1>1, <3>1, <3>3, ReportWaits DEF RestoreInv
  <2>4. QED
    BY <1>3, <2>2, <2>3 DEF Chown
<1>4. CASE Cleanup
  <2>1. /\ engine.at = "cleanup" /\ engine'.at = "start"
        /\ engine'.todo = stopped
    BY <1>4 DEF Cleanup, Here, EntersWith
  <2>2. /\ outcome' \in Outcome /\ outcome'.destroyed = outcome.destroyed
        /\ outcome'.restart = outcome.restart
        /\ outcome'.ok => outcome.ok
    BY <1>2, <1>4 DEF Cleanup, Outcome
  <2>3. outcome'.ok => \A e \in Entry : Restored(e)'
    BY <1>1, <2>1, <2>2 DEF RestoreInv, TargetPlace, Restored
  <2>4. outcome'.destroyed = "none" => Untouched'
    BY <1>1, <2>2 DEF RestoreInv, TargetPlace, Untouched
  <2>5. TargetPlace'
    BY <2>1, <2>3, <2>4 DEF TargetPlace
  <2>6. RestartPlace'
    BY <1>1, <1>2, <2>1, <2>2 DEF RestartPlace
  <2>7. QED
    BY <1>1, <2>1, <2>2, <2>5, <2>6, ReportWaits DEF RestoreInv
<1>5. QED
  BY <1>3, <1>4

\* Containers are started again, and the outcome says whether they were.
LEMMA StartKeeps ==
  ASSUME RestoreInv, EngineRecord,
         StartsDone \/ \E c \in Container : StartOne(c)
  PROVE  RestoreInv'
<1>1. /\ UNCHANGED <<asked, content, stopped, evidence, verdict>>
      /\ engine.at = "start"
  BY DEF StartsDone, StartOne, Here
<1>2. /\ asked.mode = "forced" /\ outcome \in Outcome
      /\ container = [c \in Container |-> container[c]]
      /\ stopped \subseteq Container
      /\ outcome.ok => \A e \in Entry : Restored(e)
      /\ outcome.destroyed = "none" => Untouched
      /\ outcome.restart \in {"notRequested", "failed"}
      /\ outcome.ok => outcome.restart # "failed"
      /\ outcome.restart # "failed" =>
           \A c \in stopped : c \in engine.todo \/ container[c] = "running"
  BY <1>1 DEF RestoreInv, TargetPlace, RestartPlace
<1>3. CASE StartsDone
  <2>1. /\ engine.todo = {} /\ engine'.at = "write" /\ UNCHANGED container
    BY <1>3 DEF StartsDone, Enters
  <2>2. /\ outcome' \in Outcome /\ outcome'.ok = outcome.ok
        /\ outcome'.destroyed = outcome.destroyed
        /\ outcome'.restart = "succeeded" => outcome.restart # "failed"
    BY <1>2, <1>3 DEF StartsDone, Outcome
  <2>3. outcome'.destroyed = "none" => Untouched'
    BY <1>1, <1>2, <2>2 DEF Untouched
  <2>4. outcome'.ok => \A e \in Entry : Restored(e)'
    BY <1>1, <1>2, <2>2 DEF Restored
  <2>5. Holds(outcome)'
    BY <1>1, <1>2, <2>1, <2>2, <2>3, <2>4 DEF Holds
  <2>6. TargetPlace' /\ RestartPlace'
    BY <2>1, <2>3 DEF TargetPlace, RestartPlace
  <2>7. QED
    BY <1>1, <2>1, <2>2, <2>5, <2>6, ReportIsReady DEF RestoreInv
<1>4. ASSUME NEW c \in Container, StartOne(c)
      PROVE  RestoreInv'
  <2>1. engine'.at = "start" /\ engine'.todo = engine.todo \ {c}
    BY <1>1, <1>4 DEF StartOne, Done, EngineRecord
  <2>2. container' = [d \in Container |-> container'[d]]
    BY <1>2, <1>4 DEF StartOne
  <2>3. \/ /\ UNCHANGED outcome
           /\ \A d \in Container :
                container'[d] = IF d = c THEN "running" ELSE container[d]
        \/ /\ outcome' \in Outcome /\ outcome'.ok = FALSE
           /\ outcome'.destroyed = outcome.destroyed
           /\ outcome'.restart = "failed"
    BY <1>2, <1>4 DEF StartOne, Outcome
  <2>4. outcome' \in Outcome
    BY <1>2, <2>3
  <2>5. outcome'.destroyed = "none" => Untouched'
    BY <1>1, <1>2, <2>3 DEF Untouched
  <2>6. outcome'.ok => \A e \in Entry : Restored(e)'
    BY <1>1, <1>2, <2>3 DEF Restored
  <2>7. TargetPlace'
    BY <2>1, <2>5, <2>6 DEF TargetPlace
  <2>8. RestartPlace'
    BY <1>1, <1>2, <2>1, <2>3 DEF RestartPlace
  <2>9. QED
    BY <1>1, <2>1, <2>2, <2>4, <2>7, <2>8, ReportWaits DEF RestoreInv
<1>5. QED
  BY <1>3, <1>4

\* The result file, and the worker's verdict.
LEMMA VerdictKeeps ==
  ASSUME RestoreInv, WriteResult \/ Kill \/ ReadResult
  PROVE  RestoreInv'
<1>1. UNCHANGED <<asked, content, stopped, outcome>>
  BY DEF WriteResult, Kill, ReadResult
<1>2. /\ container' = [c \in Container |-> container'[c]]
      /\ engine'.at \in {"exited", "killed"} \/ UNCHANGED engine
  BY DEF WriteResult, Kill, ReadResult, RestoreInv, Enters
<1>3. TargetPlace' /\ RestartPlace'
  <2>1. CASE engine'.at \in {"exited", "killed"}
    BY <1>1, <2>1 DEF RestoreInv, TargetPlace, RestartPlace, Untouched
  <2>2. CASE UNCHANGED engine /\ ReadResult
    <3>1. engine'.at = "exited"
      BY <2>2 DEF ReadResult, Here
    <3>2. QED
      BY <2>1, <3>1
  <2>3. QED
    BY <1>2, <2>1, <2>2 DEF WriteResult, Kill, Enters
<1>4. ReportPlace'
  <2>1. CASE WriteResult
    <3>1. /\ engine.at = "write" /\ engine'.at = "exited"
          /\ evidence' \in {outcome, NoEvidence} /\ UNCHANGED <<container, verdict>>
      BY <2>1 DEF WriteResult, Here, Enters
    <3>2. Holds(outcome) /\ verdict = Pending
      BY <3>1 DEF RestoreInv, ReportPlace
    <3>3. Holds(evidence)'
      BY <1>1, <3>1, <3>2 DEF Holds, NoEvidence, Untouched, Restored
    <3>4. Holds(verdict)'
      BY <3>1, <3>2 DEF Holds, Pending
    <3>5. QED
      BY <1>1, <3>1, <3>2, <3>3, <3>4 DEF ReportPlace, RestoreInv
  <2>2. CASE Kill
    <3>1. /\ verdict' = NoEvidence /\ UNCHANGED evidence
          /\ engine'.at \in {"exited", "killed"}
          /\ engine'.at = "killed" => engine.at # "exited"
      BY <2>2 DEF Kill, Here, Enters
    <3>2. Holds(verdict)'
      BY <3>1 DEF Holds, NoEvidence
    <3>3. QED
      BY <3>1, <3>2, NothingIsSaid DEF RestoreInv, ReportPlace
  <2>3. CASE ReadResult
    <3>1. /\ verdict = Pending /\ engine.at = "exited"
          /\ UNCHANGED <<container, engine, evidence>>
          /\ verdict' = evidence \/ verdict' = [evidence EXCEPT !.ok = FALSE]
      BY <2>3 DEF ReadResult, Here
    <3>2. Holds(evidence) /\ evidence \in Outcome \union {NoEvidence}
      BY <3>1 DEF RestoreInv, ReportPlace
    <3>3. /\ verdict'.destroyed = evidence.destroyed
          /\ verdict'.restart = evidence.restart
          /\ verdict'.ok => evidence.ok
      BY <3>1, <3>2 DEF Outcome, NoEvidence
    <3>4. Holds(evidence)' /\ Holds(verdict)'
      BY <1>1, <3>1, <3>2, <3>3 DEF Holds, Untouched, Restored
    <3>5. QED
      BY <3>1, <3>2, <3>4 DEF ReportPlace
  <2>4. QED
    BY <2>1, <2>2, <2>3
<1>5. QED
  BY <1>1, <1>2, <1>3, <1>4 DEF RestoreInv

\* Every step keeps the invariant.
LEMMA RestoreInvStep ==
  ASSUME RestoreInv, EngineRecord, [RestoreNext]_restoreVars
  PROVE  RestoreInv'
<1>1. CASE UNCHANGED restoreVars
  BY <1>1 DEF restoreVars, RestoreInv, TargetPlace, RestartPlace, ReportPlace,
              Holds, Untouched, Restored
<1>2. CASE RestoreNext
  BY <1>2, PlanKeeps, PrepareKeeps, BeginKeeps, WalkEnds, ClearKeeps, CopyKeeps,
     UnpackKeeps, CleanupKeeps, StartKeeps, VerdictKeeps DEF RestoreNext
<1>3. QED
  BY <1>1, <1>2

\* What a job reports of the target and of the containers is what became of
\* them: whichever call fails, at whatever entry, and whenever the worker
\* ends the engine.
THEOREM RestoreReportsAreReal == RestoreSpec => []RestoreReportIsReal
<1>1. RestoreInit => EngineRecord
  BY DEF RestoreInit, EngineRecord
<1>2. RestoreInv /\ EngineRecord /\ [RestoreNext]_restoreVars
        => RestoreInv' /\ EngineRecord'
  BY RestoreInvStep, EngineRecordStep
<1>3. RestoreInv => RestoreReportIsReal
  BY DEF RestoreInv, ReportPlace, Holds, RestoreReportIsReal,
         ReportedTargetIsReal, RestartReportIsReal
<1>4. QED
  BY RestoreInvInit, <1>1, <1>2, <1>3, PTL DEF RestoreSpec

-----------------------------------------------------------------------------
(* RestoreRun: types.                                                      *)

EnginePlace ==
  [at : Phase \union Point, todo : SUBSET (Container \union Entry)]

\* The engine goes to a place, with things to go through, or ticks one off.
LEMMA PlaceMoves ==
  ASSUME engine \in EnginePlace
  PROVE  /\ \A p \in Phase \union Point : Enters(p) => engine' \in EnginePlace
         /\ \A p \in Phase \union Point, todo \in SUBSET (Container \union Entry) :
              EntersWith(p, todo) => engine' \in EnginePlace
         /\ \A x : Done(x) => engine' \in EnginePlace
         /\ engine' = [engine EXCEPT !.at = "copy"] => engine' \in EnginePlace
         /\ engine.todo \subseteq Container \union Entry
  BY DEF EnginePlace, Enters, EntersWith, Done, Phase

\* Where the engine can go is a place.
LEMMA EnginePlaces ==
  /\ {"stop", "walk", "copy", "clear", "unpack", "start"} \subseteq Phase \union Point
  /\ {"plan", "gate", "download", "check", "extract", "chown", "cleanup",
      "restarted", "write", "exited", "killed"} \subseteq Phase \union Point
  BY DEF Phase, Point

\* The containers that a plan stops are containers.
LEMMA AffectedTypes ==
  ASSUME asked \in Asked, NEW S \in Affected
  PROVE  S \subseteq Container
<1>1. asked.mounts \subseteq App /\ asked.labelled \subseteq App
  BY DEF Asked
<1>2. QED
  BY <1>1 DEF Affected, Running, Container

\* What is kept of the target and of the containers.
LEMMA RestoreDataStep ==
  ASSUME RestoreTypeOK, RestoreNext
  PROVE  /\ asked' \in Asked
         /\ container' \in [Container -> {"running", "stopped"}]
         /\ content' \in [Entry -> {"old", "empty", "new", "damaged"}]
         /\ stopped' \subseteq Container /\ held' \in BOOLEAN
<1> USE DEF RestoreTypeOK
<1>1. CASE \/ PlanRestore \/ Gate \/ StopsDone \/ StartsDone \/ Check \/ Extract
           \/ EntriesDone \/ Chown \/ WriteResult \/ ReadResult
  BY <1>1 DEF PlanRestore, Gate, StopsDone, StartsDone, Check, Extract,
              EntriesDone, Chown, WriteResult, ReadResult
<1>2. CASE FetchArchive \/ Cleanup
  BY <1>2 DEF FetchArchive, Cleanup, Asked
<1>3. CASE Kill
  BY <1>3 DEF Kill, Container
<1>4. CASE \E c \in Container : StopOne(c) \/ StartOne(c)
  BY <1>4 DEF StopOne, StartOne
<1>5. CASE \E e \in Entry : ClearEntry(e) \/ CopyEntry(e) \/ UnpackEntry(e)
  BY <1>5 DEF ClearEntry, CopyEntry, UnpackEntry
<1>6. QED
  BY <1>1, <1>2, <1>3, <1>4, <1>5 DEF RestoreNext

\* To deny a success that nothing tells of changes nothing.
LEMMA NothingToDeny == [NoEvidence EXCEPT !.ok = FALSE] = NoEvidence
<1> DEFINE Silent == [ok : {FALSE}, destroyed : {"unknown"}, restart : {"unknown"}]
<1>1. NoEvidence \in Silent
  BY DEF NoEvidence
<1>2. [NoEvidence EXCEPT !.ok = FALSE] \in Silent
  BY <1>1
<1>3. \A r, s \in Silent : r = s
  <2> TAKE r, s \in Silent
  <2>1. /\ r.ok = FALSE /\ r.destroyed = "unknown" /\ r.restart = "unknown"
        /\ s.ok = FALSE /\ s.destroyed = "unknown" /\ s.restart = "unknown"
    OBVIOUS
  <2>2. /\ r = [ok |-> r.ok, destroyed |-> r.destroyed, restart |-> r.restart]
        /\ s = [ok |-> s.ok, destroyed |-> s.destroyed, restart |-> s.restart]
    OBVIOUS
  <2>3. QED
    BY <2>1, <2>2
<1>4. QED
  BY <1>1, <1>2, <1>3

\* What is said of the restore.
LEMMA RestoreReportStep ==
  ASSUME RestoreTypeOK, RestoreNext
  PROVE  /\ outcome' \in Outcome /\ evidence' \in Outcome \union {NoEvidence}
         /\ verdict' \in Outcome \union {NoEvidence, Pending}
<1> USE DEF RestoreTypeOK
<1>1. /\ [outcome EXCEPT !.ok = FALSE] \in Outcome
      /\ \A d \in {"none", "partial", "complete"} :
           [outcome EXCEPT !.destroyed = d] \in Outcome
      /\ [outcome EXCEPT !.ok = FALSE, !.restart = "failed"] \in Outcome
      /\ \A r \in {"notRequested", "succeeded", "failed"} :
           [outcome EXCEPT !.restart = r] \in Outcome
      /\ [evidence EXCEPT !.ok = FALSE] \in Outcome \union {NoEvidence}
  <2>1. outcome \in Outcome
    OBVIOUS
  <2>2. CASE evidence \in Outcome
    BY <2>1, <2>2 DEF Outcome
  <2>3. CASE evidence = NoEvidence
    <3>1. [evidence EXCEPT !.ok = FALSE] = NoEvidence
      BY <2>3, NothingToDeny
    <3>2. QED
      BY <2>1, <3>1 DEF Outcome
  <2>4. QED
    BY <2>2, <2>3
<1>2. CASE PlanRestore \/ Gate \/ FetchArchive \/ Check \/ Extract \/ Chown \/ Cleanup
  BY <1>1, <1>2 DEF PlanRestore, Gate, FetchArchive, Check, Extract, Chown,
                    Cleanup, Refuse, Raise
<1>3. CASE StopsDone \/ EntriesDone \/ WriteResult \/ Kill \/ ReadResult
  BY <1>1, <1>3 DEF StopsDone, EntriesDone, WriteResult, Kill, ReadResult
<1>4. CASE StartsDone
  <2>1. outcome.restart \in {"notRequested", "succeeded", "failed"}
    BY DEF Outcome
  <2>2. QED
    BY <1>1, <1>4, <2>1 DEF StartsDone
<1>5. ASSUME NEW c \in Container, StopOne(c) \/ StartOne(c)
      PROVE  /\ outcome' \in Outcome /\ evidence' \in Outcome \union {NoEvidence}
             /\ verdict' \in Outcome \union {NoEvidence, Pending}
  <2>1. outcome' \in {outcome, [outcome EXCEPT !.ok = FALSE, !.restart = "failed"]}
    BY <1>5 DEF StopOne, StartOne
  <2>2. UNCHANGED <<evidence, verdict>>
    BY <1>5 DEF StopOne, StartOne
  <2>3. QED
    BY <1>1, <2>1, <2>2
<1>6. CASE \E e \in Entry : ClearEntry(e) \/ CopyEntry(e) \/ UnpackEntry(e)
  BY <1>1, <1>6 DEF ClearEntry, CopyEntry, UnpackEntry, Raise
<1>7. QED
  BY <1>2, <1>3, <1>4, <1>5, <1>6 DEF RestoreNext

\* Where the engine is.
LEMMA RestorePlaceStep ==
  ASSUME RestoreTypeOK, RestoreNext
  PROVE  engine' \in EnginePlace
<1> USE PlaceMoves, EnginePlaces
<1>0. engine \in EnginePlace /\ {} \subseteq Container \union Entry
  BY DEF RestoreTypeOK, EnginePlace
<1>1. CASE PlanRestore
  <2>1. CASE Refuse \/ Enters("write")
    BY <1>0, <2>1 DEF Refuse
  <2>2. ASSUME NEW S \in Affected, EntersWith("gate", IF asked.cold THEN S ELSE {})
        PROVE  engine' \in EnginePlace
    <3>1. (IF asked.cold THEN S ELSE {}) \subseteq Container
      BY AffectedTypes DEF RestoreTypeOK
    <3>2. QED
      BY <1>0, <2>2, <3>1
  <2>3. QED
    BY <1>1, <2>1, <2>2 DEF PlanRestore
<1>2. CASE Gate \/ StopsDone \/ StartsDone \/ WriteResult \/ Cleanup \/ Chown
  BY <1>0, <1>2 DEF Gate, StopsDone, StartsDone, WriteResult, Cleanup, Chown,
                    Refuse, Raise, RestoreTypeOK
<1>3. CASE FetchArchive \/ Check \/ Extract
  BY <1>0, <1>3 DEF FetchArchive, Check, Extract, Raise
<1>4. CASE EntriesDone
  <2>1. asked.archive \subseteq Entry
    BY DEF RestoreTypeOK, Asked
  <2>2. QED
    BY <1>0, <1>4, <2>1 DEF EntriesDone
<1>5. CASE Kill \/ ReadResult
  BY <1>0, <1>5 DEF Kill, ReadResult
<1>6. CASE \E c \in Container : StopOne(c) \/ StartOne(c)
  BY <1>0, <1>6 DEF StopOne, StartOne
<1>7. CASE \E e \in Entry : ClearEntry(e) \/ CopyEntry(e) \/ UnpackEntry(e)
  <2>1. \A e : engine.todo \ {e} \subseteq Container \union Entry
    BY <1>0
  <2>2. QED
    BY <1>0, <1>7, <2>1 DEF ClearEntry, CopyEntry, UnpackEntry, Raise
<1>8. QED
  BY <1>1, <1>2, <1>3, <1>4, <1>5, <1>6, <1>7 DEF RestoreNext

\* What a restore keeps is of its type: the engine is at one of its places
\* and has containers or entries to go through, and what is said of the target
\* and of the restart is one of the words of the result (RestoreResult).
THEOREM RestoreTypeCorrect == RestoreSpec => []RestoreTypeOK
<1>1. RestoreInit => RestoreTypeOK
  <2>1. [at |-> "plan", todo |-> {}] \in EnginePlace
    BY EnginePlaces DEF EnginePlace
  <2>2. [ok |-> TRUE, destroyed |-> "none", restart |-> "notRequested"] \in Outcome
    BY DEF Outcome
  <2>3. [e \in Entry |-> "old"] \in [Entry -> {"old", "empty", "new", "damaged"}]
    OBVIOUS
  <2>4. QED
    BY <2>1, <2>2, <2>3 DEF RestoreInit, RestoreTypeOK, EnginePlace
<1>2. ASSUME RestoreTypeOK, RestoreNext
      PROVE  RestoreTypeOK'
  <2>1. engine' \in EnginePlace
    BY <1>2, RestorePlaceStep
  <2>2. QED
    BY <1>2, <2>1, RestoreDataStep, RestoreReportStep DEF RestoreTypeOK, EnginePlace
<1>3. RestoreTypeOK /\ UNCHANGED restoreVars => RestoreTypeOK'
  BY DEF RestoreTypeOK, restoreVars
<1>4. QED
  BY <1>1, <1>2, <1>3, PTL DEF RestoreSpec

-----------------------------------------------------------------------------
(* KubernetesRun: the invariant.                                           *)

(* What a run knows of itself.  Its number of replicas has no bound here.  *)
RunKnows ==
  [at : RunStep, job : ClusterJob \union {NoRun.job},
   found : Seq([workload : Workload, replicas : Nat]),
   changed : Nat, ok : BOOLEAN, result : {"none", "success", "failure"}]

ClusterTypes ==
  /\ replicas \in [Workload -> Nat]
  /\ clusterJob = [j \in ClusterJob |-> clusterJob[j]]
  /\ podRun \in RunKnows /\ podRun.changed <= Len(podRun.found)

(* The workloads that were found are those that mount a claim, each once.  *)
AllFound ==
  /\ \A i, k \in 1..Len(podRun.found) :
       i # k => podRun.found[i].workload # podRun.found[k].workload
  /\ \A w \in Mounting :
       \E i \in 1..Len(podRun.found) : podRun.found[i].workload = w

(* The first of them are at zero, the others as they were found. *)
ChangedAtZero ==
  \A i \in 1..podRun.changed : replicas[podRun.found[i].workload] = 0
OthersAreBack ==
  \A i \in 1..Len(podRun.found) :
    i > podRun.changed =>
      replicas[podRun.found[i].workload] = podRun.found[i].replicas

(* The Job of the run ended well since the run began. *)
EndedWell == podRun.job \in ClusterJob /\ podRun.job \in endedWell

KubernetesInv ==
  /\ ClusterTypes
  /\ podRun.at \in {"listing", "quiescing", "polling"} => ~podRun.ok
  /\ podRun.at = "listing" => podRun.changed = 0
  /\ podRun.at = "dead" => podRun.result = "none"
  /\ podRun.at \in {"quiescing", "polling"} => AllFound /\ ChangedAtZero
  /\ podRun.at = "polling" =>
       /\ podRun.changed = Len(podRun.found)
       /\ podRun.job \in ClusterJob
       /\ clusterJob[podRun.job] = "succeeded" => EndedWell
  /\ podRun.at = "resuming" /\ podRun.ok =>
       AllFound /\ ChangedAtZero /\ OthersAreBack /\ EndedWell
  /\ podRun.at = "idle" /\ podRun.result = "success" =>
       podRun.changed = 0 /\ OthersAreBack /\ EndedWell
  /\ podRun.at \notin {"idle", "dead"} => podRun.job \in ClusterJob

\* The workloads that mount a claim are listed each once, in whatever order.
LEMMA OrdersListAll ==
  ASSUME NEW order \in MatchingWorkloads
  PROVE  /\ order \in Seq(Mounting)
         /\ \A i, k \in 1..Len(order) : i # k => order[i] # order[k]
         /\ \A w \in Mounting : \E i \in 1..Len(order) : order[i] = w
<1> DEFINE n == Cardinality(Mounting)
<1>1. IsFiniteSet(Mounting) /\ n \in Nat
  BY KubernetesAssumption, FS_Subset, FS_CardinalityType DEF KubernetesAssumption
<1>2. /\ order \in [1..n -> Mounting]
      /\ \A i, k \in 1..n : i # k => order[i] # order[k]
  BY DEF MatchingWorkloads, SetToSeqs
<1>3. order \in Injection(1..n, Mounting)
  BY <1>2 DEF Injection, IsInjective
<1>4. Cardinality(1..n) = n
  BY <1>1, FS_Interval
<1>5. order \in Surjection(1..n, Mounting)
  BY <1>1, <1>3, <1>4, FS_Injection
<1>6. order \in Seq(Mounting) /\ Len(order) = n
  BY <1>1, <1>2
<1>7. QED
  BY <1>2, <1>5, <1>6 DEF Surjection

\* A run that has not begun.
LEMMA NoRunKnown ==
  /\ NoRun \in RunKnows
  /\ NoRun.at = "idle" /\ NoRun.changed = 0 /\ ~NoRun.ok /\ NoRun.result = "none"
  /\ Len(NoRun.found) = 0
  BY DEF NoRun, RunKnows, RunStep

\* A list holds what it is a list of.
LEMMA ListHolds ==
  ASSUME NEW S, NEW list \in Seq(S), NEW i \in 1..Len(list)
  PROVE  list[i] \in S
  OBVIOUS

\* What each entry of the list is.
LEMMA Entries ==
  ASSUME ClusterTypes, AllFound
  PROVE  /\ Len(podRun.found) \in Nat /\ podRun.changed \in Nat
         /\ \A i \in 1..Len(podRun.found) :
              /\ podRun.found[i].workload \in Workload
              /\ podRun.found[i].replicas \in Nat
              /\ \A k \in 1..Len(podRun.found) :
                   i # k => podRun.found[k].workload # podRun.found[i].workload
<1>1. /\ podRun.found \in Seq([workload : Workload, replicas : Nat])
      /\ podRun.changed \in Nat
  BY DEF ClusterTypes, RunKnows
<1>2. \A i \in 1..Len(podRun.found) :
        podRun.found[i] \in [workload : Workload, replicas : Nat]
  BY <1>1, ListHolds
<1>3. QED
  BY <1>1, <1>2 DEF AllFound

\* The invariant holds at first.
LEMMA KubernetesInvInit == KubernetesInit => KubernetesInv
<1> SUFFICES ASSUME KubernetesInit PROVE KubernetesInv
  OBVIOUS
<1>1. /\ podRun \in RunKnows /\ podRun.at = "idle" /\ podRun.result = "none"
      /\ podRun.changed <= Len(podRun.found)
  BY NoRunKnown DEF KubernetesInit
<1>2. replicas \in [Workload -> Nat]
  BY KubernetesAssumption DEF KubernetesInit, KubernetesAssumption
<1>3. QED
  BY <1>1, <1>2 DEF KubernetesInv, ClusterTypes, KubernetesInit

\* A run begins and lists the workloads.
LEMMA ListingKeeps ==
  ASSUME KubernetesInv, ListWorkloads \/ \E j \in ClusterJob : RunJob(j)
  PROVE  KubernetesInv'
<1> USE DEF KubernetesInv, ClusterTypes
<1>1. ASSUME NEW j \in ClusterJob, RunJob(j)
      PROVE  KubernetesInv'
  <2>1. /\ podRun' \in RunKnows /\ podRun'.job = j /\ ~podRun'.ok
        /\ podRun'.changed = 0 /\ Len(podRun'.found) = 0
        /\ \/ podRun'.at = "listing"
           \/ podRun'.at = "idle" /\ podRun'.result = "failure"
    BY <1>1, NoRunKnown DEF RunJob, RunKnows, RunStep
  <2>2. ClusterTypes'
    <3>1. UNCHANGED <<replicas, clusterJob>>
      BY <1>1 DEF RunJob
    <3>2. podRun'.changed <= Len(podRun'.found)
      BY <2>1
    <3>3. QED
      BY <2>1, <3>1, <3>2
  <2>3. podRun'.at \in {"listing", "idle"} /\ podRun'.job \in ClusterJob
    BY <2>1
  <2>4. podRun'.at = "idle" => podRun'.result = "failure"
    BY <2>1
  <2>5. QED
    BY <2>1, <2>2, <2>3, <2>4 DEF RunKnows
<1>2. CASE ListWorkloads
  <2>1. podRun \in RunKnows /\ podRun.at = "listing" /\ ~podRun.ok
    BY <1>2 DEF ListWorkloads
  <2>2. CASE podRun' = [podRun EXCEPT !.at = "resuming", !.ok = FALSE]
    <3>1. /\ podRun' \in RunKnows /\ ~podRun'.ok /\ podRun'.at = "resuming"
          /\ podRun'.job = podRun.job /\ podRun'.changed = podRun.changed
          /\ podRun'.found = podRun.found
      BY <2>1, <2>2 DEF RunKnows, RunStep
    <3>2. QED
      BY <1>2, <3>1, <2>1 DEF ListWorkloads
  <2>3. ASSUME NEW order \in MatchingWorkloads,
               podRun' = [podRun EXCEPT !.at = "quiescing",
                            !.found = [i \in 1..Len(order) |->
                                        [workload |-> order[i],
                                         replicas |-> replicas[order[i]]]]]
        PROVE  KubernetesInv'
    <3> DEFINE found == [i \in 1..Len(order) |->
                          [workload |-> order[i], replicas |-> replicas[order[i]]]]
    <3>1. /\ order \in Seq(Mounting)
          /\ \A i, k \in 1..Len(order) : i # k => order[i] # order[k]
          /\ \A w \in Mounting : \E i \in 1..Len(order) : order[i] = w
      BY OrdersListAll
    <3>2. Len(order) \in Nat /\ Mounting \subseteq Workload
      BY <3>1, KubernetesAssumption DEF KubernetesAssumption
    <3>3. /\ found \in Seq([workload : Workload, replicas : Nat])
          /\ Len(found) = Len(order)
      BY <3>1, <3>2
    <3>4. \A i \in 1..Len(order) : found[i].workload = order[i]
      OBVIOUS
    <3>5. podRun' \in RunKnows /\ podRun'.found = found
      BY <2>1, <2>3, <3>3 DEF RunKnows, RunStep
    <3>6. /\ podRun'.at = "quiescing" /\ ~podRun'.ok
          /\ podRun'.changed = 0 /\ podRun'.job = podRun.job
      BY <1>2, <2>1, <2>3 DEF RunKnows, ListWorkloads
    <3> HIDE DEF found
    <3>7. podRun'.changed <= Len(podRun'.found)
      BY <3>2, <3>3, <3>5, <3>6
    <3>8. \A i \in 1..Len(podRun'.found) :
            i \in 1..Len(order) /\ podRun'.found[i].workload = order[i]
      BY <3>3, <3>4, <3>5
    <3>9. ASSUME NEW i \in 1..Len(podRun'.found),
                 NEW k \in 1..Len(podRun'.found), i # k
          PROVE  podRun'.found[i].workload # podRun'.found[k].workload
      <4>1. order[i] # order[k]
        BY <3>1, <3>8, <3>9
      <4>2. QED
        BY <3>8, <4>1
    <3>10. ASSUME NEW m \in Mounting
           PROVE  \E i \in 1..Len(podRun'.found) : podRun'.found[i].workload = m
      <4>1. PICK i \in 1..Len(order) : order[i] = m
        BY <3>1
      <4>2. i \in 1..Len(podRun'.found) /\ podRun'.found[i].workload = m
        BY <3>3, <3>5, <3>8, <4>1
      <4>3. QED
        BY <4>2
    <3>11. AllFound'
      BY <3>9, <3>10 DEF AllFound
    <3>12. ChangedAtZero'
      BY <3>6 DEF ChangedAtZero
    <3>13. QED
      BY <1>2, <2>1, <3>5, <3>6, <3>7, <3>11, <3>12 DEF ListWorkloads
  <2>4. QED
    BY <1>2, <2>2, <2>3 DEF ListWorkloads
<1>3. QED
  BY <1>1, <1>2

\* Workloads are scaled to zero, one after the other.
LEMMA QuiesceKeeps ==
  ASSUME KubernetesInv, NEW answer \in ApiAnswer, Quiesce(answer)
  PROVE  KubernetesInv'
<1> DEFINE next == podRun.changed + 1
           w == podRun.found[next].workload
<1>1. /\ ClusterTypes /\ AllFound /\ ChangedAtZero
      /\ podRun.at = "quiescing" /\ ~podRun.ok /\ podRun.job \in ClusterJob
      /\ podRun.changed < Len(podRun.found)
  BY DEF KubernetesInv, Quiesce
<1>2. /\ podRun.found \in Seq([workload : Workload, replicas : Nat])
      /\ podRun.changed \in Nat /\ next \in 1..Len(podRun.found)
      /\ Len(podRun.found) \in Nat
  BY <1>1 DEF ClusterTypes, RunKnows
<1>3. /\ w \in Workload
      /\ \A i \in 1..podRun.changed :
           podRun.found[i].workload \in Workload /\ podRun.found[i].workload # w
  BY <1>1, <1>2, Entries
<1>4. replicas' \in [Workload -> Nat] /\ UNCHANGED clusterJob
  BY <1>1, <1>3 DEF ClusterTypes, Quiesce, Scale
<1>5. CASE answer = "done"
  <2>1. podRun' = [podRun EXCEPT !.changed = next]
    BY <1>5 DEF Quiesce
  <2>2. /\ podRun' \in RunKnows /\ podRun'.changed = next
        /\ podRun'.at = "quiescing" /\ ~podRun'.ok
        /\ podRun'.job = podRun.job /\ podRun'.found = podRun.found
    <3>1. next \in Nat /\ podRun \in RunKnows
      BY <1>1, <1>2 DEF ClusterTypes
    <3> HIDE DEF next
    <3>2. QED
      BY <1>1, <2>1, <3>1 DEF RunKnows
  <2>3. replicas' = [replicas EXCEPT ![w] = 0]
    BY <1>5 DEF Quiesce, Scale, TakesEffect
  <2>4. ChangedAtZero'
    <3> SUFFICES ASSUME NEW i \in 1..next
                 PROVE  replicas'[podRun.found[i].workload] = 0
      BY <2>2 DEF ChangedAtZero
    <3>1. CASE i = next
      BY <1>1, <1>3, <2>3, <3>1 DEF ClusterTypes
    <3>2. CASE i \in 1..podRun.changed
      BY <1>1, <1>3, <2>3, <3>2 DEF ClusterTypes, ChangedAtZero
    <3>3. QED
      BY <1>2, <3>1, <3>2
  <2>5. AllFound'
    BY <1>1, <1>2, <2>2 DEF AllFound
  <2>6. QED
    BY <1>1, <1>2, <1>4, <2>2, <2>4, <2>5 DEF KubernetesInv, ClusterTypes
<1>6. CASE answer # "done"
  <2>1. podRun' = [podRun EXCEPT !.at = "resuming"]
    BY <1>6 DEF Quiesce
  <2>2. /\ podRun' \in RunKnows /\ podRun'.at = "resuming" /\ ~podRun'.ok
        /\ podRun'.job = podRun.job /\ podRun'.changed = podRun.changed
        /\ podRun'.found = podRun.found
    BY <1>1, <2>1 DEF ClusterTypes, RunKnows, RunStep
  <2>3. QED
    BY <1>1, <1>4, <2>2 DEF KubernetesInv, ClusterTypes
<1>7. QED
  BY <1>5, <1>6

\* The Job is created.
LEMMA CreateKeeps ==
  ASSUME KubernetesInv, NEW answer \in ApiAnswer, CreateJob(answer)
  PROVE  KubernetesInv'
<1>1. /\ ClusterTypes /\ AllFound /\ ChangedAtZero
      /\ podRun.at = "quiescing" /\ ~podRun.ok /\ podRun.job \in ClusterJob
      /\ podRun.changed = Len(podRun.found) /\ UNCHANGED replicas
  BY DEF KubernetesInv, CreateJob
<1>2. /\ podRun' \in RunKnows /\ ~podRun'.ok /\ podRun'.job = podRun.job
      /\ podRun'.found = podRun.found /\ podRun'.changed = podRun.changed
      /\ podRun'.at = IF answer = "done" THEN "polling" ELSE "resuming"
  BY <1>1 DEF ClusterTypes, RunKnows, RunStep, CreateJob
<1>3. ClusterTypes'
  BY <1>1, <1>2 DEF ClusterTypes, CreateJob
<1>4. AllFound' /\ ChangedAtZero'
  BY <1>1, <1>2 DEF AllFound, ChangedAtZero
<1>5. answer = "done" => clusterJob'[podRun.job] = "pending"
  BY <1>1 DEF CreateJob, TakesEffect, ClusterTypes
<1>6. QED
  BY <1>1, <1>2, <1>3, <1>4, <1>5 DEF KubernetesInv

\* The Job is polled.
LEMMA PollKeeps ==
  ASSUME KubernetesInv, PollEnds
  PROVE  KubernetesInv'
<1>1. /\ ClusterTypes /\ AllFound /\ ChangedAtZero
      /\ podRun.at = "polling" /\ ~podRun.ok /\ podRun.job \in ClusterJob
      /\ podRun.changed = Len(podRun.found) /\ UNCHANGED replicas
      /\ clusterJob[podRun.job] = "succeeded" => EndedWell
  BY DEF KubernetesInv, PollEnds
<1>2. endedWell' = endedWell
  BY DEF PollEnds
<1>3. CASE /\ clusterJob[podRun.job] = "succeeded"
           /\ podRun' = [podRun EXCEPT !.at = "resuming", !.ok = TRUE]
           /\ UNCHANGED clusterJob
  <2>1. /\ podRun' \in RunKnows /\ podRun'.at = "resuming"
        /\ podRun'.job = podRun.job /\ podRun'.found = podRun.found
        /\ podRun'.changed = podRun.changed
    BY <1>1, <1>3 DEF ClusterTypes, RunKnows, RunStep
  <2>2. AllFound' /\ ChangedAtZero' /\ OthersAreBack' /\ EndedWell'
    BY <1>1, <1>2, <1>3, <2>1
    DEF AllFound, ChangedAtZero, OthersAreBack, EndedWell, ClusterTypes, RunKnows
  <2>3. QED
    BY <1>1, <1>3, <2>1, <2>2 DEF KubernetesInv, ClusterTypes
<1>4. CASE /\ podRun' = [podRun EXCEPT !.at = "resuming"]
           /\ DeleteOwned(podRun.job)
  <2>1. /\ podRun' \in RunKnows /\ podRun'.at = "resuming" /\ ~podRun'.ok
        /\ podRun'.job = podRun.job /\ podRun'.changed = podRun.changed
        /\ podRun'.found = podRun.found
    BY <1>1, <1>4 DEF ClusterTypes, RunKnows, RunStep
  <2>2. QED
    BY <1>1, <1>4, <2>1 DEF KubernetesInv, ClusterTypes, DeleteOwned
<1>5. QED
  BY <1>3, <1>4 DEF PollEnds

\* Workloads are scaled back, the last one first.
LEMMA ResumeKeeps ==
  ASSUME KubernetesInv, NEW answer \in ApiAnswer, Resume(answer)
  PROVE  KubernetesInv'
<1> DEFINE last == podRun.changed
           item == podRun.found[last]
<1>1. /\ ClusterTypes /\ podRun.at = "resuming" /\ last > 0
      /\ podRun.job \in ClusterJob
      /\ UNCHANGED clusterJob
  BY DEF KubernetesInv, Resume, ScaleBack, Scale
<1>2. /\ podRun' \in RunKnows /\ podRun'.at = "resuming"
      /\ podRun'.job = podRun.job /\ podRun'.found = podRun.found
      /\ podRun'.changed = last - 1
      /\ podRun'.ok <=> podRun.ok /\ answer = "done"
  <2>1. podRun' = [podRun EXCEPT !.changed = last - 1,
                     !.ok = podRun.ok /\ answer = "done"]
    BY DEF Resume
  <2>2. last - 1 \in Nat /\ (podRun.ok /\ answer = "done") \in BOOLEAN
    BY <1>1 DEF ClusterTypes, RunKnows
  <2>3. QED
    BY <1>1, <2>1, <2>2 DEF ClusterTypes, RunKnows
<1>3. replicas' \in [Workload -> Nat]
  <2>1. last \in 1..Len(podRun.found)
    BY <1>1 DEF ClusterTypes, RunKnows
  <2>2. item \in [workload : Workload, replicas : Nat]
    BY <1>1, <2>1, ListHolds DEF ClusterTypes, RunKnows
  <2>3. \/ replicas' = replicas
        \/ replicas' = [replicas EXCEPT ![item.workload] = item.replicas]
    BY DEF Resume, ScaleBack, Scale
  <2>4. QED
    BY <1>1, <2>2, <2>3 DEF ClusterTypes
<1>4. ASSUME podRun.ok, answer = "done"
      PROVE  AllFound' /\ ChangedAtZero' /\ OthersAreBack' /\ EndedWell'
  <2>1. AllFound /\ ChangedAtZero /\ OthersAreBack /\ EndedWell
    BY <1>1, <1>4 DEF KubernetesInv
  <2>2. /\ podRun.found \in Seq([workload : Workload, replicas : Nat])
        /\ last \in 1..Len(podRun.found) /\ Len(podRun.found) \in Nat
    BY <1>1, <2>1 DEF ClusterTypes, RunKnows, AllFound
  <2>3. replicas' = [replicas EXCEPT ![item.workload] = item.replicas]
    BY <1>4 DEF Resume, ScaleBack, Scale, TakesEffect
  <2>4. \A i \in 1..Len(podRun.found) :
          /\ podRun.found[i].workload \in Workload
          /\ i # last => podRun.found[i].workload # item.workload
    BY <1>1, <2>1, <2>2, Entries
  <2>5. /\ replicas'[item.workload] = item.replicas
        /\ \A i \in 1..Len(podRun.found) :
             i # last => replicas'[podRun.found[i].workload]
                           = replicas[podRun.found[i].workload]
    BY <1>1, <2>2, <2>3, <2>4 DEF ClusterTypes
  <2>6. AllFound' /\ ChangedAtZero' /\ OthersAreBack'
    <3>1. AllFound'
      BY <1>2, <2>1 DEF AllFound
    <3>2. ChangedAtZero'
      <4> SUFFICES ASSUME NEW i \in 1..last - 1
                   PROVE  replicas'[podRun.found[i].workload] = 0
        BY <1>2 DEF ChangedAtZero
      <4>1. i \in 1..Len(podRun.found) /\ i \in 1..last /\ i # last
        BY <2>2
      <4>2. QED
        BY <2>1, <2>5, <4>1 DEF ChangedAtZero
    <3>3. \A i \in 1..Len(podRun.found) : i > last - 1 => i = last \/ i > last
      BY <2>2
    <3>4. OthersAreBack'
      BY <1>2, <2>1, <2>2, <2>5, <3>3 DEF OthersAreBack
    <3>5. QED
      BY <3>1, <3>2, <3>4
  <2>7. EndedWell'
    BY <1>1, <1>2, <2>1 DEF EndedWell, Resume, ScaleBack, Scale
  <2>8. QED
    BY <2>6, <2>7
<1>5. podRun'.changed <= Len(podRun'.found)
  BY <1>1, <1>2 DEF ClusterTypes, RunKnows
<1>6. ClusterTypes'
  BY <1>1, <1>2, <1>3, <1>5 DEF ClusterTypes
<1>7. QED
  BY <1>1, <1>2, <1>4, <1>6 DEF KubernetesInv

\* The run returns, or the worker dies and sweeps its Jobs.
LEMMA ReturnKeeps ==
  ASSUME KubernetesInv, RunReturns \/ WorkerDies \/ SweepJobs
  PROVE  KubernetesInv'
<1> USE DEF KubernetesInv, ClusterTypes
<1>1. CASE RunReturns
  <2>1. /\ podRun' \in RunKnows /\ podRun'.at = "idle"
        /\ podRun'.job = podRun.job /\ podRun'.found = podRun.found
        /\ podRun'.changed = 0 /\ podRun.changed = 0
        /\ podRun'.result = "success" <=> podRun.ok
    BY <1>1 DEF RunReturns, RunKnows, RunStep
  <2>2. QED
    BY <1>1, <2>1 DEF RunReturns, OthersAreBack, EndedWell
<1>2. CASE WorkerDies
  <2>1. /\ podRun' \in RunKnows /\ podRun'.at = "dead" /\ ~podRun'.ok
        /\ podRun'.result = "none" /\ podRun'.changed = 0
        /\ Len(podRun'.found) = 0
    BY <1>2, NoRunKnown DEF WorkerDies, RunKnows, RunStep
  <2>2. QED
    BY <1>2, <2>1 DEF WorkerDies
<1>3. CASE SweepJobs
  <2>1. podRun' \in RunKnows /\ podRun'.at = "idle"
        /\ podRun'.result = podRun.result
    BY <1>3 DEF SweepJobs, RunKnows, RunStep
  <2>2. QED
    BY <1>3, <2>1 DEF SweepJobs
<1>4. QED
  BY <1>1, <1>2, <1>3

\* The cluster goes on.
LEMMA ClusterKeeps ==
  ASSUME KubernetesInv, NEW j \in ClusterJob, ClusterStep(j)
  PROVE  KubernetesInv'
<1>1. UNCHANGED <<podRun, replicas>>
  BY DEF ClusterStep
<1>2. PICK phase \in JobPhase :
        /\ clusterJob' = [clusterJob EXCEPT ![j] = phase]
        /\ endedWell' = IF phase = "succeeded" THEN endedWell \cup {j} ELSE endedWell
  BY DEF ClusterStep
<1>3. ClusterTypes'
  BY <1>1, <1>2 DEF KubernetesInv, ClusterTypes
<1>4. EndedWell => EndedWell'
  BY <1>1, <1>2 DEF EndedWell
<1>5. podRun.at = "polling" /\ clusterJob'[podRun.job] = "succeeded" => EndedWell'
  <2> SUFFICES ASSUME podRun.at = "polling", clusterJob'[podRun.job] = "succeeded"
               PROVE  EndedWell'
    OBVIOUS
  <2>1. podRun.job \in ClusterJob /\ ClusterTypes
    BY DEF KubernetesInv
  <2>2. CASE podRun.job = j
    BY <1>1, <1>2, <2>1, <2>2 DEF EndedWell, ClusterTypes
  <2>3. CASE podRun.job # j
    <3>1. clusterJob[podRun.job] = "succeeded"
      BY <1>2, <2>1, <2>3 DEF ClusterTypes
    <3>2. QED
      BY <1>4, <3>1 DEF KubernetesInv
  <2>4. QED
    BY <2>2, <2>3
<1>6. /\ AllFound' <=> AllFound
      /\ ChangedAtZero' <=> ChangedAtZero
      /\ OthersAreBack' <=> OthersAreBack
  BY <1>1 DEF AllFound, ChangedAtZero, OthersAreBack
<1>7. QED
  BY <1>1, <1>3, <1>4, <1>5, <1>6 DEF KubernetesInv

\* Every step keeps the invariant.
LEMMA KubernetesInvStep ==
  ASSUME KubernetesInv, [KubernetesNext]_kubernetesVars
  PROVE  KubernetesInv'
<1>1. CASE UNCHANGED kubernetesVars
  BY <1>1 DEF kubernetesVars, KubernetesInv, ClusterTypes, AllFound,
              ChangedAtZero, OthersAreBack, EndedWell
<1>2. CASE KubernetesNext
  BY <1>2, ListingKeeps, QuiesceKeeps, CreateKeeps, PollKeeps, ResumeKeeps,
     ReturnKeeps, ClusterKeeps DEF KubernetesNext
<1>3. QED
  BY <1>1, <1>2

\* A run in the cluster that reports success had its own Job succeed and has
\* asked for every workload's replicas again, for any number of workloads and
\* jobs, whatever calls the API server refuses or whose answers are lost, and
\* whenever the worker dies.
THEOREM KubernetesRunsAreUndone == KubernetesSpec => []SuccessIsRealAndUndone
<1>1. KubernetesInv => SuccessIsRealAndUndone
  <2> SUFFICES ASSUME KubernetesInv, podRun.at = "idle", podRun.result = "success"
               PROVE  /\ podRun.job \in endedWell
                      /\ \A i \in DOMAIN podRun.found :
                           replicas[podRun.found[i].workload]
                             = podRun.found[i].replicas
    BY DEF SuccessIsRealAndUndone
  <2>1. DOMAIN podRun.found = 1..Len(podRun.found)
    BY DEF KubernetesInv, ClusterTypes, RunKnows
  <2>2. QED
    BY <2>1 DEF KubernetesInv, OthersAreBack, EndedWell
<1>2. KubernetesInv /\ [KubernetesNext]_kubernetesVars => KubernetesInv'
  BY KubernetesInvStep
<1>3. QED
  BY KubernetesInvInit, <1>1, <1>2, PTL DEF KubernetesSpec

-----------------------------------------------------------------------------
(* KubernetesRun: what a run owes.                                         *)

(* No workload is listed twice.  Those that a run has changed are at zero  *)
(* until it scales them back, and those that it has yet to change are as   *)
(* it found them.                                                          *)
FoundOnce ==
  \A i, k \in 1..Len(podRun.found) :
    i # k => podRun.found[i].workload # podRun.found[k].workload

OwedInv ==
  /\ podRun.at \in {"idle", "dead", "listing"} => podRun.changed = 0
  /\ podRun.at = "listing" => Len(podRun.found) = 0
  /\ podRun.at \in {"quiescing", "polling", "resuming"} => FoundOnce /\ ChangedAtZero
  /\ podRun.at = "quiescing" => OthersAreBack

\* The entries of the list, in whatever state.
LEMMA ListEntries ==
  ASSUME ClusterTypes
  PROVE  /\ Len(podRun.found) \in Nat /\ podRun.changed \in Nat
         /\ \A i \in 1..Len(podRun.found) :
              /\ podRun.found[i].workload \in Workload
              /\ podRun.found[i].replicas \in Nat
<1>1. /\ podRun.found \in Seq([workload : Workload, replicas : Nat])
      /\ podRun.changed \in Nat
  BY DEF ClusterTypes, RunKnows
<1>2. \A i \in 1..Len(podRun.found) :
        podRun.found[i] \in [workload : Workload, replicas : Nat]
  BY <1>1, ListHolds
<1>3. QED
  BY <1>1, <1>2

LEMMA OwedInit == KubernetesInit => OwedInv
  BY NoRunKnown DEF KubernetesInit, OwedInv

\* A step that changes neither the workloads nor what the run has changed.
LEMMA OwedFrame ==
  ASSUME OwedInv, UNCHANGED replicas, podRun'.found = podRun.found,
         podRun'.changed = podRun.changed,
         podRun'.at = podRun.at \/ podRun'.at \in {"polling", "resuming"},
         podRun.at \in {"quiescing", "polling", "resuming"}
  PROVE  OwedInv'
<1>1. /\ FoundOnce' <=> FoundOnce
      /\ ChangedAtZero' <=> ChangedAtZero
      /\ OthersAreBack' <=> OthersAreBack
  BY DEF FoundOnce, ChangedAtZero, OthersAreBack
<1>2. QED
  BY <1>1 DEF OwedInv

\* A listing names each workload once, with the replicas it has.
LEMMA ListingOwes ==
  ASSUME ClusterTypes, OwedInv, ListWorkloads
  PROVE  OwedInv'
<1>1. podRun.changed = 0 /\ Len(podRun.found) = 0 /\ podRun \in RunKnows
      /\ UNCHANGED replicas
  BY DEF ListWorkloads, OwedInv, ClusterTypes
<1>2. CASE podRun' = [podRun EXCEPT !.at = "resuming", !.ok = FALSE]
  <2>1. podRun'.at = "resuming" /\ podRun'.changed = 0 /\ podRun'.found = podRun.found
    BY <1>1, <1>2 DEF RunKnows
  <2>2. FoundOnce' /\ ChangedAtZero'
    BY <1>1, <2>1 DEF FoundOnce, ChangedAtZero
  <2>3. QED
    BY <2>1, <2>2 DEF OwedInv
<1>3. ASSUME NEW order \in MatchingWorkloads,
             podRun' = [podRun EXCEPT !.at = "quiescing",
                          !.found = [i \in 1..Len(order) |->
                                      [workload |-> order[i],
                                       replicas |-> replicas[order[i]]]]]
      PROVE  OwedInv'
  <2> DEFINE list == [i \in 1..Len(order) |->
                       [workload |-> order[i], replicas |-> replicas[order[i]]]]
  <2>1. order \in Seq(Mounting) /\ Len(order) \in Nat
        /\ \A i, k \in 1..Len(order) : i # k => order[i] # order[k]
    BY OrdersListAll
  <2>2. /\ \A i \in 1..Len(order) : /\ list[i].workload = order[i]
                                    /\ list[i].replicas = replicas[order[i]]
        /\ Len(list) = Len(order)
    BY <2>1
  <2>3. podRun'.at = "quiescing" /\ podRun'.changed = 0 /\ podRun'.found = list
    BY <1>1, <1>3 DEF RunKnows
  <2> HIDE DEF list
  <2>4. FoundOnce' /\ ChangedAtZero' /\ OthersAreBack'
    BY <1>1, <2>1, <2>2, <2>3 DEF FoundOnce, ChangedAtZero, OthersAreBack
  <2>5. QED
    BY <2>3, <2>4 DEF OwedInv
<1>4. QED
  BY <1>2, <1>3 DEF ListWorkloads

\* One workload is scaled down, and remembered when the answer comes.
LEMMA QuiesceOwes ==
  ASSUME ClusterTypes, OwedInv, NEW answer \in ApiAnswer, Quiesce(answer)
  PROVE  OwedInv'
<1> DEFINE next == podRun.changed + 1
           w == podRun.found[next].workload
<1>1. /\ FoundOnce /\ ChangedAtZero /\ OthersAreBack
      /\ podRun.at = "quiescing" /\ podRun.changed < Len(podRun.found)
      /\ podRun \in RunKnows /\ replicas \in [Workload -> Nat]
  BY DEF OwedInv, Quiesce, ClusterTypes
<1>2. /\ next \in 1..Len(podRun.found)
      /\ Len(podRun.found) \in Nat /\ podRun.changed \in Nat
  BY <1>1, ListEntries
<1>3. \A i \in 1..Len(podRun.found) :
        /\ podRun.found[i].workload \in Workload
        /\ i # next => podRun.found[i].workload # w
  BY <1>1, <1>2, ListEntries DEF FoundOnce
<1>4. replicas' \in {replicas, [replicas EXCEPT ![w] = 0]}
  BY DEF Quiesce, Scale
<1>5. /\ \A i \in 1..podRun.changed : replicas'[podRun.found[i].workload] = 0
      /\ \A i \in 1..Len(podRun.found) : i > next =>
           replicas'[podRun.found[i].workload] = podRun.found[i].replicas
  BY <1>1, <1>2, <1>3, <1>4 DEF ChangedAtZero, OthersAreBack
<1>6. CASE answer = "done"
  <2>1. replicas'[w] = 0
    BY <1>1, <1>2, <1>3, <1>6 DEF Quiesce, Scale, TakesEffect
  <2>2. /\ podRun'.at = "quiescing" /\ podRun'.changed = next
        /\ podRun'.found = podRun.found
    BY <1>1, <1>6 DEF Quiesce, RunKnows
  <2>3. ChangedAtZero'
    BY <1>2, <1>5, <2>1, <2>2 DEF ChangedAtZero
  <2>4. FoundOnce' /\ OthersAreBack'
    BY <1>1, <1>2, <1>5, <2>2 DEF FoundOnce, OthersAreBack
  <2>5. QED
    BY <2>2, <2>3, <2>4 DEF OwedInv
<1>7. CASE answer # "done"
  <2>1. /\ podRun'.at = "resuming" /\ podRun'.changed = podRun.changed
        /\ podRun'.found = podRun.found
    BY <1>1, <1>7 DEF Quiesce, RunKnows
  <2>2. FoundOnce' /\ ChangedAtZero'
    BY <1>1, <1>5, <2>1 DEF FoundOnce, ChangedAtZero
  <2>3. QED
    BY <2>1, <2>2 DEF OwedInv
<1>8. QED
  BY <1>6, <1>7

\* One workload is scaled up, or not, and forgotten.
LEMMA ResumeOwes ==
  ASSUME ClusterTypes, OwedInv, NEW answer \in ApiAnswer, Resume(answer)
  PROVE  OwedInv'
<1> DEFINE last == podRun.changed
           item == podRun.found[last]
<1>1. /\ FoundOnce /\ ChangedAtZero /\ podRun.at = "resuming" /\ last > 0
      /\ podRun \in RunKnows /\ last <= Len(podRun.found)
      /\ replicas \in [Workload -> Nat]
  BY DEF OwedInv, Resume, ScaleBack, ClusterTypes
<1>2. /\ last \in 1..Len(podRun.found) /\ Len(podRun.found) \in Nat
  BY <1>1, ListEntries
<1>3. \A i \in 1..Len(podRun.found) :
        /\ podRun.found[i].workload \in Workload
        /\ i # last => podRun.found[i].workload # item.workload
  BY <1>1, <1>2, ListEntries DEF FoundOnce
<1>4. replicas' \in {replicas, [replicas EXCEPT ![item.workload] = item.replicas]}
  BY DEF Resume, ScaleBack, Scale
<1>5. \A i \in 1..last - 1 : replicas'[podRun.found[i].workload] = 0
  BY <1>1, <1>2, <1>3, <1>4 DEF ChangedAtZero
<1>6. /\ podRun'.at = "resuming" /\ podRun'.changed = last - 1
      /\ podRun'.found = podRun.found
  BY <1>1 DEF Resume, RunKnows
<1>7. FoundOnce' /\ ChangedAtZero'
  BY <1>1, <1>5, <1>6 DEF FoundOnce, ChangedAtZero
<1>8. QED
  BY <1>6, <1>7 DEF OwedInv

LEMMA OwedStep ==
  ASSUME ClusterTypes, OwedInv, [KubernetesNext]_kubernetesVars
  PROVE  OwedInv'
<1> podRun \in RunKnows
  BY DEF ClusterTypes
<1>1. ASSUME NEW j \in ClusterJob, RunJob(j)
      PROVE  OwedInv'
  <2>1. /\ podRun'.at \in {"listing", "idle"} /\ podRun'.changed = 0
        /\ Len(podRun'.found) = 0
    BY <1>1, NoRunKnown DEF RunJob, RunKnows
  <2>2. QED
    BY <2>1 DEF OwedInv
<1>2. ASSUME NEW answer \in ApiAnswer, CreateJob(answer)
      PROVE  OwedInv'
  <2>1. /\ podRun'.at \in {"polling", "resuming"} /\ UNCHANGED replicas
        /\ podRun'.found = podRun.found /\ podRun'.changed = podRun.changed
        /\ podRun.at = "quiescing"
    BY <1>2 DEF CreateJob, RunKnows
  <2>2. QED
    BY <2>1, OwedFrame
<1>3. CASE PollEnds
  <2>1. /\ podRun'.at = "resuming" /\ UNCHANGED replicas
        /\ podRun'.found = podRun.found /\ podRun'.changed = podRun.changed
        /\ podRun.at = "polling"
    BY <1>3 DEF PollEnds, RunKnows
  <2>2. QED
    BY <2>1, OwedFrame
<1>4. CASE RunReturns \/ WorkerDies \/ SweepJobs
  <2>1. podRun'.at \in {"idle", "dead"} /\ podRun'.changed = 0
    BY <1>4, NoRunKnown DEF RunReturns, WorkerDies, SweepJobs, RunKnows, OwedInv
  <2>2. QED
    BY <2>1 DEF OwedInv
<1>5. CASE (\E j \in ClusterJob : ClusterStep(j)) \/ UNCHANGED kubernetesVars
  <2>1. UNCHANGED <<podRun, replicas>>
    BY <1>5 DEF ClusterStep, kubernetesVars
  <2>2. QED
    BY <2>1 DEF OwedInv, FoundOnce, ChangedAtZero, OthersAreBack
<1>6. QED
  BY <1>1, <1>2, <1>3, <1>4, <1>5, ListingOwes, QuiesceOwes, ResumeOwes
  DEF KubernetesNext

LEMMA OwedInvariant == KubernetesSpec => [](KubernetesInv /\ OwedInv)
<1>1. KubernetesInv /\ [KubernetesNext]_kubernetesVars => KubernetesInv'
  BY KubernetesInvStep
<1>2. KubernetesInv /\ OwedInv /\ [KubernetesNext]_kubernetesVars => OwedInv'
  BY OwedStep DEF KubernetesInv
<1>3. QED
  BY KubernetesInvInit, OwedInit, <1>1, <1>2, PTL DEF KubernetesSpec

\* A workload that ran is at zero, and no run remembers it, only after a death
\* of the worker, a lost answer to its own scaling down or a refusal of its
\* own scaling up, for any number of workloads and any order of the failures.
THEOREM WorkloadsAreLeftOnlyByLoss == KubernetesSpec => OnlyLossLeavesAtZero
<1>1. KubernetesInv /\ OwedInv /\ [KubernetesNext]_kubernetesVars =>
        [\A w \in LeftAtZero' \ LeftAtZero :
           \/ WorkerDies
           \/ Quiesce("lost") /\ podRun.found[podRun.changed + 1].workload = w
           \/ Resume("refused")
                /\ podRun.found[podRun.changed].workload = w]_kubernetesVars
  <2> SUFFICES ASSUME KubernetesInv, OwedInv, KubernetesNext,
                      NEW w \in LeftAtZero' \ LeftAtZero, ~WorkerDies
               PROVE  \/ /\ Quiesce("lost")
                         /\ podRun.found[podRun.changed + 1].workload = w
                      \/ /\ Resume("refused")
                         /\ podRun.found[podRun.changed].workload = w
    OBVIOUS
  <2>1. /\ ClusterTypes /\ podRun \in RunKnows /\ replicas \in [Workload -> Nat]
        /\ Len(podRun.found) \in Nat /\ podRun.changed \in Nat
    BY ListEntries DEF KubernetesInv, ClusterTypes
  <2>2. /\ w \in Workload /\ replicas'[w] = 0 /\ w \notin Remembered'
        /\ replicas[w] # 0 \/ w \in Remembered
    BY DEF LeftAtZero
  <2>3. w \in Remembered => /\ podRun.at \in {"quiescing", "polling", "resuming"}
                            /\ replicas[w] = 0
    <3>1. w \in Remembered => \E k \in 1..podRun.changed : podRun.found[k].workload = w
      BY DEF Remembered
    <3>2. podRun.at \in RunStep
      BY <2>1 DEF RunKnows
    <3>3. w \in Remembered => podRun.changed # 0
      BY <3>1
    <3>4. w \in Remembered => podRun.at \in {"quiescing", "polling", "resuming"}
      BY <3>2, <3>3 DEF OwedInv, RunStep
    <3>5. QED
      BY <2>1, <3>1, <3>4 DEF OwedInv, ChangedAtZero, RunStep
  <2>4. ASSUME UNCHANGED replicas, podRun'.changed = podRun.changed,
               podRun'.found = podRun.found
        PROVE  FALSE
    BY <2>2, <2>4 DEF Remembered
  <2>5. ASSUME NEW answer \in ApiAnswer, Quiesce(answer)
        PROVE  answer = "lost" /\ podRun.found[podRun.changed + 1].workload = w
    <3> DEFINE next == podRun.changed + 1
               item == podRun.found[next]
    <3>1. /\ podRun.changed < Len(podRun.found) /\ podRun.at = "quiescing"
          /\ next \in 1..Len(podRun.found)
          /\ item.workload \in Workload /\ item.replicas \in Nat
      BY <2>1, <2>5, ListEntries DEF Quiesce
    <3>2. /\ podRun'.found = podRun.found
          /\ podRun'.changed = IF answer = "done" THEN next ELSE podRun.changed
      BY <2>1, <2>5 DEF Quiesce, RunKnows
    <3>3. w \notin Remembered
      <4>1. 1..podRun.changed \subseteq 1..podRun'.changed
        BY <2>1, <3>2
      <4>2. QED
        BY <2>2, <3>2, <4>1 DEF Remembered
    <3>4. item.workload = w /\ answer # "refused"
      BY <2>1, <2>2, <2>5, <3>1, <3>3 DEF Quiesce, Scale, TakesEffect
    <3>5. item.replicas = replicas[w]
      BY <2>1, <3>1, <3>4 DEF OwedInv, OthersAreBack
    <3>6. answer # "done"
      <4>1. item.replicas > 0
        BY <2>2, <3>1, <3>3, <3>5
      <4>2. SUFFICES ASSUME answer = "done" PROVE w \in Remembered'
        BY <2>2
      <4>3. next \in 1..podRun'.changed
        BY <2>1, <3>2, <4>2
      <4>4. QED
        BY <3>2, <3>4, <4>1, <4>3 DEF Remembered
    <3>7. QED
      BY <3>4, <3>6 DEF ApiAnswer
  <2>6. ASSUME NEW answer \in ApiAnswer, Resume(answer)
        PROVE  answer = "refused" /\ podRun.found[podRun.changed].workload = w
    <3> DEFINE last == podRun.changed
               item == podRun.found[last]
    <3>1. /\ last \in 1..Len(podRun.found) /\ podRun.at = "resuming"
          /\ item.workload \in Workload /\ item.replicas \in Nat
          /\ ChangedAtZero /\ FoundOnce
      BY <2>1, <2>6, ListEntries DEF Resume, ScaleBack, OwedInv, ClusterTypes
    <3>2. podRun'.found = podRun.found /\ podRun'.changed = last - 1
      BY <2>1, <2>6 DEF Resume, RunKnows
    <3>3. replicas' = IF TakesEffect(answer)
                      THEN [replicas EXCEPT ![item.workload] = item.replicas]
                      ELSE replicas
      BY <2>6 DEF Resume, ScaleBack, Scale
    <3>4. replicas[item.workload] = 0
      BY <2>1, <3>1 DEF ChangedAtZero
    <3>5. w \in Remembered
      BY <2>1, <2>2, <3>1, <3>3, <3>4
    <3>6. PICK k \in 1..last : podRun.found[k].workload = w /\ podRun.found[k].replicas > 0
      BY <3>5 DEF Remembered
    <3>7. k = last
      <4>1. k \in 1..last - 1 => w \in Remembered'
        BY <3>2, <3>6 DEF Remembered
      <4>2. QED
        BY <2>1, <2>2, <3>1, <3>6, <4>1
    <3>8. QED
      BY <2>1, <2>2, <3>1, <3>3, <3>6, <3>7 DEF TakesEffect, ApiAnswer
  <2>7. ASSUME \/ \E j \in ClusterJob : ClusterStep(j)
               \/ \E answer \in ApiAnswer : CreateJob(answer)
               \/ PollEnds \/ RunReturns \/ SweepJobs
        PROVE  FALSE
    <3>1. /\ UNCHANGED replicas /\ podRun'.changed = podRun.changed
          /\ podRun'.found = podRun.found
      BY <2>1, <2>7 DEF ClusterStep, CreateJob, PollEnds,
         RunReturns, SweepJobs, RunKnows
    <3>2. QED
      BY <2>4, <3>1
  <2>8. ASSUME ListWorkloads \/ \E j \in ClusterJob : RunJob(j)
        PROVE  FALSE
    BY <2>2, <2>3, <2>8 DEF ListWorkloads, RunJob
  <2>9. QED
    BY <2>5, <2>6, <2>7, <2>8 DEF KubernetesNext
<1>2. QED
  BY <1>1, OwedInvariant, PTL DEF KubernetesSpec, OnlyLossLeavesAtZero

-----------------------------------------------------------------------------
(* KubernetesRun: types.                                                   *)

(* A run changes no more workloads than it found, and finds no more than   *)
(* there are.                                                              *)
RunTypes ==
  [at : RunStep, job : ClusterJob, found : Seq(Owed),
   changed : 0..Cardinality(Workload), ok : BOOLEAN,
   result : {"none", "success", "failure"}]

KubernetesTypes ==
  /\ KubernetesTypeOK
  /\ podRun.changed <= Len(podRun.found)
  /\ Len(podRun.found) <= Cardinality(Workload)

\* A run that has not begun, for any Job.
LEMMA NoRunTypes ==
  /\ NoRun \in RunTypes /\ NoRun.changed = 0 /\ Len(NoRun.found) = 0
  /\ Cardinality(Workload) \in Nat /\ MaxReplicas \in Nat /\ 0 \in 0..MaxReplicas
<1>1. Cardinality(Workload) \in Nat /\ MaxReplicas \in Nat /\ ClusterJob # {}
  BY KubernetesAssumption, FS_CardinalityType DEF KubernetesAssumption
<1>2. (CHOOSE j \in ClusterJob : TRUE) \in ClusterJob
  BY <1>1
<1>3. QED
  BY <1>1, <1>2 DEF NoRun, RunTypes, RunStep

\* Of a list of the workloads that mount a claim no entry is out of range, and
\* it is no longer than there are workloads.
LEMMA ListTypes ==
  ASSUME replicas \in [Workload -> 0..MaxReplicas], NEW order \in MatchingWorkloads
  PROVE  /\ [i \in 1..Len(order) |->
               [workload |-> order[i], replicas |-> replicas[order[i]]]] \in Seq(Owed)
         /\ Len(order) \in Nat /\ Len(order) <= Cardinality(Workload)
<1>1. /\ IsFiniteSet(Workload) /\ Mounting \subseteq Workload
      /\ IsFiniteSet(Mounting)
      /\ Cardinality(Mounting) \in Nat /\ Cardinality(Workload) \in Nat
      /\ Cardinality(Mounting) <= Cardinality(Workload)
  BY KubernetesAssumption, FS_Subset, FS_CardinalityType DEF KubernetesAssumption
<1>2. order \in [1..Cardinality(Mounting) -> Mounting]
  BY DEF MatchingWorkloads, SetToSeqs
<1>3. Len(order) = Cardinality(Mounting)
  BY <1>1, <1>2
<1>4. \A i \in 1..Len(order) :
        [workload |-> order[i], replicas |-> replicas[order[i]]] \in Owed
  BY <1>1, <1>2, <1>3 DEF Owed
<1>5. QED
  BY <1>1, <1>3, <1>4

\* A step of the cluster keeps its types.
LEMMA ClusterTypesStep ==
  ASSUME KubernetesTypeOK, KubernetesNext
  PROVE  /\ clusterJob' \in [ClusterJob -> JobPhase]
         /\ endedWell' \subseteq ClusterJob
<1>1. /\ clusterJob \in [ClusterJob -> JobPhase] /\ endedWell \subseteq ClusterJob
      /\ podRun.job \in ClusterJob
  BY DEF KubernetesTypeOK
<1>2. \A phase \in JobPhase : Deleted(phase) \in JobPhase
  BY DEF Deleted, JobPhase
<1>3. CASE \E answer \in ApiAnswer : Quiesce(answer) \/ Resume(answer)
  BY <1>1, <1>3 DEF Quiesce, Resume, ScaleBack, Scale
<1>4. CASE \E answer \in ApiAnswer : CreateJob(answer)
  BY <1>1, <1>4 DEF CreateJob, JobPhase
<1>5. CASE PollEnds
  BY <1>1, <1>2, <1>5 DEF PollEnds, DeleteOwned
<1>6. ASSUME NEW j \in ClusterJob, ClusterStep(j)
      PROVE  /\ clusterJob' \in [ClusterJob -> JobPhase]
             /\ endedWell' \subseteq ClusterJob
  BY <1>1, <1>6 DEF ClusterStep
<1>7. CASE SweepJobs
  BY <1>1, <1>2, <1>7 DEF SweepJobs
<1>8. CASE ListWorkloads \/ RunReturns \/ WorkerDies \/ \E j \in ClusterJob : RunJob(j)
  BY <1>1, <1>8 DEF ListWorkloads, RunReturns, WorkerDies, RunJob
<1>9. QED
  BY <1>3, <1>4, <1>5, <1>6, <1>7, <1>8 DEF KubernetesNext

\* Workloads are scaled within their bounds.
LEMMA ScaleTypes ==
  ASSUME KubernetesTypes, KubernetesNext
  PROVE  replicas' \in [Workload -> 0..MaxReplicas]
<1>1. /\ replicas \in [Workload -> 0..MaxReplicas]
      /\ podRun.found \in Seq(Owed) /\ podRun.changed \in Nat
      /\ podRun.changed <= Len(podRun.found) /\ Len(podRun.found) \in Nat
      /\ MaxReplicas \in Nat /\ 0 \in 0..MaxReplicas
  BY NoRunTypes DEF KubernetesTypes, KubernetesTypeOK
<1>2. \A i \in 1..Len(podRun.found) : podRun.found[i] \in Owed
  BY <1>1, ListHolds
<1>3. ASSUME NEW answer \in ApiAnswer, Quiesce(answer)
      PROVE  replicas' \in [Workload -> 0..MaxReplicas]
  <2>1. podRun.changed + 1 \in 1..Len(podRun.found)
    BY <1>1, <1>3 DEF Quiesce
  <2>2. podRun.found[podRun.changed + 1].workload \in Workload
    BY <1>2, <2>1 DEF Owed
  <2>3. QED
    BY <1>1, <1>3, <2>2 DEF Quiesce, Scale
<1>4. ASSUME NEW answer \in ApiAnswer, Resume(answer)
      PROVE  replicas' \in [Workload -> 0..MaxReplicas]
  <2>1. podRun.changed \in 1..Len(podRun.found)
    BY <1>1, <1>4 DEF Resume, ScaleBack
  <2>2. podRun.found[podRun.changed] \in Owed
    BY <1>2, <2>1
  <2>3. QED
    BY <1>1, <1>4, <2>2 DEF Resume, ScaleBack, Scale, Owed
<1>5. CASE \E j \in ClusterJob : ClusterStep(j)
  BY <1>1, <1>5 DEF ClusterStep, Scale
<1>6. CASE \/ ListWorkloads \/ PollEnds \/ RunReturns \/ WorkerDies \/ SweepJobs
           \/ \E j \in ClusterJob : RunJob(j)
           \/ \E answer \in ApiAnswer : CreateJob(answer)
  BY <1>1, <1>6 DEF ListWorkloads, PollEnds, RunReturns, WorkerDies, SweepJobs,
                    RunJob, CreateJob
<1>7. QED
  BY <1>3, <1>4, <1>5, <1>6 DEF KubernetesNext

RunFits ==
  /\ podRun \in RunTypes /\ podRun.changed <= Len(podRun.found)
  /\ Len(podRun.found) <= Cardinality(Workload)

\* A run stays what it is.
LEMMA RunFitsStep ==
  ASSUME KubernetesTypes, KubernetesInv, KubernetesNext
  PROVE  RunFits'
<1>1. /\ podRun \in RunTypes /\ podRun.changed <= Len(podRun.found)
      /\ Len(podRun.found) <= Cardinality(Workload)
      /\ replicas \in [Workload -> 0..MaxReplicas]
  BY DEF KubernetesTypes, KubernetesTypeOK, RunTypes
<1>2. /\ podRun.changed \in Nat /\ Len(podRun.found) \in Nat
      /\ Cardinality(Workload) \in Nat
  BY <1>1, NoRunTypes DEF RunTypes
<1>3. ASSUME NEW j \in ClusterJob,
             \/ \E at \in {"listing", "dead"} :
                  podRun' = [NoRun EXCEPT !.at = at, !.job = j]
             \/ podRun' = [NoRun EXCEPT !.job = j, !.result = "failure"]
      PROVE  RunFits'
  <2>1. podRun' \in RunTypes /\ podRun'.changed = 0 /\ podRun'.found = NoRun.found
    BY <1>3, NoRunTypes DEF RunTypes, RunStep
  <2>2. QED
    BY <1>2, <2>1, NoRunTypes DEF RunFits
<1>4. ASSUME NEW n \in Nat, n <= Len(podRun.found), NEW ok \in BOOLEAN,
             podRun' = [podRun EXCEPT !.changed = n, !.ok = ok]
      PROVE  RunFits'
  <2>1. n \in 0..Cardinality(Workload)
    BY <1>1, <1>2, <1>4
  <2>2. QED
    BY <1>1, <1>4, <2>1 DEF RunFits, RunTypes
<1>5. /\ podRun.at \in RunStep /\ podRun.ok \in BOOLEAN /\ podRun.job \in ClusterJob
  BY <1>1 DEF RunTypes
<1>6. {"listing", "idle", "quiescing", "resuming", "polling", "dead"} \subseteq RunStep
  BY DEF RunStep
<1>7. ASSUME NEW at \in RunStep, podRun' = [podRun EXCEPT !.at = at]
      PROVE  RunFits'
  BY <1>1, <1>7 DEF RunFits, RunTypes
<1>8. ASSUME NEW j \in ClusterJob, RunJob(j)
      PROVE  RunFits'
  BY <1>3, <1>8 DEF RunJob
<1>9. CASE ListWorkloads
  <2>1. CASE podRun' = [podRun EXCEPT !.at = "resuming", !.ok = FALSE]
    BY <1>1, <1>6, <2>1 DEF RunFits, RunTypes
  <2>2. ASSUME NEW order \in MatchingWorkloads,
               podRun' = [podRun EXCEPT !.at = "quiescing",
                            !.found = [i \in 1..Len(order) |->
                                        [workload |-> order[i],
                                         replicas |-> replicas[order[i]]]]]
        PROVE  RunFits'
    <3> DEFINE found == [i \in 1..Len(order) |->
                          [workload |-> order[i], replicas |-> replicas[order[i]]]]
    <3>1. found \in Seq(Owed) /\ Len(found) = Len(order)
          /\ Len(order) \in Nat /\ Len(order) <= Cardinality(Workload)
      BY <1>1, ListTypes
    <3>2. podRun.changed = 0
      BY <1>9 DEF KubernetesInv, ListWorkloads
    <3> HIDE DEF found
    <3>3. podRun' = [podRun EXCEPT !.at = "quiescing", !.found = found]
      BY <2>2 DEF found
    <3>4. podRun' \in RunTypes /\ podRun'.changed = 0 /\ podRun'.found = found
      BY <1>1, <1>6, <3>1, <3>2, <3>3 DEF RunTypes
    <3>5. QED
      BY <3>1, <3>4 DEF RunFits
  <2>3. QED
    BY <1>9, <2>1, <2>2 DEF ListWorkloads
<1>10. ASSUME NEW answer \in ApiAnswer, Quiesce(answer)
       PROVE  RunFits'
  <2>1. podRun.changed + 1 \in Nat /\ podRun.changed + 1 <= Len(podRun.found)
    BY <1>2, <1>10 DEF Quiesce
  <2>2. CASE answer = "done"
    <3>1. podRun' = [podRun EXCEPT !.changed = podRun.changed + 1, !.ok = podRun.ok]
      BY <1>1, <1>10, <2>2 DEF Quiesce, RunTypes
    <3>2. QED
      BY <1>4, <1>5, <2>1, <3>1
  <2>3. CASE answer # "done"
    <3>1. podRun' = [podRun EXCEPT !.at = "resuming"]
      BY <1>10, <2>3 DEF Quiesce
    <3>2. QED
      BY <1>6, <1>7, <3>1
  <2>4. QED
    BY <2>2, <2>3
<1>11. ASSUME NEW answer \in ApiAnswer, CreateJob(answer)
       PROVE  RunFits'
  <2>1. \E at \in RunStep : podRun' = [podRun EXCEPT !.at = at]
    BY <1>6, <1>11 DEF CreateJob
  <2>2. QED
    BY <1>7, <2>1
<1>12. ASSUME NEW answer \in ApiAnswer, Resume(answer)
       PROVE  RunFits'
  <2>1. /\ podRun.changed - 1 \in Nat /\ podRun.changed - 1 <= Len(podRun.found)
    BY <1>1, <1>2, <1>12 DEF Resume, ScaleBack
  <2>2. (podRun.ok /\ answer = "done") \in BOOLEAN
    OBVIOUS
  <2>3. podRun' = [podRun EXCEPT !.changed = podRun.changed - 1,
                     !.ok = podRun.ok /\ answer = "done"]
    BY <1>12 DEF Resume
  <2>4. QED
    BY <1>4, <2>1, <2>2, <2>3
<1>13. CASE PollEnds
  <2>1. CASE podRun' = [podRun EXCEPT !.at = "resuming", !.ok = TRUE]
    BY <1>1, <1>6, <2>1 DEF RunFits, RunTypes
  <2>2. CASE podRun' = [podRun EXCEPT !.at = "resuming"]
    BY <1>6, <1>7, <2>2
  <2>3. QED
    BY <1>13, <2>1, <2>2 DEF PollEnds
<1>14. CASE RunReturns
  <2>1. \E result \in {"none", "success", "failure"} :
          podRun' = [podRun EXCEPT !.at = "idle", !.result = result]
    BY <1>14 DEF RunReturns
  <2>2. QED
    BY <1>1, <1>6, <2>1 DEF RunFits, RunTypes
<1>15. CASE WorkerDies
  BY <1>3, <1>5, <1>15 DEF WorkerDies
<1>16. CASE SweepJobs
  BY <1>6, <1>7, <1>16 DEF SweepJobs
<1>17. CASE \E j \in ClusterJob : ClusterStep(j)
  BY <1>1, <1>17 DEF ClusterStep, RunFits
<1>18. QED
  BY <1>8, <1>9, <1>10, <1>11, <1>12, <1>13, <1>14, <1>15, <1>16, <1>17
  DEF KubernetesNext

\* What the runs of the Kubernetes runtime keep is of its type: no run counts
\* more workloads as changed than it found or than there are, and none is
\* scaled beyond what it began with (_quiesce, _resume).
THEOREM KubernetesTypeCorrect == KubernetesSpec => []KubernetesTypeOK
<1>1. KubernetesInit => KubernetesTypes
  BY NoRunTypes DEF KubernetesInit, KubernetesTypes, KubernetesTypeOK, RunTypes,
                    JobPhase
<1>2. KubernetesTypes /\ KubernetesInv /\ KubernetesNext => KubernetesTypes'
  BY ClusterTypesStep, ScaleTypes, RunFitsStep
  DEF KubernetesTypes, KubernetesTypeOK, RunFits, RunTypes
<1>3. KubernetesTypes /\ UNCHANGED kubernetesVars => KubernetesTypes'
  BY DEF KubernetesTypes, KubernetesTypeOK, kubernetesVars
<1>4. KubernetesTypes => KubernetesTypeOK
  BY DEF KubernetesTypes
<1>5. QED
  BY KubernetesInvInit, KubernetesInvStep, <1>1, <1>2, <1>3, <1>4, PTL
  DEF KubernetesSpec

-----------------------------------------------------------------------------
(* LogStream: texts.                                                       *)

Symbol == Char \union {Mark}

\* A word begins at a place when its letters are there one after the other.
LEMMA BeginsThere ==
  ASSUME NEW text \in Seq(Symbol), NEW i \in Nat \ {0}, NEW word \in Seq(Symbol)
  PROVE  Begins(text, i, word) <=>
           /\ i + Len(word) - 1 <= Len(text)
           /\ \A k \in 1..Len(word) : text[i + k - 1] = word[k]
<1>1. ASSUME i + Len(word) - 1 <= Len(text)
      PROVE  /\ SubSeq(text, i, i + Len(word) - 1) \in Seq(Symbol)
             /\ Len(SubSeq(text, i, i + Len(word) - 1)) = Len(word)
             /\ \A k \in 1..Len(word) : SubSeq(text, i, i + Len(word) - 1)[k] = text[i + k - 1]
  BY <1>1
<1> DEFINE there == i + Len(word) - 1 <= Len(text)
           same == SubSeq(text, i, i + Len(word) - 1)
<1>2. Begins(text, i, word) <=> there /\ same = word
  BY DEF Begins
<1>3. there => /\ same \in Seq(Symbol) /\ Len(same) = Len(word)
               /\ \A k \in 1..Len(word) : same[k] = text[i + k - 1]
  BY <1>1
<1> HIDE DEF same, there
<1>4. there => (same = word <=> \A k \in 1..Len(word) : text[i + k - 1] = word[k])
  <2> SUFFICES ASSUME there
               PROVE  same = word <=> \A k \in 1..Len(word) : text[i + k - 1] = word[k]
    OBVIOUS
  <2>1. ASSUME \A k \in 1..Len(word) : text[i + k - 1] = word[k]
        PROVE  same = word
    <3>1. \A k \in 1..Len(word) : same[k] = word[k]
      BY <1>3, <2>1
    <3>2. QED
      BY <1>3, <3>1
  <2>2. ASSUME same = word
        PROVE  \A k \in 1..Len(word) : text[i + k - 1] = word[k]
    BY <1>3, <2>2
  <2>3. QED
    BY <2>1, <2>2
<1>5. QED
  BY <1>2, <1>4 DEF there

\* A set of numbers up to a bound has a biggest.
LEMMA BiggestIs ==
  ASSUME NEW n \in Nat, NEW S \in SUBSET (0..n), S # {}
  PROVE  Biggest(S) \in S /\ \A m \in S : m <= Biggest(S)
<1> DEFINE T == {m \in Nat : \A R \in SUBSET (0..m) :
                   R # {} => \E b \in R : \A c \in R : c <= b}
<1>1. 0 \in T
  <2> SUFFICES ASSUME NEW R \in SUBSET (0..0), R # {}
               PROVE  \E b \in R : \A c \in R : c <= b
    OBVIOUS
  <2>1. \A c \in R : c = 0
    OBVIOUS
  <2>2. 0 \in R
    BY <2>1
  <2>3. QED
    BY <2>1, <2>2
<1>2. ASSUME NEW m \in Nat, m \in T
      PROVE  m + 1 \in T
  <2> SUFFICES ASSUME NEW R \in SUBSET (0..(m + 1)), R # {}
               PROVE  \E b \in R : \A c \in R : c <= b
    OBVIOUS
  <2>1. CASE m + 1 \in R
    BY <2>1
  <2>2. CASE m + 1 \notin R
    <3>1. R \in SUBSET (0..m)
      BY <2>2
    <3>2. QED
      BY <1>2, <3>1
  <2>3. QED
    BY <2>1, <2>2
<1>3. Nat \subseteq T
  <2> HIDE DEF T
  <2>1. QED
    BY <1>1, <1>2, NatSetInduction
<1>4. \E b \in S : \A c \in S : c <= b
  BY <1>3
<1>5. QED
  BY <1>4 DEF Biggest

-----------------------------------------------------------------------------
(* LogStream: replacing a word.                                            *)

(* One step of replacing a word from the left.                             *)
FromStep(text, word, from, i) ==
  IF i > Len(text) THEN <<>>
  ELSE IF Begins(text, i, word) THEN <<Mark>> \o from[i + Len(word)]
  ELSE <<text[i]>> \o from[i + 1]

\* Replacing is well defined: the function that goes through the text exists.
LEMMA ReplaceIs ==
  ASSUME NEW text \in Seq(Symbol), NEW word \in Seq(Symbol), word # <<>>
  PROVE  \E from : /\ from = [i \in 1..(Len(text) + 1) |->
                                FromStep(text, word, from, i)]
                   /\ Replace(text, word) = from[1]
<1> DEFINE L == Len(text)
           Step(g, i) == FromStep(text, word, g, i)
           Fits(g, m) == g = [i \in (L + 1 - m)..(L + 1) |-> Step(g, i)]
           T == {m \in Nat : m <= L => \E g : Fits(g, m)}
           P(g) == g = [i \in 1..(L + 1) |-> Step(g, i)]
           chosen == CHOOSE g : P(g)
<1>0. L \in Nat /\ Len(word) \in Nat \ {0}
  OBVIOUS
<1>1. 0 \in T
  <2> DEFINE g == [i \in (L + 1)..(L + 1) |-> <<>>]
  <2>1. \A i \in (L + 1)..(L + 1) : Step(g, i) = <<>>
    BY DEF FromStep
  <2>2. Fits(g, 0)
    <3> HIDE DEF Step
    <3>1. QED
      BY <1>0, <2>1
  <2> HIDE DEF g, Fits
  <2>3. QED
    BY <2>2
<1>2. ASSUME NEW m \in Nat, m \in T
      PROVE  m + 1 \in T
  <2> SUFFICES ASSUME m + 1 <= L
               PROVE  \E g : Fits(g, m + 1)
    OBVIOUS
  <2>1. PICK g : Fits(g, m)
    BY <1>0, <1>2
  <2> DEFINE h == [i \in (L - m)..(L + 1) |-> IF i = L - m THEN Step(g, i) ELSE g[i]]
  <2>2. ASSUME NEW i \in (L - m)..(L + 1)
        PROVE  h[i] = Step(h, i)
    <3>1. i <= L => h[i + 1] = g[i + 1]
      BY <1>0
    <3>2. Begins(text, i, word) => h[i + Len(word)] = g[i + Len(word)]
      BY <1>0 DEF Begins
    <3>3. i = L - m \/ g[i] = Step(g, i)
      <4>1. i = L - m \/ i \in (L + 1 - m)..(L + 1)
        BY <1>0
      <4> HIDE DEF Step, L
      <4>2. QED
        BY <2>1, <4>1
    <3>4. h[i] = Step(g, i)
      <4> HIDE DEF Step
      <4>1. QED
        BY <3>3
    <3> HIDE DEF h
    <3>5. QED
      BY <1>0, <3>1, <3>2, <3>4 DEF FromStep
  <2>3. Fits(h, m + 1)
    <3> HIDE DEF Step
    <3>0. L + 1 - (m + 1) = L - m
      BY <1>0
    <3>1. QED
      BY <2>2, <3>0
  <2> HIDE DEF h, Fits
  <2>4. QED
    BY <2>3
<1>3. \E g : P(g)
  <2>1. L \in T
    <3> HIDE DEF T, L
    <3>1. QED
      BY <1>0, <1>1, <1>2, NatSetInduction
  <2>2. \E g : Fits(g, L)
    <3> HIDE DEF Fits, L
    <3>1. QED
      BY <1>0, <2>1
  <2>3. L + 1 - L = 1
    BY <1>0
  <2> HIDE DEF Step, L
  <2>4. QED
    BY <2>2, <2>3
<1>4. P(chosen)
  <2> HIDE DEF P
  <2>1. QED
    BY <1>3, Zenon
<1>5. Replace(text, word) = chosen[1]
  BY DEF Replace, FromStep
<1> HIDE DEF chosen
<1>6. QED
  BY <1>4, <1>5

(* Nothing between two places was replaced.                                *)
Clear(s, a, b) == \A k \in a..b : s[k] # Mark

(* The same letters from t on as from a to b.                              *)
Copied(text, t, s, a, b) ==
  t + (b - a) <= Len(text) /\ \A k \in 0..(b - a) : s[a + k] = text[t + k]

(* What is left of a text from i on, when a word was replaced in it: where *)
(* nothing was replaced the text goes on as before, but not with the word. *)
Runs(text, i, word, s) ==
  \A a, b \in 1..Len(s) : a <= b /\ Clear(s, a, b) =>
    \E t \in i..Len(text) : ~Begins(text, t, word) /\ Copied(text, t, s, a, b)

(* What is left begins and ends as the text does, up to the first mark.    *)
StartsAs(text, i, s) ==
  \A b \in 0..Len(s) : Clear(s, 1, b) =>
    i + b - 1 <= Len(text) /\ \A k \in 1..b : s[k] = text[i + k - 1]

TailKept(text, i, s, a) ==
  /\ i <= Len(text) - (Len(s) - a)
  /\ \A k \in a..Len(s) : s[k] = text[Len(text) - Len(s) + k]

EndsAs(text, i, s) ==
  \A a \in 1..Len(s) : Clear(s, a, Len(s)) => TailKept(text, i, s, a)

Unmarked(text, i, s) == Clear(s, 1, Len(s)) => Len(s) = Len(text) + 1 - i

Remains(text, i, word, s) ==
  /\ s \in Seq(Symbol)
  /\ Runs(text, i, word, s) /\ StartsAs(text, i, s) /\ EndsAs(text, i, s)
  /\ Unmarked(text, i, s)

\* A sequence with one more symbol in front.
LEMMA InFront ==
  ASSUME NEW x \in Symbol, NEW s \in Seq(Symbol)
  PROVE  /\ <<x>> \o s \in Seq(Symbol) /\ Len(<<x>> \o s) = Len(s) + 1
         /\ (<<x>> \o s)[1] = x
         /\ \A k \in 1..Len(s) : (<<x>> \o s)[k + 1] = s[k]
  OBVIOUS

\* Whatever comes in front, what is behind it goes on as it did.
LEMMA RunsBehind ==
  ASSUME NEW text \in Seq(Symbol), NEW word, NEW j \in Nat,
         NEW s, Remains(text, j, word, s), NEW n,
         Len(n) = Len(s) + 1, \A k \in 1..Len(s) : n[k + 1] = s[k],
         NEW a \in 2..(Len(s) + 1), NEW b \in 2..(Len(s) + 1),
         a <= b, Clear(n, a, b)
  PROVE  \E t \in j..Len(text) :
           ~Begins(text, t, word) /\ Copied(text, t, n, a, b)
<1>1. s \in Seq(Symbol) /\ Len(s) \in Nat /\ Len(text) \in Nat
  BY DEF Remains
<1>2. Len(n) = Len(s) + 1 /\ \A k \in 1..Len(s) : n[k + 1] = s[k]
  OBVIOUS
<1>3. Clear(s, a - 1, b - 1)
  <2> SUFFICES ASSUME NEW k \in (a - 1)..(b - 1) PROVE s[k] # Mark
    BY DEF Clear
  <2>1. k \in 1..Len(s) /\ k + 1 \in a..b
    BY <1>1
  <2>2. QED
    BY <1>2, <2>1 DEF Clear
<1>4. a - 1 \in 1..Len(s) /\ b - 1 \in 1..Len(s) /\ a - 1 <= b - 1
  BY <1>1
<1>5. PICK t \in j..Len(text) :
        ~Begins(text, t, word) /\ Copied(text, t, s, a - 1, b - 1)
  BY <1>3, <1>4 DEF Remains, Runs
<1>6. /\ t + (b - a) <= Len(text)
      /\ \A k \in 0..(b - a) : s[(a - 1) + k] = text[t + k]
  <2>1. (b - 1) - (a - 1) = b - a
    OBVIOUS
  <2>2. QED
    BY <1>5, <2>1 DEF Copied
<1>7. ASSUME NEW k \in 0..(b - a)
      PROVE  n[a + k] = text[t + k]
  <2>1. (a - 1) + k \in 1..Len(s) /\ ((a - 1) + k) + 1 = a + k
    BY <1>1
  <2>2. n[((a - 1) + k) + 1] = s[(a - 1) + k]
    BY <1>2, <2>1
  <2>3. s[(a - 1) + k] = text[t + k]
    BY <1>6
  <2>4. QED
    BY <2>1, <2>2, <2>3
<1>8. QED
  BY <1>5, <1>6, <1>7 DEF Copied

LEMMA EndsBehind ==
  ASSUME NEW text \in Seq(Symbol), NEW word, NEW j \in Nat,
         NEW s, Remains(text, j, word, s), NEW n,
         Len(n) = Len(s) + 1, \A k \in 1..Len(s) : n[k + 1] = s[k],
         NEW a \in 2..(Len(s) + 1), Clear(n, a, Len(n))
  PROVE  TailKept(text, j, n, a)
<1>1. s \in Seq(Symbol) /\ Len(s) \in Nat /\ Len(text) \in Nat
  BY DEF Remains
<1>2. Len(n) = Len(s) + 1 /\ \A k \in 1..Len(s) : n[k + 1] = s[k]
  OBVIOUS
<1>3. Clear(s, a - 1, Len(s))
  <2> SUFFICES ASSUME NEW k \in (a - 1)..Len(s) PROVE s[k] # Mark
    BY DEF Clear
  <2>1. k \in 1..Len(s) /\ k + 1 \in a..(Len(s) + 1)
    BY <1>1
  <2>2. QED
    BY <1>2, <2>1 DEF Clear
<1>4. a - 1 \in 1..Len(s)
  BY <1>1
<1>5. /\ j <= Len(text) - (Len(s) - (a - 1))
      /\ \A k \in (a - 1)..Len(s) : s[k] = text[Len(text) - Len(s) + k]
  BY <1>3, <1>4 DEF Remains, EndsAs, TailKept
<1>6. j <= Len(text) - (Len(n) - a)
  BY <1>1, <1>5
<1>7. ASSUME NEW k \in a..Len(n)
      PROVE  n[k] = text[Len(text) - Len(n) + k]
  <2>1. /\ k - 1 \in (a - 1)..Len(s) /\ k - 1 \in 1..Len(s) /\ (k - 1) + 1 = k
        /\ Len(text) - Len(s) + (k - 1) = Len(text) - Len(n) + k
    BY <1>1
  <2>2. QED
    BY <1>2, <1>5, <2>1
<1>8. QED
  BY <1>6, <1>7 DEF TailKept

\* A mark in front of what is left behind the word.
LEMMA MarkInFront ==
  ASSUME NEW text \in Seq(Symbol), NEW word, NEW i \in Nat \ {0}, NEW j \in Nat,
         i <= j, j <= Len(text) + 1, NEW s, Remains(text, j, word, s)
  PROVE  Remains(text, i, word, <<Mark>> \o s)
<1> DEFINE n == <<Mark>> \o s
<1>1. s \in Seq(Symbol) /\ Len(s) \in Nat /\ Len(text) \in Nat /\ Mark \in Symbol
      /\ i \in Nat
  BY DEF Remains, Symbol
<1>2. /\ n \in Seq(Symbol) /\ Len(n) = Len(s) + 1 /\ n[1] = Mark
      /\ \A k \in 1..Len(s) : n[k + 1] = s[k]
  BY <1>1, InFront
<1> HIDE DEF n
<1>3. \A a, b \in 1..Len(n) : a <= b /\ Clear(n, a, b) => a >= 2 /\ b >= 2
  BY <1>1, <1>2 DEF Clear
<1>4. Runs(text, i, word, n)
  <2> SUFFICES ASSUME NEW a \in 1..Len(n), NEW b \in 1..Len(n), a <= b, Clear(n, a, b)
               PROVE  \E t \in i..Len(text) :
           ~Begins(text, t, word) /\ Copied(text, t, n, a, b)
    BY DEF Runs
  <2>1. a \in 2..(Len(s) + 1) /\ b \in 2..(Len(s) + 1)
    BY <1>1, <1>2, <1>3
  <2>2. \E t \in j..Len(text) :
           ~Begins(text, t, word) /\ Copied(text, t, n, a, b)
    BY <1>2, <2>1, RunsBehind
  <2>3. \A t \in j..Len(text) : t \in i..Len(text)
    BY <1>1
  <2>4. QED
    BY <2>2, <2>3
<1>5. StartsAs(text, i, n)
  <2> SUFFICES ASSUME NEW b \in 0..Len(n), Clear(n, 1, b)
               PROVE  i + b - 1 <= Len(text) /\ \A k \in 1..b : n[k] = text[i + k - 1]
    BY DEF StartsAs
  <2>1. b = 0
    BY <1>1, <1>2 DEF Clear
  <2>2. QED
    BY <1>1, <2>1
<1>6. EndsAs(text, i, n)
  <2> SUFFICES ASSUME NEW a \in 1..Len(n), Clear(n, a, Len(n))
               PROVE  TailKept(text, i, n, a)
    BY DEF EndsAs
  <2>1. a \in 2..(Len(s) + 1) /\ Len(n) = Len(s) + 1
    BY <1>1, <1>2, <1>3
  <2>2. TailKept(text, j, n, a)
    BY <1>2, <2>1, EndsBehind
  <2>3. QED
    BY <1>1, <2>1, <2>2 DEF TailKept
<1>7. Unmarked(text, i, n)
  BY <1>1, <1>2, <1>3 DEF Unmarked
<1>8. QED
  BY <1>2, <1>4, <1>5, <1>6, <1>7 DEF Remains, n

\* The next symbol, where the word does not begin, in front of what is left
\* of the text behind it.
LEMMA NextInFront ==
  ASSUME NEW text \in Seq(Symbol), NEW word, NEW i \in 1..Len(text),
         ~Begins(text, i, word), NEW s, Remains(text, i + 1, word, s)
  PROVE  Remains(text, i, word, <<text[i]>> \o s)
<1> DEFINE x == text[i]
           n == <<x>> \o s
<1>1. /\ s \in Seq(Symbol) /\ Len(s) \in Nat /\ Len(text) \in Nat /\ x \in Symbol
      /\ i \in Nat /\ i + 1 \in Nat
  BY DEF Remains
<1>2. /\ n \in Seq(Symbol) /\ Len(n) = Len(s) + 1 /\ n[1] = x
      /\ \A k \in 1..Len(s) : n[k + 1] = s[k]
  <2> HIDE DEF x
  <2>1. QED
    BY <1>1, InFront
<1> HIDE DEF n
<1>3. ASSUME NEW b \in 1..Len(n), Clear(n, 1, b)
      PROVE  i + b - 1 <= Len(text) /\ \A k \in 1..b : n[k] = text[i + k - 1]
  <2>1. Clear(s, 1, b - 1)
    <3> SUFFICES ASSUME NEW k \in 1..(b - 1) PROVE s[k] # Mark
      BY DEF Clear
    <3>1. k \in 1..Len(s) /\ k + 1 \in 1..b
      BY <1>1, <1>2
    <3>2. QED
      BY <1>2, <1>3, <3>1 DEF Clear
  <2>2. b - 1 \in 0..Len(s)
    BY <1>1, <1>2
  <2>3. /\ (i + 1) + (b - 1) - 1 <= Len(text)
        /\ \A k \in 1..(b - 1) : s[k] = text[(i + 1) + k - 1]
    BY <2>1, <2>2 DEF Remains, StartsAs
  <2>4. ASSUME NEW k \in 1..b
        PROVE  n[k] = text[i + k - 1]
    <3>1. CASE k = 1
      BY <1>1, <1>2, <3>1
    <3>2. CASE k # 1
      <4>0. k \in Int /\ b \in Int /\ i \in Int /\ Len(s) \in Int /\ b <= Len(s) + 1
        BY <1>1, <1>2
      <4>1. /\ k - 1 \in 1..(b - 1) /\ k - 1 \in 1..Len(s) /\ (k - 1) + 1 = k
            /\ (i + 1) + (k - 1) - 1 = i + k - 1
        BY <3>2, <4>0
      <4>2. QED
        BY <1>2, <2>3, <4>1
    <3>3. QED
      BY <3>1, <3>2
  <2>5. QED
    BY <1>1, <2>3, <2>4
<1>4. Runs(text, i, word, n)
  <2> SUFFICES ASSUME NEW a \in 1..Len(n), NEW b \in 1..Len(n), a <= b, Clear(n, a, b)
               PROVE  \E t \in i..Len(text) :
           ~Begins(text, t, word) /\ Copied(text, t, n, a, b)
    BY DEF Runs
  <2>1. CASE a = 1
    <3>1. i + b - 1 <= Len(text) /\ \A k \in 1..b : n[k] = text[i + k - 1]
      BY <1>3, <2>1
    <3>2. i + (b - a) <= Len(text) /\ i \in i..Len(text)
      BY <1>1, <2>1, <3>1
    <3>3. ASSUME NEW k \in 0..(b - a)
          PROVE  n[a + k] = text[i + k]
      <4>1. a + k \in 1..b /\ i + (a + k) - 1 = i + k
        BY <1>1, <2>1
      <4>2. QED
        BY <3>1, <4>1
    <3>4. Copied(text, i, n, a, b)
      BY <3>2, <3>3 DEF Copied
    <3>5. QED
      BY <3>2, <3>4
  <2>2. CASE a # 1
    <3>1. a \in 2..(Len(s) + 1) /\ b \in 2..(Len(s) + 1) /\ i <= i + 1
      BY <1>1, <1>2, <2>2
    <3>2. \E t \in (i + 1)..Len(text) :
           ~Begins(text, t, word) /\ Copied(text, t, n, a, b)
      BY <1>1, <1>2, <3>1, RunsBehind
    <3>3. \A t \in (i + 1)..Len(text) : t \in i..Len(text)
      BY <1>1
    <3>4. QED
      BY <3>2, <3>3
  <2>3. QED
    BY <2>1, <2>2
<1>5. StartsAs(text, i, n)
  <2> SUFFICES ASSUME NEW b \in 0..Len(n), Clear(n, 1, b)
               PROVE  i + b - 1 <= Len(text) /\ \A k \in 1..b : n[k] = text[i + k - 1]
    BY DEF StartsAs
  <2>1. CASE b = 0
    BY <1>1, <2>1
  <2>2. CASE b # 0
    BY <1>2, <1>3, <2>2
  <2>3. QED
    BY <2>1, <2>2
<1>6. Unmarked(text, i, n)
  <2> SUFFICES ASSUME Clear(n, 1, Len(n)) PROVE Len(n) = Len(text) + 1 - i
    BY DEF Unmarked
  <2>1. Clear(s, 1, Len(s))
    <3> SUFFICES ASSUME NEW k \in 1..Len(s) PROVE s[k] # Mark
      BY DEF Clear
    <3>1. k + 1 \in 1..Len(n)
      BY <1>1, <1>2
    <3>2. QED
      BY <1>2, <3>1 DEF Clear
  <2>2. Len(s) = Len(text) + 1 - (i + 1)
    BY <2>1 DEF Remains, Unmarked
  <2>3. QED
    BY <1>1, <1>2, <2>2
<1>7. EndsAs(text, i, n)
  <2> SUFFICES ASSUME NEW a \in 1..Len(n), Clear(n, a, Len(n))
               PROVE  TailKept(text, i, n, a)
    BY DEF EndsAs
  <2>1. CASE a = 1
    <3>1. Len(n) \in 1..Len(n) /\ Clear(n, 1, Len(n))
      BY <1>1, <1>2, <2>1
    <3>2. \A k \in 1..Len(n) : n[k] = text[i + k - 1]
      BY <1>3, <3>1
    <3>3. Len(n) = Len(text) + 1 - i
      BY <3>1, <1>6 DEF Unmarked
    <3>4. ASSUME NEW k \in a..Len(n)
          PROVE  n[k] = text[Len(text) - Len(n) + k]
      <4>0. Len(n) \in Int /\ k \in 1..Len(n)
        BY <1>1, <1>2, <2>1
      <4>1. Len(text) - Len(n) + k = i + k - 1
        BY <1>1, <3>3, <4>0
      <4>2. QED
        BY <3>2, <4>0, <4>1
    <3>5. i <= Len(text) - (Len(n) - a)
      BY <1>1, <2>1, <3>3
    <3>6. QED
      BY <3>4, <3>5 DEF TailKept
  <2>2. CASE a # 1
    <3>1. a \in 2..(Len(s) + 1) /\ Len(n) = Len(s) + 1 /\ i <= i + 1
      BY <1>1, <1>2, <2>2
    <3>2. TailKept(text, i + 1, n, a)
      BY <1>1, <1>2, <3>1, EndsBehind
    <3>3. QED
      BY <1>1, <3>1, <3>2 DEF TailKept
  <2>3. QED
    BY <2>1, <2>2
<1>8. QED
  BY <1>2, <1>4, <1>5, <1>6, <1>7 DEF Remains, n

\* Replacing leaves what remains of the whole text.
LEMMA ReplaceRemains ==
  ASSUME NEW text \in Seq(Symbol), NEW word \in Seq(Symbol), word # <<>>
  PROVE  Remains(text, 1, word, Replace(text, word))
<1> DEFINE L == Len(text)
<1>1. PICK from : /\ from = [i \in 1..(L + 1) |-> FromStep(text, word, from, i)]
                  /\ Replace(text, word) = from[1]
  BY ReplaceIs
<1>2. L \in Nat /\ Len(word) \in Nat \ {0}
  OBVIOUS
<1>3. \A i \in 1..(L + 1) : from[i] = FromStep(text, word, from, i)
  BY <1>1
<1> DEFINE Good(i) == Remains(text, i, word, from[i])
           T == {m \in Nat : m <= L => \A i \in (L + 1 - m)..(L + 1) : Good(i)}
<1>4. 0 \in T
  <2>1. from[L + 1] = <<>>
    <3>1. L + 1 \in 1..(L + 1) /\ L + 1 > L
      BY <1>2
    <3>2. from[L + 1] = FromStep(text, word, from, L + 1)
      BY <1>3, <3>1
    <3>3. QED
      BY <3>1, <3>2 DEF FromStep
  <2>2. Remains(text, L + 1, word, <<>>)
    <3>1. <<>> \in Seq(Symbol) /\ Len(<<>>) = 0
      OBVIOUS
    <3>2. Runs(text, L + 1, word, <<>>) /\ EndsAs(text, L + 1, <<>>)
      BY <3>1 DEF Runs, EndsAs
    <3>3. StartsAs(text, L + 1, <<>>)
      BY <1>2, <3>1 DEF StartsAs
    <3>4. Unmarked(text, L + 1, <<>>)
      BY <1>2, <3>1 DEF Unmarked
    <3>5. QED
      BY <3>1, <3>2, <3>3, <3>4 DEF Remains
  <2>3. \A i \in (L + 1 - 0)..(L + 1) : i = L + 1
    BY <1>2
  <2>4. QED
    BY <2>1, <2>2, <2>3
<1>5. ASSUME NEW m \in Nat, m \in T
      PROVE  m + 1 \in T
  <2> SUFFICES ASSUME m + 1 <= L, NEW i \in (L + 1 - (m + 1))..(L + 1)
               PROVE  Good(i)
    OBVIOUS
  <2>1. \A j \in (L + 1 - m)..(L + 1) : Good(j)
    BY <1>2, <1>5
  <2>2. CASE i \in (L + 1 - m)..(L + 1)
    BY <2>1, <2>2
  <2>3. CASE i = L - m
    <3>1. i \in 1..L /\ i \in Nat \ {0} /\ i \in 1..(L + 1)
      BY <1>2, <2>3
    <3>2. from[i] = IF Begins(text, i, word) THEN <<Mark>> \o from[i + Len(word)]
                    ELSE <<text[i]>> \o from[i + 1]
      BY <1>2, <1>3, <3>1 DEF FromStep
    <3>3. CASE Begins(text, i, word)
      <4> DEFINE j == i + Len(word)
      <4>1. j \in Nat /\ i <= j /\ j <= L + 1 /\ j \in (L + 1 - m)..(L + 1)
        BY <1>2, <2>3, <3>1, <3>3 DEF Begins
      <4>2. Good(j)
        BY <2>1, <4>1
      <4>3. from[i] = <<Mark>> \o from[j]
        BY <3>2, <3>3
      <4> HIDE DEF j
      <4>4. Remains(text, i, word, <<Mark>> \o from[j])
        BY <3>1, <4>1, <4>2, MarkInFront
      <4>5. QED
        BY <4>3, <4>4
    <3>4. CASE ~Begins(text, i, word)
      <4>1. i + 1 \in (L + 1 - m)..(L + 1)
        BY <1>2, <2>3, <3>1
      <4>2. Good(i + 1)
        BY <2>1, <4>1
      <4>3. from[i] = <<text[i]>> \o from[i + 1]
        BY <3>2, <3>4
      <4>4. Remains(text, i, word, <<text[i]>> \o from[i + 1])
        BY <3>1, <3>4, <4>2, NextInFront
      <4>5. QED
        BY <4>3, <4>4
    <3>5. QED
      BY <3>3, <3>4
  <2>4. i \in (L + 1 - m)..(L + 1) \/ i = L - m
    BY <1>2
  <2>5. QED
    BY <2>2, <2>3, <2>4
<1>6. L \in T
  <2> HIDE DEF T, L
  <2>1. QED
    BY <1>2, <1>4, <1>5, NatSetInduction
<1>7. Good(1)
  <2>1. 1 \in (L + 1 - L)..(L + 1)
    BY <1>2
  <2> HIDE DEF Good, L
  <2>2. QED
    BY <1>2, <1>6, <2>1
<1>8. QED
  BY <1>1, <1>7

\* A word of letters that can be read in what remains was there before, and
\* is not the word that was replaced.
LEMMA WordWasThere ==
  ASSUME NEW text \in Seq(Symbol), NEW word, NEW s, Remains(text, 1, word, s),
         NEW other \in Seq(Char), other # <<>>,
         NEW i \in Nat \ {0}, Begins(s, i, other)
  PROVE  \E t \in Nat \ {0} : Begins(text, t, other) /\ ~Begins(text, t, word)
<1> DEFINE b == i + Len(other) - 1
<1>1. /\ s \in Seq(Symbol) /\ Len(s) \in Nat /\ Len(text) \in Nat
      /\ Len(other) \in Nat \ {0} /\ other \in Seq(Symbol)
  BY DEF Remains, Symbol
<1>2. b <= Len(s) /\ \A k \in 1..Len(other) : s[i + k - 1] = other[k]
  BY <1>1, BeginsThere
<1>3. i \in 1..Len(s) /\ b \in 1..Len(s) /\ i <= b /\ b - i = Len(other) - 1
  BY <1>1, <1>2
<1>4. Clear(s, i, b)
  <2> SUFFICES ASSUME NEW m \in i..b PROVE s[m] # Mark
    BY DEF Clear
  <2> DEFINE k == m - i + 1
  <2>1. k \in 1..Len(other) /\ i + k - 1 = m
    BY <1>1
  <2>2. s[i + k - 1] = other[k] /\ other[k] \in Char
    BY <1>2, <2>1
  <2>3. s[m] \in Char
    BY <2>1, <2>2
  <2>4. QED
    BY <2>3, LogAssumption DEF LogAssumption, Char
<1>5. PICK t \in 1..Len(text) : ~Begins(text, t, word) /\ Copied(text, t, s, i, b)
  BY <1>3, <1>4 DEF Remains, Runs
<1>6. /\ t + (Len(other) - 1) <= Len(text)
      /\ \A k \in 0..(Len(other) - 1) : s[i + k] = text[t + k]
  BY <1>3, <1>5 DEF Copied
<1>7. ASSUME NEW k \in 1..Len(other)
      PROVE  text[t + k - 1] = other[k]
  <2>1. k - 1 \in 0..(Len(other) - 1) /\ i + (k - 1) = i + k - 1 /\ t + (k - 1) = t + k - 1
    BY <1>1
  <2>2. s[i + (k - 1)] = text[t + (k - 1)]
    BY <1>6, <2>1
  <2>3. QED
    BY <1>2, <2>1, <2>2
<1>8. t \in Nat \ {0} /\ t + Len(other) - 1 <= Len(text)
  BY <1>1, <1>6
<1>9. Begins(text, t, other)
  BY <1>1, <1>7, <1>8, BeginsThere
<1>10. QED
  BY <1>5, <1>8, <1>9

(* What a redacted text has to do with the text.                           *)
Redacts(text, out) ==
  /\ out \in Seq(Symbol)
  /\ StartsAs(text, 1, out) /\ EndsAs(text, 1, out) /\ Unmarked(text, 1, out)
  /\ \A i \in Nat \ {0}, w \in 1..2 : ~Begins(out, i, secrets[w])

(* The words of the secrets.                                               *)
TwoWords ==
  \A w \in 1..2 : /\ secrets[w] \in Seq(Char) /\ secrets[w] # <<>>
                  /\ Len(secrets[w]) <= MaxSecret

\* No secret can be read in a redacted text, and up to the first mark from
\* either side it is the text.
LEMMA RedactTextRedacts ==
  ASSUME TwoWords, NEW text \in Seq(Char)
  PROVE  Redacts(text, RedactText(text))
<1> DEFINE one == Replace(text, secrets[1])
           two == Replace(one, secrets[2])
<1>1. /\ secrets[1] \in Seq(Char) /\ secrets[1] # <<>>
      /\ secrets[2] \in Seq(Char) /\ secrets[2] # <<>>
      /\ secrets[1] \in Seq(Symbol) /\ secrets[2] \in Seq(Symbol)
      /\ text \in Seq(Symbol)
  BY DEF TwoWords, Symbol
<1>2. Remains(text, 1, secrets[1], one)
  BY <1>1, ReplaceRemains
<1>3. one \in Seq(Symbol)
  BY <1>2 DEF Remains
<1> HIDE DEF one
<1>4. Remains(one, 1, secrets[2], two)
  BY <1>1, <1>3, ReplaceRemains
<1>5. RedactText(text) = two
  BY DEF RedactText, one
<1>6. two \in Seq(Symbol)
  BY <1>4 DEF Remains
<1> HIDE DEF two
<1>7. Len(text) \in Nat /\ Len(one) \in Nat /\ Len(two) \in Nat
  BY <1>1, <1>3, <1>6
<1>8. ASSUME NEW i \in Nat \ {0}
      PROVE  ~Begins(two, i, secrets[1]) /\ ~Begins(two, i, secrets[2])
  <2>1. ASSUME Begins(two, i, secrets[2])
        PROVE  FALSE
    BY <1>1, <1>3, <1>4, <2>1, WordWasThere
  <2>2. ASSUME Begins(two, i, secrets[1])
        PROVE  FALSE
    <3>1. PICK t \in Nat \ {0} : Begins(one, t, secrets[1])
      BY <1>1, <1>3, <1>4, <2>2, WordWasThere
    <3>2. QED
      BY <1>1, <1>2, <3>1, WordWasThere
  <2>3. QED
    BY <2>1, <2>2
<1>9. ASSUME NEW b \in 0..Len(two), Clear(two, 1, b)
      PROVE  /\ b <= Len(one) /\ b <= Len(text) /\ Clear(one, 1, b)
             /\ \A k \in 1..b : two[k] = text[k]
  <2>1. 1 + b - 1 <= Len(one) /\ \A k \in 1..b : two[k] = one[1 + k - 1]
    BY <1>4, <1>9 DEF Remains, StartsAs
  <2>2. b \in 0..Len(one) /\ \A k \in 1..b : 1 + k - 1 = k
    BY <1>7, <2>1
  <2>3. \A k \in 1..b : two[k] = one[k]
    BY <2>1, <2>2
  <2>4. Clear(one, 1, b)
    BY <1>9, <2>3 DEF Clear
  <2>5. 1 + b - 1 <= Len(text) /\ \A k \in 1..b : one[k] = text[1 + k - 1]
    BY <1>2, <2>2, <2>4 DEF Remains, StartsAs
  <2>6. \A k \in 1..b : one[k] = text[k]
    BY <2>2, <2>5
  <2>7. QED
    BY <1>7, <2>2, <2>3, <2>4, <2>5, <2>6
<1>10. StartsAs(text, 1, two)
  <2> SUFFICES ASSUME NEW b \in 0..Len(two), Clear(two, 1, b)
               PROVE  1 + b - 1 <= Len(text) /\ \A k \in 1..b : two[k] = text[1 + k - 1]
    BY DEF StartsAs
  <2>1. b <= Len(text) /\ \A k \in 1..b : two[k] = text[k]
    BY <1>9
  <2>2. 1 + b - 1 = b /\ \A k \in 1..b : 1 + k - 1 = k
    BY <1>7
  <2>3. QED
    BY <2>1, <2>2
<1>11. Unmarked(text, 1, two)
  <2> SUFFICES ASSUME Clear(two, 1, Len(two)) PROVE Len(two) = Len(text) + 1 - 1
    BY DEF Unmarked
  <2>1. Len(two) = Len(one) + 1 - 1
    BY <1>4 DEF Remains, Unmarked
  <2>2. Len(two) = Len(one) /\ Len(two) \in 0..Len(two)
    BY <1>7, <2>1
  <2>3. Clear(one, 1, Len(one))
    BY <1>9, <2>2
  <2>4. QED
    BY <1>2, <2>2, <2>3 DEF Remains, Unmarked
<1>12. EndsAs(text, 1, two)
  <2> SUFFICES ASSUME NEW a \in 1..Len(two), Clear(two, a, Len(two))
               PROVE  TailKept(text, 1, two, a)
    BY DEF EndsAs
  <2>1. TailKept(one, 1, two, a)
    BY <1>4 DEF Remains, EndsAs
  <2> DEFINE c == Len(one) - Len(two) + a
  <2>2. c \in 1..Len(one) /\ Len(one) - c = Len(two) - a
    BY <1>7, <2>1 DEF TailKept
  <2>3. Clear(one, c, Len(one))
    <3> SUFFICES ASSUME NEW k \in c..Len(one) PROVE one[k] # Mark
      BY DEF Clear
    <3> DEFINE m == k - Len(one) + Len(two)
    <3>1. m \in a..Len(two) /\ Len(one) - Len(two) + m = k
      BY <1>7, <2>2
    <3>2. two[m] = one[Len(one) - Len(two) + m] /\ two[m] # Mark
      BY <2>1, <3>1 DEF TailKept, Clear
    <3>3. QED
      BY <3>1, <3>2
  <2>4. TailKept(text, 1, one, c)
    BY <1>2, <2>2, <2>3 DEF Remains, EndsAs
  <2>5. 1 <= Len(text) - (Len(two) - a)
    BY <1>7, <2>2, <2>4 DEF TailKept
  <2>6. ASSUME NEW k \in a..Len(two)
        PROVE  two[k] = text[Len(text) - Len(two) + k]
    <3> DEFINE m == Len(one) - Len(two) + k
    <3>1. m \in c..Len(one) /\ Len(text) - Len(one) + m = Len(text) - Len(two) + k
      BY <1>7, <2>2
    <3>2. two[k] = one[m]
      BY <2>1 DEF TailKept
    <3>3. one[m] = text[Len(text) - Len(one) + m]
      <4> HIDE DEF m
      <4>1. QED
        BY <2>4, <3>1 DEF TailKept
    <3>4. QED
      BY <3>1, <3>2, <3>3
  <2>7. QED
    BY <2>5, <2>6 DEF TailKept
<1>13. \A i \in Nat \ {0}, w \in 1..2 : ~Begins(two, i, secrets[w])
  BY <1>8
<1>14. QED
  BY <1>5, <1>6, <1>10, <1>11, <1>12, <1>13 DEF Redacts

-----------------------------------------------------------------------------
(* LogStream: where the text is cut.                                       *)

\* What is kept back is shorter than a secret and than the text, and is the
\* longest end of the text that a secret begins with.
LEMMA HoldIs ==
  ASSUME TwoWords, NEW text \in Seq(Symbol)
  PROVE  /\ Hold(text) \in 0..Len(text) /\ Hold(text) <= MaxSecret - 1
         /\ \A k \in 1..(MaxSecret - 1), w \in 1..2 :
              /\ k < Len(secrets[w]) /\ k <= Len(text)
              /\ \A m \in 1..k : text[Len(text) - k + m] = secrets[w][m]
              => k <= Hold(text)
<1> DEFINE ends == {k \in 1..(MaxSecret - 1) :
                      \E w \in 1..2 : /\ k < Len(secrets[w]) /\ k <= Len(text)
                                      /\ SubSeq(text, Len(text) - k + 1, Len(text)) =
                                         SubSeq(secrets[w], 1, k)}
           all == {0} \union ends
<1>1. Len(text) \in Nat /\ MaxSecret - 1 \in Nat
  BY LogAssumption DEF LogAssumption, Char
<1>2. Hold(text) = Biggest(all)
  BY DEF Hold
<1>3. all \in SUBSET (0..(MaxSecret - 1)) /\ all # {} /\ \A k \in all : k <= Len(text)
  BY <1>1
<1>4. ASSUME NEW k \in 1..(MaxSecret - 1), NEW w \in 1..2,
             k < Len(secrets[w]), k <= Len(text),
             \A m \in 1..k : text[Len(text) - k + m] = secrets[w][m]
      PROVE  k \in all
  <2> DEFINE a == SubSeq(text, Len(text) - k + 1, Len(text))
             b == SubSeq(secrets[w], 1, k)
  <2>1. secrets[w] \in Seq(Symbol)
    BY DEF TwoWords, Symbol
  <2>2. a \in Seq(Symbol) /\ Len(a) = k /\ \A m \in 1..k : a[m] = text[Len(text) - k + m]
    BY <1>1, <1>4
  <2>3. b \in Seq(Symbol) /\ Len(b) = k /\ \A m \in 1..k : b[m] = secrets[w][m]
    BY <1>1, <1>4, <2>1
  <2>4. \A m \in 1..k : a[m] = b[m]
    BY <1>4, <2>2, <2>3
  <2> HIDE DEF a, b
  <2>5. a = b
    BY <1>1, <2>2, <2>3, <2>4
  <2>6. QED
    BY <1>4, <2>5 DEF a, b
<1> HIDE DEF all
<1>5. Biggest(all) \in all /\ \A k \in all : k <= Biggest(all)
  BY <1>1, <1>3, BiggestIs
<1>6. Hold(text) \in 0..Len(text) /\ Hold(text) <= MaxSecret - 1
  <2>1. Hold(text) \in all
    BY <1>2, <1>5
  <2>2. Hold(text) \in 0..(MaxSecret - 1) /\ Hold(text) <= Len(text)
    BY <1>3, <2>1
  <2>3. QED
    BY <1>1, <2>2
<1>7. QED
  BY <1>2, <1>4, <1>5, <1>6

(* A place lies within a secret that ends at the cut or before.            *)
Overlaid(text, i, c) ==
  \E a \in 1..Len(text), w \in 1..2 :
    /\ Begins(text, a, secrets[w])
    /\ a <= i /\ i <= a + Len(secrets[w]) - 1 /\ a + Len(secrets[w]) - 1 <= c

(* Where the cut that was to be behind n letters comes to be.              *)
Lands(text, n, c) ==
  /\ c \in n..Len(text) /\ Crossing(text, c) = {}
  /\ \A i \in (n + 1)..c : Overlaid(text, i, c)

(* One step of moving the cut.                                             *)
MoveStep(text, move, n) ==
  IF Crossing(text, n) = {} THEN n ELSE move[Biggest(Crossing(text, n))]

\* Secrets across a cut end behind it.
LEMMA CrossingEnds ==
  ASSUME NEW text \in Seq(Symbol), NEW n \in 0..Len(text), Crossing(text, n) # {}
  PROVE  /\ Biggest(Crossing(text, n)) \in (n + 1)..Len(text)
         /\ \E a \in 1..n, w \in 1..2 :
              /\ Biggest(Crossing(text, n)) = a + Len(secrets[w]) - 1
              /\ Begins(text, a, secrets[w])
<1>1. Len(text) \in Nat /\ Crossing(text, n) \in SUBSET (0..Len(text))
  BY DEF Crossing
<1>2. Biggest(Crossing(text, n)) \in Crossing(text, n)
  BY <1>1, BiggestIs
<1>3. QED
  BY <1>2 DEF Crossing

\* Moving the cut is well defined.
LEMMA SafeCutoffIs ==
  ASSUME NEW text \in Seq(Symbol)
  PROVE  \E move : /\ move = [n \in 0..Len(text) |-> MoveStep(text, move, n)]
                   /\ SafeCutoff(text) = move[Len(text) - Hold(text)]
<1> DEFINE L == Len(text)
           Step(g, n) == MoveStep(text, g, n)
           Fits(g, m) == g = [n \in (L - m)..L |-> Step(g, n)]
           T == {m \in Nat : m <= L => \E g : Fits(g, m)}
           P(g) == g = [n \in 0..L |-> Step(g, n)]
           chosen == CHOOSE g : P(g)
<1>0. L \in Nat
  OBVIOUS
<1>1. 0 \in T
  <2> DEFINE g == [n \in L..L |-> n]
  <2>1. Crossing(text, L) = {}
    BY <1>0 DEF Crossing
  <2>2. \A n \in L..L : Step(g, n) = n
    BY <1>0, <2>1 DEF MoveStep
  <2>3. Fits(g, 0)
    <3> HIDE DEF Step
    <3>1. QED
      BY <1>0, <2>2
  <2> HIDE DEF g, Fits
  <2>4. QED
    BY <2>3
<1>2. ASSUME NEW m \in Nat, m \in T
      PROVE  m + 1 \in T
  <2> SUFFICES ASSUME m + 1 <= L
               PROVE  \E g : Fits(g, m + 1)
    OBVIOUS
  <2>1. PICK g : Fits(g, m)
    BY <1>0, <1>2
  <2> DEFINE h == [n \in (L - (m + 1))..L |-> IF n = L - (m + 1) THEN Step(g, n) ELSE g[n]]
  <2>2. ASSUME NEW n \in (L - (m + 1))..L
        PROVE  h[n] = Step(h, n)
    <3>1. n \in 0..L
      BY <1>0
    <3>2. Crossing(text, n) # {} => h[Biggest(Crossing(text, n))] = g[Biggest(Crossing(text, n))]
      <4>1. SUFFICES ASSUME Crossing(text, n) # {}
                     PROVE  h[Biggest(Crossing(text, n))] = g[Biggest(Crossing(text, n))]
        OBVIOUS
      <4>2. Biggest(Crossing(text, n)) \in (n + 1)..L
        BY <3>1, <4>1, CrossingEnds
      <4> HIDE DEF Step, L
      <4>3. QED
        BY <1>0, <4>2
    <3>3. n = L - (m + 1) \/ g[n] = Step(g, n)
      <4>1. n = L - (m + 1) \/ n \in (L - m)..L
        BY <1>0
      <4> HIDE DEF Step, L
      <4>2. QED
        BY <2>1, <4>1
    <3>4. h[n] = Step(g, n)
      <4> HIDE DEF Step
      <4>1. QED
        BY <3>3
    <3> HIDE DEF h
    <3>5. QED
      BY <3>2, <3>4 DEF MoveStep
  <2>3. Fits(h, m + 1)
    <3> HIDE DEF Step
    <3>1. QED
      BY <2>2
  <2> HIDE DEF h, Fits
  <2>4. QED
    BY <2>3
<1>3. \E g : P(g)
  <2>1. L \in T
    <3> HIDE DEF T, L
    <3>1. QED
      BY <1>0, <1>1, <1>2, NatSetInduction
  <2>2. \E g : Fits(g, L)
    <3> HIDE DEF Fits, L
    <3>1. QED
      BY <1>0, <2>1
  <2>3. L - L = 0
    BY <1>0
  <2> HIDE DEF Step, L
  <2>4. QED
    BY <2>2, <2>3
<1>4. P(chosen)
  <2> HIDE DEF P
  <2>1. QED
    BY <1>3, Zenon
<1>5. SafeCutoff(text) = chosen[Len(text) - Hold(text)]
  BY DEF SafeCutoff, MoveStep
<1> HIDE DEF chosen
<1>6. QED
  BY <1>4, <1>5

\* The text is cut where no secret lies across, and every letter that is not
\* kept back although it may begin one lies within another secret.
LEMMA CutLands ==
  ASSUME TwoWords, NEW text \in Seq(Symbol)
  PROVE  Lands(text, Len(text) - Hold(text), SafeCutoff(text))
<1> DEFINE L == Len(text)
           first == L - Hold(text)
<1>1. L \in Nat
  OBVIOUS
<1>2. first \in 0..L
  BY <1>1, HoldIs
<1>3. PICK move : /\ move = [n \in 0..L |-> MoveStep(text, move, n)]
                  /\ SafeCutoff(text) = move[first]
  BY SafeCutoffIs
<1>4. \A n \in 0..L : move[n] = MoveStep(text, move, n)
  BY <1>3
<1> HIDE DEF first
<1> DEFINE T == {m \in Nat : m <= L => \A n \in (L - m)..L : Lands(text, n, move[n])}
<1>5. 0 \in T
  <2>1. Crossing(text, L) = {}
    BY <1>1 DEF Crossing
  <2>2. move[L] = L
    BY <1>1, <1>4, <2>1 DEF MoveStep
  <2>3. Lands(text, L, L)
    BY <1>1, <2>1 DEF Lands
  <2>4. \A n \in (L - 0)..L : n = L
    BY <1>1
  <2>5. QED
    BY <2>2, <2>3, <2>4
<1>6. ASSUME NEW m \in Nat, m \in T
      PROVE  m + 1 \in T
  <2> SUFFICES ASSUME m + 1 <= L, NEW n \in (L - (m + 1))..L
               PROVE  Lands(text, n, move[n])
    OBVIOUS
  <2>1. \A k \in (L - m)..L : Lands(text, k, move[k])
    BY <1>1, <1>6
  <2>2. CASE n \in (L - m)..L
    BY <2>1, <2>2
  <2>3. CASE n = L - (m + 1)
    <3>1. n \in 0..L
      BY <1>1
    <3>2. CASE Crossing(text, n) = {}
      <4>1. move[n] = n
        BY <1>4, <3>1, <3>2 DEF MoveStep
      <4>2. Lands(text, n, n)
        BY <1>1, <3>1, <3>2 DEF Lands
      <4>3. QED
        BY <4>1, <4>2
    <3>3. CASE Crossing(text, n) # {}
      <4> DEFINE e == Biggest(Crossing(text, n))
                 c == move[n]
      <4>1. e \in (n + 1)..L
        BY <3>1, <3>3, CrossingEnds
      <4>2. PICK a \in 1..n, w \in 1..2 :
              e = a + Len(secrets[w]) - 1 /\ Begins(text, a, secrets[w])
        BY <3>1, <3>3, CrossingEnds
      <4>3. c = move[e]
        BY <1>4, <3>1, <3>3 DEF MoveStep
      <4> HIDE DEF e, c
      <4>4. e \in (L - m)..L
        BY <1>1, <2>3, <4>1
      <4>5. Lands(text, e, c)
        BY <2>1, <4>3, <4>4
      <4>6. /\ c \in e..L /\ Crossing(text, c) = {}
            /\ \A i \in (e + 1)..c : Overlaid(text, i, c)
        BY <4>5 DEF Lands
      <4>7. ASSUME NEW i \in (n + 1)..c
            PROVE  Overlaid(text, i, c)
        <5>1. CASE i > e
          BY <1>1, <4>1, <4>6, <5>1
        <5>2. CASE i <= e
          <6>1. a \in 1..Len(text) /\ a <= i /\ i <= e /\ e <= c
            BY <1>1, <3>1, <4>6, <5>2
          <6>2. QED
            BY <4>2, <6>1 DEF Overlaid
        <5>3. QED
          BY <1>1, <4>1, <5>1, <5>2
      <4>8. c \in n..L
        BY <1>1, <3>1, <4>1, <4>6
      <4>9. Lands(text, n, c)
        BY <4>6, <4>7, <4>8 DEF Lands
      <4>10. QED
        BY <4>9 DEF c
    <3>4. QED
      BY <3>2, <3>3
  <2>4. n \in (L - m)..L \/ n = L - (m + 1)
    BY <1>1
  <2>5. QED
    BY <2>2, <2>3, <2>4
<1>7. L \in T
  <2> HIDE DEF T, L
  <2>1. QED
    BY <1>1, <1>5, <1>6, NatSetInduction
<1>8. first \in (L - L)..L
  BY <1>1, <1>2
<1>9. Lands(text, first, move[first])
  <2> HIDE DEF L
  <2>1. QED
    BY <1>1, <1>7, <1>8
<1>10. QED
  BY <1>3, <1>9 DEF first

(* A text that goes on after another.                                      *)
GoesOn(more, text) ==
  Len(text) <= Len(more) /\ \A k \in 1..Len(text) : more[k] = text[k]

(* A piece of a text, from behind the first d letters.                     *)
Behind(text, d, piece) ==
  d + Len(piece) <= Len(text) /\ \A k \in 1..Len(piece) : piece[k] = text[d + k]

\* What begins in a piece of a text begins in the text.
LEMMA BeginsBehind ==
  ASSUME TwoWords, NEW text \in Seq(Symbol), NEW piece \in Seq(Symbol),
         NEW d \in Nat, Behind(text, d, piece),
         NEW a \in Nat \ {0}, NEW w \in 1..2, Begins(piece, a, secrets[w])
  PROVE  Begins(text, d + a, secrets[w])
<1> DEFINE word == secrets[w]
<1>1. word \in Seq(Symbol) /\ Len(word) \in Nat /\ Len(piece) \in Nat /\ Len(text) \in Nat
  BY DEF TwoWords, Symbol
<1> HIDE DEF word
<1>2. a + Len(word) - 1 <= Len(piece) /\ \A k \in 1..Len(word) : piece[a + k - 1] = word[k]
  BY <1>1, BeginsThere DEF word
<1>3. ASSUME NEW k \in 1..Len(word)
      PROVE  text[(d + a) + k - 1] = word[k]
  <2>1. a + k - 1 \in 1..Len(piece) /\ d + (a + k - 1) = (d + a) + k - 1
    BY <1>1, <1>2
  <2>2. piece[a + k - 1] = text[d + (a + k - 1)]
    BY <2>1 DEF Behind
  <2>3. QED
    BY <1>2, <2>1, <2>2
<1>4. d + a \in Nat \ {0} /\ (d + a) + Len(word) - 1 <= Len(text)
  BY <1>1, <1>2 DEF Behind
<1>5. QED
  BY <1>1, <1>3, <1>4, BeginsThere DEF word

\* And what begins in the text and ends in the piece is in the piece.
LEMMA BeginsWithin ==
  ASSUME TwoWords, NEW text \in Seq(Symbol), NEW piece \in Seq(Symbol),
         NEW d \in Nat, Behind(text, d, piece),
         NEW a \in Nat \ {0}, NEW w \in 1..2, Begins(text, d + a, secrets[w]),
         a + Len(secrets[w]) - 1 <= Len(piece)
  PROVE  Begins(piece, a, secrets[w])
<1> DEFINE word == secrets[w]
<1>1. word \in Seq(Symbol) /\ Len(word) \in Nat /\ Len(piece) \in Nat /\ Len(text) \in Nat
      /\ d + a \in Nat \ {0} /\ a + Len(word) - 1 <= Len(piece)
  BY DEF TwoWords, Symbol
<1> HIDE DEF word
<1>2. \A k \in 1..Len(word) : text[(d + a) + k - 1] = word[k]
  BY <1>1, BeginsThere DEF word
<1>3. ASSUME NEW k \in 1..Len(word)
      PROVE  piece[a + k - 1] = word[k]
  <2>1. a + k - 1 \in 1..Len(piece) /\ d + (a + k - 1) = (d + a) + k - 1
    BY <1>1
  <2>2. piece[a + k - 1] = text[d + (a + k - 1)]
    BY <2>1 DEF Behind
  <2>3. QED
    BY <1>2, <2>1, <2>2
<1>4. QED
  BY <1>1, <1>3, BeginsThere DEF word

\* A secret that begins somewhere has a place there.
LEMMA PlaceOf ==
  ASSUME TwoWords, NEW text \in Seq(Symbol), NEW a \in Nat \ {0}, NEW w \in 1..2,
         Begins(text, a, secrets[w])
  PROVE  /\ <<a, a + Len(secrets[w]) - 1>> \in Places(text)
         /\ a <= a + Len(secrets[w]) - 1 /\ a + Len(secrets[w]) - 1 <= Len(text)
<1> DEFINE b == a + Len(secrets[w]) - 1
<1>1. Len(secrets[w]) \in Nat \ {0} /\ Len(text) \in Nat
  BY DEF TwoWords
<1>2. b <= Len(text)
  BY DEF Begins
<1>3. a \in 1..Len(text) /\ b \in 1..Len(text) /\ a <= b
  BY <1>1, <1>2
<1> HIDE DEF b
<1>4. <<a, b>> \in Places(text)
  BY <1>3 DEF Places, b
<1>5. QED
  BY <1>2, <1>3, <1>4 DEF b

(* No secret can be read in a text.                                        *)
Silent(text) == \A a \in Nat \ {0}, w \in 1..2 : ~Begins(text, a, secrets[w])

LEMMA SilentHasNoPlaces ==
  ASSUME TwoWords, NEW text \in Seq(Symbol)
  PROVE  Silent(text) <=> Places(text) = {}
<1>1. ASSUME Silent(text)
      PROVE  Places(text) = {}
  <2>1. \A a \in 1..Len(text) : a \in Nat \ {0}
    OBVIOUS
  <2>2. QED
    BY <1>1, <2>1 DEF Silent, Places
<1>2. ASSUME Places(text) = {}
      PROVE  Silent(text)
  BY <1>2, PlaceOf DEF Silent
<1>3. QED
  BY <1>1, <1>2

\* A text whose secrets lie apart has them apart in its beginning too.
LEMMA ApartBefore ==
  ASSUME TwoWords, NEW text \in Seq(Symbol), NEW more \in Seq(Symbol),
         GoesOn(more, text), Apart(Places(more))
  PROVE  Apart(Places(text))
<1>1. Behind(more, 0, text)
  BY DEF GoesOn, Behind
<1>2. ASSUME NEW p \in Places(text)
      PROVE  p \in Places(more)
  <2>1. PICK w \in 1..2 : p[2] = p[1] + Len(secrets[w]) - 1 /\ Begins(text, p[1], secrets[w])
    BY <1>2 DEF Places
  <2>2. p = <<p[1], p[2]>> /\ p[1] \in Nat \ {0}
    BY <1>2 DEF Places
  <2>3. 0 + p[1] = p[1]
    BY <2>2
  <2>4. Begins(more, p[1], secrets[w])
    BY <1>1, <2>1, <2>2, <2>3, BeginsBehind
  <2>5. <<p[1], p[1] + Len(secrets[w]) - 1>> \in Places(more)
    BY <2>2, <2>4, PlaceOf
  <2>6. QED
    BY <2>1, <2>2, <2>5
<1>3. QED
  BY <1>2 DEF Apart

(* However a text goes on, no secret lies across the cut behind its first  *)
(* d letters, as long as they lie apart.                                   *)
CutIsSafe(text, d) ==
  \A more \in Seq(Char) :
    GoesOn(more, text) /\ Apart(Places(more)) => Crossing(more, d) = {}

\* Where the next cut is made, no secret will lie across it either: it would
\* be one that is complete, or begin in what might have to be kept back.
LEMMA NextCutIsSafe ==
  ASSUME TwoWords, NEW text \in Seq(Char), NEW d \in 0..Len(text), CutIsSafe(text, d),
         NEW more \in Seq(Char), GoesOn(more, text),
         NEW piece \in Seq(Char), Behind(more, d, piece), d + Len(piece) = Len(more)
  PROVE  CutIsSafe(more, d + SafeCutoff(piece))
<1> DEFINE c == SafeCutoff(piece)
           first == Len(piece) - Hold(piece)
<1>1. /\ text \in Seq(Symbol) /\ more \in Seq(Symbol) /\ piece \in Seq(Symbol)
      /\ Len(text) \in Nat /\ Len(more) \in Nat /\ Len(piece) \in Nat /\ d \in Nat
  BY DEF Symbol
<1>2. /\ c \in first..Len(piece) /\ Crossing(piece, c) = {}
      /\ \A i \in (first + 1)..c : Overlaid(piece, i, c)
  BY <1>1, CutLands DEF Lands
<1>3. Hold(piece) \in 0..Len(piece)
  BY <1>1, HoldIs
<1> HIDE DEF c
<1>4. c \in 0..Len(piece)
  BY <1>1, <1>2, <1>3
<1> SUFFICES ASSUME NEW t \in Seq(Char), GoesOn(t, more), Apart(Places(t)),
                    NEW m \in Crossing(t, d + c)
             PROVE  FALSE
  BY DEF CutIsSafe, c
<1>5. t \in Seq(Symbol) /\ Len(t) \in Nat
  BY DEF Symbol
<1>6. PICK a \in 1..(d + c), w \in 1..2 : m = a + Len(secrets[w]) - 1 /\ Begins(t, a, secrets[w])
  BY DEF Crossing
<1>7. m \in (d + c + 1)..Len(t)
  BY DEF Crossing
<1>8. GoesOn(t, text) /\ Behind(t, d, piece)
  <2>1. Len(text) <= Len(t) /\ d + Len(piece) <= Len(t)
    BY <1>1, <1>5 DEF GoesOn
  <2>2. \A k \in 1..Len(text) : t[k] = text[k]
    BY <1>1 DEF GoesOn
  <2>3. ASSUME NEW k \in 1..Len(piece)
        PROVE  piece[k] = t[d + k]
    <3>1. d + k \in 1..Len(more)
      BY <1>1
    <3>2. QED
      BY <3>1 DEF GoesOn, Behind
  <2>4. QED
    BY <2>1, <2>2, <2>3 DEF GoesOn, Behind
<1>9. CASE a <= d
  <2>1. a \in 1..d /\ m \in (d + 1)..Len(t)
    BY <1>1, <1>4, <1>5, <1>6, <1>7, <1>9
  <2>2. m \in Crossing(t, d)
    BY <1>6, <2>1 DEF Crossing
  <2>3. QED
    BY <1>8, <2>2 DEF CutIsSafe
<1>10. CASE a > d
  <2> DEFINE i == a - d
             word == secrets[w]
  <2>1. i \in 1..c /\ i \in Nat \ {0} /\ a = d + i
    BY <1>1, <1>4, <1>10
  <2>2. word \in Seq(Symbol) /\ Len(word) \in Nat \ {0} /\ Len(word) <= MaxSecret
    BY DEF TwoWords, Symbol
  <2> HIDE DEF i
  <2>a. /\ i \in Int /\ a \in Int /\ d \in Int /\ c \in Int /\ m \in Int
        /\ Len(piece) \in Int /\ Len(more) \in Int /\ d + Len(piece) = Len(more)
    BY <1>1, <1>4, <1>5, <1>7, <2>1
  <2>b. m = a + Len(word) - 1
    BY <1>6
  <2> HIDE DEF word
  <2>c. m = (d + i) + Len(word) - 1
    BY <2>1, <2>b
  <2>3. CASE m <= Len(more)
    <3>0. i + Len(word) - 1 = m - d /\ i + Len(word) - 1 <= Len(piece)
      BY <2>2, <2>3, <2>a, <2>c
    <3>1. i + Len(secrets[w]) - 1 = m - d /\ i + Len(secrets[w]) - 1 <= Len(piece)
      BY <3>0 DEF word
    <3>2. Begins(piece, i, secrets[w])
      BY <1>1, <1>5, <1>6, <1>8, <2>1, <3>1, BeginsWithin
    <3>3. m - d \in (c + 1)..Len(piece)
      BY <1>1, <1>4, <1>5, <1>7, <2>3
    <3>4. m - d \in Crossing(piece, c)
      BY <2>1, <3>1, <3>2, <3>3 DEF Crossing
    <3>5. QED
      BY <1>2, <3>4
  <2>4. CASE m > Len(more)
    <3> DEFINE k == Len(piece) - i + 1
    <3>1. k \in 1..(MaxSecret - 1) /\ k < Len(word) /\ k <= Len(piece)
      <4>1. MaxSecret \in Int
        BY LogAssumption DEF LogAssumption, Char
      <4>2. i <= Len(piece) /\ 1 <= i
        BY <1>1, <1>4, <2>1, <2>a
      <4>3. k = Len(piece) - i + 1 /\ Len(word) \in Int
        BY <2>2
      <4> HIDE DEF k
      <4>4. QED
        BY <2>2, <2>4, <2>a, <2>c, <4>1, <4>2, <4>3
    <3>2. ASSUME NEW j \in 1..k
          PROVE  piece[Len(piece) - k + j] = word[j]
      <4>1. j \in 1..Len(word) /\ Len(piece) - k + j = i + j - 1 /\ i + j - 1 \in 1..Len(piece)
            /\ d + (i + j - 1) = a + j - 1
        BY <1>1, <2>1, <2>2, <3>1
      <4>2. t[a + j - 1] = word[j]
        <5>1. a \in Nat \ {0}
          BY <1>1, <1>4
        <5>2. \A x \in 1..Len(word) : t[a + x - 1] = word[x]
          BY <1>5, <1>6, <2>2, <5>1, BeginsThere DEF word
        <5>3. QED
          BY <4>1, <5>2
      <4>3. piece[i + j - 1] = t[d + (i + j - 1)]
        BY <1>8, <4>1 DEF Behind
      <4>4. QED
        BY <4>1, <4>2, <4>3
    <3>3. k <= Hold(piece)
      <4> HIDE DEF k
      <4>1. QED
        BY <1>1, <3>1, <3>2, HoldIs DEF word
    <3>4. i \in (first + 1)..c
      BY <1>1, <1>3, <1>4, <2>1, <3>3
    <3>5. Overlaid(piece, i, c)
      <4> HIDE DEF first
      <4>1. QED
        BY <1>2, <3>4
    <3>6. PICK b \in 1..Len(piece), v \in 1..2 :
            /\ Begins(piece, b, secrets[v])
            /\ b <= i /\ i <= b + Len(secrets[v]) - 1 /\ b + Len(secrets[v]) - 1 <= c
      BY <3>5 DEF Overlaid
    <3> DEFINE p == <<a, a + Len(secrets[w]) - 1>>
               q == <<d + b, (d + b) + Len(secrets[v]) - 1>>
    <3>7. Begins(t, d + b, secrets[v])
      BY <1>1, <1>5, <1>8, <3>6, BeginsBehind
    <3>8. a \in Nat \ {0} /\ d + b \in Nat \ {0}
      BY <1>1, <1>4
    <3>9. p \in Places(t)
      BY <1>5, <1>6, <3>8, PlaceOf
    <3>10. q \in Places(t)
      BY <1>5, <3>7, <3>8, PlaceOf
    <3>11. p = q \/ p[2] < q[1] \/ q[2] < p[1]
      <4> HIDE DEF p, q
      <4>1. QED
        BY <3>9, <3>10 DEF Apart
    <3>12. Len(secrets[v]) \in Nat
      BY DEF TwoWords
    <3>13. /\ a + Len(secrets[w]) - 1 = m
           /\ (d + b) + Len(secrets[v]) - 1 <= d + c
           /\ d + b <= a /\ a <= (d + b) + Len(secrets[v]) - 1
      <4>1. a + Len(secrets[w]) - 1 = m
        BY <1>6
      <4>2. /\ b \in Int /\ b <= i /\ i <= b + Len(secrets[v]) - 1
            /\ b + Len(secrets[v]) - 1 <= c
        BY <1>1, <3>6
      <4> DEFINE lv == Len(secrets[v])
      <4>3. lv \in Int /\ i <= b + lv - 1 /\ b + lv - 1 <= c
        BY <3>12, <4>2
      <4> HIDE DEF lv
      <4>4. (d + b) + lv - 1 <= d + c
        BY <2>a, <4>2, <4>3
      <4>5. d + b <= a /\ a <= (d + b) + lv - 1
        BY <2>1, <2>a, <4>2, <4>3
      <4>6. QED
        BY <4>1, <4>4, <4>5 DEF lv
    <3>14. p[1] = a /\ p[2] = m /\ q[1] = d + b /\ q[2] <= d + c /\ q[2] >= a
      BY <3>13
    <3>15. m > d + c /\ m >= a /\ b \in Int
      BY <1>1, <2>2, <1>4, <1>7, <2>a, <2>b
    <3>16. q[2] \in Int
      BY <2>a, <3>12, <3>15
    <3> HIDE DEF p, q
    <3>17. QED
      BY <2>a, <3>11, <3>13, <3>14, <3>15, <3>16
  <2>5. QED
    BY <1>1, <1>5, <1>7, <2>3, <2>4
<1>11. QED
  BY <1>1, <1>4, <1>9, <1>10

(* What was handed on ends as the first d letters of the text do, up to    *)
(* the last mark in it.                                                    *)
Trail(text, d, s, a) ==
  /\ Len(s) - a < d
  /\ \A k \in a..Len(s) : s[k] = text[d - Len(s) + k]

EndsWith(text, d, s) ==
  \A a \in 1..Len(s) : Clear(s, a, Len(s)) => Trail(text, d, s, a)

\* Which it still does when the text goes on.
LEMMA EndsWithMore ==
  ASSUME NEW text \in Seq(Symbol), NEW more \in Seq(Symbol), GoesOn(more, text),
         NEW d \in 0..Len(text), NEW s \in Seq(Symbol), EndsWith(text, d, s)
  PROVE  EndsWith(more, d, s)
<1> SUFFICES ASSUME NEW a \in 1..Len(s), Clear(s, a, Len(s))
             PROVE  Trail(more, d, s, a)
  BY DEF EndsWith
<1>1. Trail(text, d, s, a)
  BY DEF EndsWith
<1>2. Len(s) \in Nat /\ Len(text) \in Nat
  OBVIOUS
<1>3. ASSUME NEW k \in a..Len(s)
      PROVE  s[k] = more[d - Len(s) + k]
  <2>1. s[k] = text[d - Len(s) + k] /\ Len(s) - a < d
    BY <1>1 DEF Trail
  <2>2. d - Len(s) + k \in 1..Len(text)
    BY <1>2, <2>1
  <2>3. QED
    BY <2>1, <2>2 DEF GoesOn
<1>4. QED
  BY <1>1, <1>3 DEF Trail

\* Two texts put together.
LEMMA Together ==
  ASSUME NEW s \in Seq(Symbol), NEW z \in Seq(Symbol)
  PROVE  /\ s \o z \in Seq(Symbol) /\ Len(s \o z) = Len(s) + Len(z)
         /\ \A k \in 1..Len(s) : (s \o z)[k] = s[k]
         /\ \A k \in 1..Len(z) : (s \o z)[Len(s) + k] = z[k]
  OBVIOUS

\* Handing on the next piece, redacted, keeps that.
LEMMA EndsWithNext ==
  ASSUME TwoWords, NEW text \in Seq(Char), NEW d \in 0..Len(text),
         NEW s \in Seq(Symbol), EndsWith(text, d, s),
         NEW piece \in Seq(Char), Behind(text, d, piece),
         NEW z, Redacts(piece, z)
  PROVE  EndsWith(text, d + Len(piece), s \o z)
<1> DEFINE n == s \o z
           ls == Len(s)
           lz == Len(z)
           lp == Len(piece)
<1>1. z \in Seq(Symbol)
  BY DEF Redacts
<1>2. /\ ls \in Nat /\ lz \in Nat /\ lp \in Nat /\ Len(text) \in Nat /\ d \in Nat
      /\ d + lp <= Len(text)
  BY <1>1 DEF Behind
<1>3. /\ Len(n) = ls + lz
      /\ \A k \in 1..ls : n[k] = s[k]
      /\ \A k \in 1..lz : n[ls + k] = z[k]
  BY <1>1, Together
<1> HIDE DEF n
<1> SUFFICES ASSUME NEW a \in 1..Len(n), Clear(n, a, Len(n))
             PROVE  Trail(text, d + lp, n, a)
  BY DEF EndsWith, n
<1>4. ASSUME NEW k \in 1..lp
      PROVE  piece[k] = text[d + k]
  BY DEF Behind
<1>5. ASSUME NEW k \in (ls + 1)..Len(n)
      PROVE  k - ls \in 1..lz /\ n[k] = z[k - ls]
  <2>1. k - ls \in 1..lz /\ ls + (k - ls) = k
    BY <1>2, <1>3
  <2>2. n[ls + (k - ls)] = z[k - ls]
    BY <1>3, <2>1
  <2>3. QED
    BY <2>1, <2>2
<1>6. CASE a > ls
  <2> DEFINE b == a - ls
  <2>1. b \in 1..lz
    BY <1>2, <1>3, <1>6
  <2>2. Clear(z, b, lz)
    <3> SUFFICES ASSUME NEW k \in b..lz PROVE z[k] # Mark
      BY DEF Clear
    <3>1. ls + k \in a..Len(n) /\ k \in 1..lz
      BY <1>2, <1>3, <2>1
    <3>2. n[ls + k] # Mark
      BY <3>1 DEF Clear
    <3>3. QED
      BY <1>3, <3>1, <3>2
  <2> HIDE DEF b
  <2>3. TailKept(piece, 1, z, b)
    BY <2>1, <2>2 DEF Redacts, EndsAs
  <2>4. 1 <= lp - (lz - b) /\ \A k \in b..lz : z[k] = piece[lp - lz + k]
    BY <2>3 DEF TailKept
  <2>5. Len(n) - a < d + lp
    BY <1>2, <1>3, <2>1, <2>4 DEF b
  <2>6. ASSUME NEW k \in a..Len(n)
        PROVE  n[k] = text[(d + lp) - Len(n) + k]
    <3> DEFINE m == k - ls
               x == lp - lz + m
    <3>1. k \in (ls + 1)..Len(n) /\ m \in b..lz
      BY <1>2, <1>3, <1>6 DEF b
    <3>2. n[k] = z[m]
      BY <1>5, <3>1
    <3>3. z[m] = piece[x]
      <4> HIDE DEF m
      <4>1. QED
        BY <2>4, <3>1
    <3>4. x \in 1..lp /\ d + x = (d + lp) - Len(n) + k
      BY <1>2, <1>3, <2>1, <2>4, <3>1
    <3>5. piece[x] = text[d + x]
      <4> HIDE DEF x
      <4>1. QED
        BY <1>4, <3>4
    <3>6. QED
      BY <3>2, <3>3, <3>4, <3>5
  <2>7. QED
    BY <2>5, <2>6 DEF Trail
<1>7. CASE a <= ls
  <2>1. Clear(z, 1, lz)
    <3> SUFFICES ASSUME NEW k \in 1..lz PROVE z[k] # Mark
      BY DEF Clear
    <3>1. ls + k \in a..Len(n)
      BY <1>2, <1>3, <1>7
    <3>2. n[ls + k] # Mark
      BY <3>1 DEF Clear
    <3>3. QED
      BY <1>3, <3>2
  <2>2. lz = lp
    <3>1. lz = lp + 1 - 1
      BY <2>1 DEF Redacts, Unmarked
    <3>2. QED
      BY <1>2, <3>1
  <2>3. ASSUME NEW k \in 1..lz
        PROVE  z[k] = text[d + k]
    <3>1. lz \in 0..lz /\ k \in 1..lp /\ 1 + k - 1 = k
      BY <1>2, <2>2
    <3>2. z[k] = piece[1 + k - 1]
      BY <2>1, <3>1 DEF Redacts, StartsAs
    <3>3. QED
      BY <1>4, <3>1, <3>2
  <2>4. Clear(s, a, ls)
    <3> SUFFICES ASSUME NEW k \in a..ls PROVE s[k] # Mark
      BY DEF Clear
    <3>1. k \in a..Len(n) /\ k \in 1..ls
      BY <1>2, <1>3
    <3>2. n[k] # Mark
      BY <3>1 DEF Clear
    <3>3. QED
      BY <1>3, <3>1, <3>2
  <2>5. Trail(text, d, s, a)
    BY <1>2, <1>7, <2>4 DEF EndsWith
  <2>6. ls - a < d /\ \A k \in a..ls : s[k] = text[d - ls + k]
    BY <2>5 DEF Trail
  <2>7. Len(n) - a < d + lp
    BY <1>2, <1>3, <2>2, <2>6
  <2>8. ASSUME NEW k \in a..Len(n)
        PROVE  n[k] = text[(d + lp) - Len(n) + k]
    <3>0. Len(n) = ls + lp /\ d \in Int /\ ls \in Int /\ lp \in Int /\ k \in Int
      BY <1>2, <1>3, <2>2
    <3>1. (d + lp) - Len(n) + k = d - ls + k
      <4> HIDE DEF ls, lp
      <4>1. QED
        BY <3>0
    <3>2. CASE k <= ls
      <4>1. k \in a..ls /\ k \in 1..ls
        BY <1>2, <3>2
      <4>2. QED
        BY <1>3, <2>6, <3>1, <4>1
    <3>3. CASE k > ls
      <4>1. k \in (ls + 1)..Len(n) /\ d + (k - ls) = d - ls + k
        BY <1>2, <1>3, <3>3
      <4>2. k - ls \in 1..lz /\ n[k] = z[k - ls]
        BY <1>5, <4>1
      <4>3. z[k - ls] = text[d + (k - ls)]
        BY <2>3, <4>2
      <4>4. QED
        BY <3>1, <4>1, <4>2, <4>3
    <3>4. QED
      BY <1>2, <3>2, <3>3
  <2>9. QED
    BY <2>7, <2>8 DEF Trail
<1>8. QED
  BY <1>2, <1>6, <1>7

\* And no secret stands whole where none lies across the cut.
LEMMA SilentNext ==
  ASSUME TwoWords, NEW text \in Seq(Char), NEW d \in 0..Len(text),
         NEW s \in Seq(Symbol), EndsWith(text, d, s), Silent(s),
         NEW piece \in Seq(Char), Behind(text, d, piece),
         NEW z, Redacts(piece, z), Crossing(text, d) = {}
  PROVE  Silent(s \o z)
<1> DEFINE n == s \o z
           ls == Len(s)
           lz == Len(z)
           lp == Len(piece)
<1>1. z \in Seq(Symbol)
  BY DEF Redacts
<1>2. /\ ls \in Nat /\ lz \in Nat /\ lp \in Nat /\ Len(text) \in Nat /\ d \in Nat
      /\ d + lp <= Len(text) /\ text \in Seq(Symbol)
  BY <1>1 DEF Behind, Symbol
<1>3. /\ n \in Seq(Symbol) /\ Len(n) = ls + lz
      /\ \A k \in 1..ls : n[k] = s[k]
      /\ \A k \in 1..lz : n[ls + k] = z[k]
  BY <1>1, Together
<1> HIDE DEF n
<1> SUFFICES ASSUME NEW a \in Nat \ {0}, NEW w \in 1..2, Begins(n, a, secrets[w])
             PROVE  FALSE
  BY DEF Silent, n
<1> DEFINE word == secrets[w]
           lw == Len(word)
           e == a + lw - 1
<1>4. word \in Seq(Char) /\ word \in Seq(Symbol) /\ lw \in Nat \ {0}
  BY DEF TwoWords, Symbol
<1> HIDE DEF word
<1>5. e <= Len(n) /\ \A k \in 1..lw : n[a + k - 1] = word[k]
  BY <1>3, <1>4, BeginsThere DEF word
<1>6. \A k \in 1..lw : word[k] # Mark
  BY <1>4, LogAssumption DEF LogAssumption, Char
<1>7. ASSUME NEW k \in a..e
      PROVE  n[k] # Mark
  <2>1. k - a + 1 \in 1..lw /\ a + (k - a + 1) - 1 = k
    BY <1>4
  <2>2. n[a + (k - a + 1) - 1] # Mark
    BY <1>5, <1>6, <2>1
  <2>3. QED
    BY <2>1, <2>2
<1>8. ASSUME e <= ls
      PROVE  FALSE
  <2>1. ASSUME NEW k \in 1..lw
        PROVE  s[a + k - 1] = word[k]
    <3>1. a + k - 1 \in 1..ls
      BY <1>2, <1>4, <1>8
    <3>2. QED
      BY <1>3, <1>5, <3>1
  <2>2. Begins(s, a, word)
    BY <1>4, <1>8, <2>1, BeginsThere
  <2>3. QED
    BY <2>2 DEF Silent, word
<1>9. ASSUME a > ls
      PROVE  FALSE
  <2> DEFINE b == a - ls
  <2>1. b \in Nat \ {0} /\ b + lw - 1 <= lz
    BY <1>2, <1>3, <1>4, <1>5, <1>9
  <2>2. ASSUME NEW k \in 1..lw
        PROVE  z[b + k - 1] = word[k]
    <3>1. b + k - 1 \in 1..lz /\ ls + (b + k - 1) = a + k - 1
      BY <1>2, <1>4, <2>1
    <3>2. n[ls + (b + k - 1)] = z[b + k - 1]
      BY <1>3, <3>1
    <3>3. QED
      BY <1>5, <3>1, <3>2
  <2> HIDE DEF b
  <2>3. Begins(z, b, word)
    BY <1>1, <1>4, <2>1, <2>2, BeginsThere
  <2>4. QED
    BY <2>1, <2>3 DEF Redacts, word
<1>10. ASSUME a <= ls, e > ls
       PROVE  FALSE
  <2>1. Clear(s, a, ls)
    <3> SUFFICES ASSUME NEW k \in a..ls PROVE s[k] # Mark
      BY DEF Clear
    <3>1. k \in a..e /\ k \in 1..ls
      BY <1>2, <1>4, <1>10
    <3>2. QED
      BY <1>3, <1>7, <3>1
  <2>2. a \in 1..ls
    BY <1>2, <1>10
  <2>3. Trail(text, d, s, a)
    BY <2>1, <2>2 DEF EndsWith
  <2>4. ls - a < d /\ \A k \in a..ls : s[k] = text[d - ls + k]
    BY <2>3 DEF Trail
  <2> DEFINE f == e - ls
             x == d - ls + a
  <2>5. f \in 1..lz /\ f \in 0..lz
    BY <1>2, <1>3, <1>4, <1>5, <1>10
  <2>6. Clear(z, 1, f)
    <3> SUFFICES ASSUME NEW k \in 1..f PROVE z[k] # Mark
      BY DEF Clear
    <3>1. ls + k \in a..e /\ k \in 1..lz
      BY <1>2, <1>4, <1>10, <2>5
    <3>2. n[ls + k] # Mark
      BY <1>7, <3>1
    <3>3. QED
      BY <1>3, <3>1, <3>2
  <2>7. 1 + f - 1 <= lp /\ \A k \in 1..f : z[k] = piece[1 + k - 1]
    <3> HIDE DEF f
    <3>1. QED
      BY <2>5, <2>6 DEF Redacts, StartsAs
  <2>8. f <= lp
    BY <1>2, <2>5, <2>7
  <2>9. ASSUME NEW k \in 1..f
        PROVE  z[k] = text[d + k]
    <3>1. k \in 1..lp /\ 1 + k - 1 = k
      BY <1>2, <2>5, <2>8
    <3>2. z[k] = piece[k]
      <4>1. z[k] = piece[1 + k - 1]
        BY <2>7
      <4>2. QED
        BY <3>1, <4>1
    <3>3. QED
      BY <3>1, <3>2 DEF Behind
  <2>10. x \in 1..d /\ x + lw - 1 = d + f
    BY <1>2, <1>4, <1>10, <2>4
  <2>11. ASSUME NEW k \in 1..lw
         PROVE  text[x + k - 1] = word[k]
    <3> DEFINE j == a + k - 1
    <3>0. n[j] = word[k] /\ j \in a..e /\ d - ls + j = x + k - 1
      BY <1>2, <1>4, <1>5
    <3> HIDE DEF j
    <3>1. CASE j <= ls
      <4>1. j \in 1..ls /\ j \in a..ls
        BY <1>2, <1>4, <3>0, <3>1
      <4>2. s[j] = text[d - ls + j]
        BY <2>4, <4>1
      <4>3. QED
        BY <1>3, <3>0, <4>1, <4>2
    <3>2. CASE j > ls
      <4>1. j - ls \in 1..f /\ j - ls \in 1..lz
        BY <1>2, <1>4, <2>5, <3>0, <3>2
      <4>2. ls + (j - ls) = j /\ d + (j - ls) = d - ls + j
        BY <1>2, <1>4, <3>0
      <4>3. z[j - ls] = text[d + (j - ls)]
        BY <2>9, <4>1
      <4>4. n[ls + (j - ls)] = z[j - ls]
        BY <1>3, <4>1
      <4>5. QED
        BY <3>0, <4>2, <4>3, <4>4
    <3>3. j \in Int
      BY <1>4, <3>0
    <3>4. QED
      BY <1>2, <3>1, <3>2, <3>3
  <2>12. d + f \in (d + 1)..Len(text)
    BY <1>2, <2>5, <2>8
  <2> HIDE DEF x, f
  <2>13. Begins(text, x, word)
    <3>1. x \in Nat \ {0} /\ x + lw - 1 <= Len(text)
      BY <1>2, <2>10, <2>12
    <3>2. QED
      BY <1>2, <1>4, <2>11, <3>1, BeginsThere
  <2>14. d + f \in Crossing(text, d)
    BY <2>10, <2>12, <2>13 DEF Crossing, word
  <2>15. QED
    BY <2>14
<1>11. QED
  BY <1>2, <1>4, <1>8, <1>9, <1>10

-----------------------------------------------------------------------------
(* LogStream: the reader.                                                  *)

\* How much was handed on.
Handed == Len(raw) - Len(pending)

(* The inductive invariant: what is kept back is the end of what came, what *)
(* was handed on ends as what came before it does, and no secret will lie   *)
(* across the cut between them.                                             *)
LogInv ==
  /\ LogTypeOK
  /\ Len(pending) <= Len(raw)
  /\ Behind(raw, Handed, pending)
  /\ EndsWith(raw, Handed, shown)
  /\ (logPhase # "ended" => CutIsSafe(raw, Handed))
  /\ (logPhase = "failed" => raw = <<>> /\ pending = <<>> /\ shown = <<>>)
  /\ NoSecretIsShown

LEMMA StringsAre ==
  ASSUME NEW S, S \subseteq Char, NEW n \in Nat, NEW t \in Strings(S, n)
  PROVE  t \in Seq(Char) /\ Len(t) <= n
<1>1. PICK k \in 0..n : t \in [1..k -> S]
  BY DEF Strings
<1>2. t \in Seq(S) /\ Len(t) = k
  BY <1>1
<1>3. QED
  BY <1>1, <1>2

\* The parts of a text before and behind a cut.
LEMMA PartsOf ==
  ASSUME NEW all \in Seq(Char), NEW c \in 0..Len(all)
  PROVE  /\ SubSeq(all, 1, c) \in Seq(Char) /\ Len(SubSeq(all, 1, c)) = c
         /\ \A k \in 1..c : SubSeq(all, 1, c)[k] = all[k]
         /\ SubSeq(all, c + 1, Len(all)) \in Seq(Char)
         /\ Len(SubSeq(all, c + 1, Len(all))) = Len(all) - c
         /\ \A k \in 1..(Len(all) - c) : SubSeq(all, c + 1, Len(all))[k] = all[c + k]
<1>1. Len(all) \in Nat /\ c \in Nat /\ c <= Len(all) /\ c - 1 + 1 = c
  OBVIOUS
<1>2. \A k \in 1..c : all[k] \in Char
  BY <1>1
<1>3. \A k \in 1..(Len(all) - c) : all[c + k] \in Char
  BY <1>1
<1>4. /\ SubSeq(all, 1, c) \in Seq(Char) /\ Len(SubSeq(all, 1, c)) = c
      /\ \A k \in 1..c : SubSeq(all, 1, c)[k] = all[k]
  BY <1>1, <1>2
<1>5. /\ SubSeq(all, c + 1, Len(all)) \in Seq(Char)
      /\ Len(SubSeq(all, c + 1, Len(all))) = Len(all) - c
      /\ \A k \in 1..(Len(all) - c) : SubSeq(all, c + 1, Len(all))[k] = all[c + k]
  BY <1>1, <1>3
<1>6. QED
  BY <1>4, <1>5

\* The bytes of a text are counted.
LEMMA BytesAre ==
  ASSUME NEW text \in Seq(Char), NEW k \in 0..Len(text)
  PROVE  Bytes(text, k) \in Nat /\ Bytes(text, 0) = 0
<1>1. IsFiniteSet(1..k) /\ IsFiniteSet({})
  BY FS_Interval, FS_EmptySet
<1>2. IsFiniteSet({i \in 1..k : text[i] \in Wide})
  BY <1>1, FS_Subset
<1>3. Cardinality({i \in 1..k : text[i] \in Wide}) \in Nat
  BY <1>2, FS_CardinalityType
<1>4. {i \in 1..0 : text[i] \in Wide} = {}
  OBVIOUS
<1>5. Cardinality({i \in 1..0 : text[i] \in Wide}) = 0
  BY <1>4, FS_EmptySet
<1>6. QED
  BY <1>3, <1>5 DEF Bytes

\* What fits is a text.
LEMMA WithinRoomIs ==
  ASSUME NEW text \in Seq(Char), NEW room \in Nat
  PROVE  /\ WithinRoom(text, room) \in Seq(Char) /\ Len(WithinRoom(text, room)) \in Nat
         /\ Size(text) \in Nat
<1> DEFINE S == {k \in 0..Len(text) : Bytes(text, k) <= room}
           tail == IF /\ Fitting(text, room) < Len(text)
                      /\ Bytes(text, Fitting(text, room)) < room
                   THEN <<Broken>> ELSE <<>>
<1>1. Len(text) \in Nat /\ S \in SUBSET (0..Len(text))
  OBVIOUS
<1>2. 0 \in S
  BY <1>1, BytesAre
<1>3. Fitting(text, room) \in 0..Len(text)
  <2>1. Fitting(text, room) = Biggest(S)
    BY DEF Fitting
  <2> HIDE DEF S
  <2>2. QED
    BY <1>1, <1>2, <2>1, BiggestIs
<1>4. SubSeq(text, 1, Fitting(text, room)) \in Seq(Char)
  BY <1>3, PartsOf
<1>5. tail \in Seq(Char)
  <2>1. Broken \in Char
    BY DEF Char
  <2>2. <<Broken>> \in Seq(Char) /\ <<>> \in Seq(Char)
    BY <2>1
  <2>3. QED
    BY <2>2
<1>6. WithinRoom(text, room) = SubSeq(text, 1, Fitting(text, room)) \o tail
  BY DEF WithinRoom
<1> HIDE DEF tail
<1>7. WithinRoom(text, room) \in Seq(Char)
  BY <1>4, <1>5, <1>6
<1>8. Size(text) \in Nat
  BY <1>1, BytesAre DEF Size
<1>9. QED
  BY <1>7, <1>8

LEMMA WordsAreTwo ==
  ASSUME secrets \in Words \X Words
  PROVE  TwoWords
<1> SUFFICES ASSUME NEW w \in 1..2
             PROVE  secrets[w] \in Seq(Char) /\ secrets[w] # <<>> /\ Len(secrets[w]) <= MaxSecret
  BY DEF TwoWords
<1>1. secrets[w] \in Words
  OBVIOUS
<1>2. MaxSecret \in Nat
  BY LogAssumption DEF LogAssumption
<1>3. QED
  BY <1>1, <1>2, StringsAre DEF Words, Char

LEMMA LogInvInit == LogInit => LogInv
<1> SUFFICES ASSUME LogInit PROVE LogInv
  OBVIOUS
<1>1. /\ secrets \in Words \X Words /\ pending = <<>> /\ raw = <<>> /\ shown = <<>>
      /\ taken = 0 /\ logPhase = "reading" /\ MaxSecret \in Nat \ {0} /\ LogBytes \in Nat
  BY LogAssumption DEF LogInit, LogAssumption
<1>2. LogTypeOK
  BY <1>1 DEF LogTypeOK
<1>3. Handed = 0 /\ Len(pending) = 0 /\ Len(raw) = 0 /\ Len(shown) = 0
  BY <1>1 DEF Handed
<1>4. Behind(raw, Handed, pending) /\ EndsWith(raw, Handed, shown)
  BY <1>3 DEF Behind, EndsWith
<1>5. CutIsSafe(raw, Handed)
  BY <1>3 DEF CutIsSafe, Crossing
<1>6. NoSecretIsShown
  BY <1>3 DEF NoSecretIsShown, Places
<1>7. QED
  BY <1>1, <1>2, <1>3, <1>4, <1>5, <1>6 DEF LogInv

\* The next piece of what is kept back is handed on, up to a cut.
LEMMA HandOn ==
  ASSUME LogInv, logPhase # "ended", TwoWords,
         NEW more \in Seq(Char), GoesOn(more, raw),
         NEW all \in Seq(Char), Behind(more, Handed, all),
         NEW piece \in Seq(Char), Behind(more, Handed, piece)
  PROVE  /\ shown \o RedactText(piece) \in Seq(Symbol)
         /\ EndsWith(more, Handed + Len(piece), shown \o RedactText(piece))
         /\ Apart(Places(more)) => Places(shown \o RedactText(piece)) = {}
<1> DEFINE d == Handed
           z == RedactText(piece)
<1>1. /\ raw \in Seq(Symbol) /\ more \in Seq(Symbol) /\ shown \in Seq(Symbol)
      /\ raw \in Seq(Char) /\ Len(raw) \in Nat /\ Len(pending) \in Nat
      /\ Len(raw) <= Len(more) /\ Len(more) \in Nat
  BY DEF LogInv, LogTypeOK, Symbol, GoesOn
<1>2. d \in 0..Len(raw) /\ d \in 0..Len(more)
  BY <1>1 DEF LogInv, Handed
<1>3. Redacts(piece, z)
  BY RedactTextRedacts
<1>4. EndsWith(more, d, shown)
  BY <1>1, <1>2, EndsWithMore DEF LogInv
<1>5. z \in Seq(Symbol)
  BY <1>3 DEF Redacts
<1> HIDE DEF z, d
<1>6. shown \o z \in Seq(Symbol)
  BY <1>1, <1>5, Together
<1>7. EndsWith(more, d + Len(piece), shown \o z)
  BY <1>1, <1>2, <1>3, <1>4, EndsWithNext DEF d
<1>8. ASSUME Apart(Places(more))
      PROVE  Places(shown \o z) = {}
  <2>1. Apart(Places(raw))
    BY <1>1, <1>8, ApartBefore
  <2>2. Silent(shown)
    BY <1>1, <2>1, SilentHasNoPlaces DEF LogInv, NoSecretIsShown
  <2>3. Crossing(more, d) = {}
    BY <1>8 DEF LogInv, CutIsSafe, d
  <2>4. Silent(shown \o z)
    BY <1>1, <1>2, <1>3, <1>4, <2>2, <2>3, SilentNext DEF d
  <2>5. QED
    BY <1>6, <2>4, SilentHasNoPlaces
<1>9. QED
  BY <1>6, <1>7, <1>8 DEF z, d

\* The secrets stay, and so does what is said of a text.
LEMMA SecretsStay ==
  ASSUME secrets' = secrets
  PROVE  /\ (Apart(Places(raw')) <=> Apart(Places(raw))')
         /\ Places(shown') = Places(shown)'
         /\ (CutIsSafe(raw', Handed') <=> CutIsSafe(raw, Handed)')
<1>1. Places(raw') = Places(raw)' /\ Places(shown') = Places(shown)'
  BY DEF Places, Begins
<1>2. Apart(Places(raw')) <=> Apart(Places(raw))'
  BY <1>1 DEF Apart
<1>3. CutIsSafe(raw', Handed') <=> CutIsSafe(raw, Handed)'
  BY DEF CutIsSafe, Crossing, Places, Begins, GoesOn, Apart
<1>4. QED
  BY <1>1, <1>2, <1>3

LEMMA LogInvChunk ==
  ASSUME LogInv, NEW text \in Strings(Char, ChunkSize), Chunk(text)
  PROVE  LogInv'
<1> DEFINE room == LogBytes - taken
           bounded == WithinRoom(text, room)
           all == pending \o bounded
           cut == SafeCutoff(all)
           piece == SubSeq(all, 1, cut)
           d == Handed
<1>1. /\ secrets \in Words \X Words /\ secrets' = secrets /\ TwoWords
      /\ logPhase = "reading" /\ MaxSecret \in Nat \ {0} /\ LogBytes \in Nat
      /\ ChunkSize \in Nat
  BY WordsAreTwo, LogAssumption DEF LogInv, LogTypeOK, Chunk, LogAssumption
<1>2. /\ raw \in Seq(Char) /\ Len(raw) \in Nat /\ taken \in 0..LogBytes
      /\ pending \in Seq(Char) /\ Len(pending) \in Nat /\ Len(pending) <= Len(raw)
      /\ d \in 0..Len(raw) /\ d = Len(raw) - Len(pending) /\ Behind(raw, d, pending)
  BY DEF LogInv, LogTypeOK, Handed
<1>3. /\ text \in Seq(Char) /\ room \in Nat
      /\ bounded \in Seq(Char) /\ Len(bounded) \in Nat /\ Size(text) \in Nat
  <2>1. text \in Seq(Char) /\ room \in Nat
    BY <1>1, <1>2, StringsAre
  <2> HIDE DEF room
  <2>2. QED
    BY <2>1, WithinRoomIs
<1>4. CASE room = 0
  <2>1. logPhase' = "exceeded" /\ UNCHANGED <<pending, raw, taken, shown>>
    BY <1>4 DEF Chunk
  <2>2. Handed' = Handed
    BY <2>1 DEF Handed
  <2>3. LogTypeOK'
    BY <1>1, <2>1 DEF LogInv, LogTypeOK
  <2>4. Behind(raw, Handed, pending)' /\ EndsWith(raw, Handed, shown)'
    BY <2>1, <2>2 DEF LogInv, Behind, EndsWith, Clear, Trail
  <2>5. CutIsSafe(raw, Handed)'
    BY <1>1, <2>1, <2>2, SecretsStay DEF LogInv
  <2>6. NoSecretIsShown'
    BY <1>1, <2>1, SecretsStay DEF LogInv, NoSecretIsShown
  <2>7. QED
    BY <2>1, <2>3, <2>4, <2>5, <2>6 DEF LogInv
<1>5. CASE room # 0
  <2>1. /\ raw' = raw \o bounded
        /\ pending' = SubSeq(all, cut + 1, Len(all))
        /\ shown' = shown \o RedactText(piece)
        /\ logPhase' \in {"reading", "exceeded"}
        /\ taken' = IF Size(text) > room THEN LogBytes ELSE taken + Size(text)
    BY <1>5 DEF Chunk
  <2>0. taken' \in 0..LogBytes
    BY <1>1, <1>2, <1>3, <2>1
  <2>2. bounded \in Seq(Char) /\ Len(bounded) \in Nat
    BY <1>3
  <2> HIDE DEF bounded
  <2>3. /\ raw' \in Seq(Char) /\ Len(raw') = Len(raw) + Len(bounded)
        /\ \A k \in 1..Len(raw) : raw'[k] = raw[k]
        /\ \A k \in 1..Len(bounded) : raw'[Len(raw) + k] = bounded[k]
    BY <1>2, <2>1, <2>2
  <2>4. /\ all \in Seq(Char) /\ Len(all) = Len(pending) + Len(bounded)
        /\ \A k \in 1..Len(pending) : all[k] = pending[k]
        /\ \A k \in 1..Len(bounded) : all[Len(pending) + k] = bounded[k]
    BY <1>2, <2>2
  <2> HIDE DEF all
  <2>5. GoesOn(raw', raw)
    BY <1>2, <2>2, <2>3 DEF GoesOn
  <2>6. Behind(raw', d, all) /\ d + Len(all) = Len(raw')
    <3>1. d + Len(all) = Len(raw') /\ d + Len(all) <= Len(raw')
      BY <1>2, <2>2, <2>3, <2>4
    <3>2. ASSUME NEW k \in 1..Len(all)
          PROVE  all[k] = raw'[d + k]
      <4>1. CASE k <= Len(pending)
        <5>1. k \in 1..Len(pending) /\ d + k \in 1..Len(raw)
          BY <1>2, <2>4, <4>1
        <5>2. pending[k] = raw[d + k]
          BY <1>2, <5>1 DEF Behind
        <5>3. QED
          BY <2>3, <2>4, <5>1, <5>2
      <4>2. CASE k > Len(pending)
        <5> DEFINE j == k - Len(pending)
        <5>1. j \in 1..Len(bounded) /\ Len(pending) + j = k /\ Len(raw) + j = d + k
          BY <1>2, <2>2, <2>4, <4>2
        <5> HIDE DEF j
        <5>2. all[Len(pending) + j] = bounded[j] /\ raw'[Len(raw) + j] = bounded[j]
          BY <2>3, <2>4, <5>1
        <5>3. QED
          BY <5>1, <5>2
      <4>3. QED
        BY <1>2, <2>2, <2>4, <4>1, <4>2
    <3>3. QED
      BY <3>1, <3>2 DEF Behind
  <2>7. /\ cut \in 0..Len(all) /\ Len(all) - cut <= MaxSecret - 1
    <3>1. all \in Seq(Symbol)
      BY <2>4 DEF Symbol
    <3>2. cut \in (Len(all) - Hold(all))..Len(all)
      BY <1>1, <3>1, CutLands DEF Lands
    <3>3. Hold(all) \in 0..Len(all) /\ Hold(all) <= MaxSecret - 1
      BY <1>1, <3>1, HoldIs
    <3> HIDE DEF cut
    <3>4. QED
      BY <1>1, <2>4, <3>2, <3>3
  <2>8. CutIsSafe(raw', d + cut)
    <3>1. CutIsSafe(raw, d)
      BY <1>1 DEF LogInv
    <3> HIDE DEF d
    <3>2. QED
      BY <1>1, <1>2, <2>3, <2>4, <2>5, <2>6, <3>1, NextCutIsSafe
  <2> HIDE DEF cut
  <2>9. /\ piece \in Seq(Char) /\ Len(piece) = cut
        /\ \A k \in 1..cut : piece[k] = all[k]
        /\ pending' \in Seq(Char) /\ Len(pending') = Len(all) - cut
        /\ \A k \in 1..(Len(all) - cut) : pending'[k] = all[cut + k]
    BY <2>1, <2>4, <2>7, PartsOf
  <2> HIDE DEF piece
  <2>10. Handed' = d + cut
    BY <1>2, <2>2, <2>3, <2>4, <2>6, <2>7, <2>9 DEF Handed
  <2>11. Behind(raw', d, piece)
    <3>1. d + Len(piece) <= Len(raw')
      BY <1>2, <2>4, <2>6, <2>7, <2>9
    <3>2. \A k \in 1..cut : k \in 1..Len(all)
      BY <2>4, <2>7
    <3>3. \A k \in 1..Len(piece) : piece[k] = raw'[d + k]
      BY <2>6, <2>9, <3>2 DEF Behind
    <3>4. QED
      BY <3>1, <3>3 DEF Behind
  <2>12. Behind(raw', Handed', pending')
    <3>1. (d + cut) + Len(pending') <= Len(raw')
      BY <1>2, <2>2, <2>4, <2>6, <2>7, <2>9
    <3>2. ASSUME NEW k \in 1..Len(pending')
          PROVE  pending'[k] = raw'[(d + cut) + k]
      <4>1. cut + k \in 1..Len(all) /\ d + (cut + k) = (d + cut) + k /\ k \in 1..(Len(all) - cut)
        BY <1>2, <2>2, <2>4, <2>7, <2>9
      <4>2. all[cut + k] = raw'[d + (cut + k)]
        BY <2>6, <4>1 DEF Behind
      <4>3. QED
        BY <2>9, <4>1, <4>2
    <3>3. QED
      BY <2>10, <3>1, <3>2 DEF Behind
  <2>13. /\ shown' \in Seq(Symbol) /\ EndsWith(raw', d + cut, shown')
         /\ (Apart(Places(raw')) => Places(shown') = {})
    BY <1>1, <2>1, <2>3, <2>4, <2>5, <2>6, <2>9, <2>11, HandOn
  <2>14. LogTypeOK'
    <3>1. Len(pending') < MaxSecret
      BY <1>1, <1>2, <2>2, <2>3, <2>4, <2>7, <2>9
    <3>2. QED
      BY <1>1, <2>0, <2>1, <2>3, <2>9, <2>13, <3>1 DEF LogTypeOK, Symbol
  <2>15. Len(pending') <= Len(raw')
    BY <1>2, <2>2, <2>3, <2>4, <2>6, <2>7, <2>9
  <2>16. CutIsSafe(raw, Handed)'
    BY <1>1, <2>8, <2>10, SecretsStay
  <2>17. NoSecretIsShown'
    BY <1>1, <2>13, SecretsStay DEF NoSecretIsShown
  <2>18. EndsWith(raw, Handed, shown)'
    BY <2>10, <2>13 DEF EndsWith, Clear, Trail
  <2>19. QED
    BY <2>1, <2>12, <2>14, <2>15, <2>16, <2>17, <2>18 DEF LogInv, Behind
<1>6. QED
  BY <1>4, <1>5

LEMMA LogInvFlush ==
  ASSUME LogInv, Flush
  PROVE  LogInv'
<1>1. /\ shown' = shown \o RedactText(pending) /\ pending' = <<>> /\ logPhase' = "ended"
      /\ secrets' = secrets /\ raw' = raw /\ taken' = taken /\ logPhase # "ended"
      /\ secrets \in Words \X Words /\ TwoWords
  BY WordsAreTwo DEF Flush, LogInv, LogTypeOK
<1>2. /\ raw \in Seq(Char) /\ Len(raw) \in Nat /\ taken \in 0..LogBytes
      /\ pending \in Seq(Char) /\ Len(pending) \in Nat
      /\ Behind(raw, Handed, pending) /\ Handed + Len(pending) = Len(raw)
      /\ MaxSecret \in Nat \ {0}
  BY LogAssumption DEF LogInv, LogTypeOK, Handed, LogAssumption
<1>3. GoesOn(raw, raw)
  BY <1>2 DEF GoesOn
<1>4. Handed' = Len(raw) /\ Len(pending') = 0 /\ pending' \in Seq(Char)
  BY <1>1, <1>2 DEF Handed
<1>5. /\ shown' \in Seq(Symbol) /\ EndsWith(raw, Handed + Len(pending), shown')
      /\ (Apart(Places(raw)) => Places(shown') = {})
  BY <1>1, <1>2, <1>3, HandOn
<1>6. LogTypeOK'
  BY <1>1, <1>2, <1>4, <1>5 DEF LogTypeOK, Symbol
<1>7. EndsWith(raw, Handed, shown)'
  <2>1. EndsWith(raw', Handed', shown')
    BY <1>1, <1>2, <1>4, <1>5
  <2>2. QED
    BY <2>1 DEF EndsWith, Clear, Trail
<1>8. Behind(raw, Handed, pending)'
  <2>1. Handed' + Len(pending') <= Len(raw') /\ 1..Len(pending') = {}
    BY <1>1, <1>2, <1>4
  <2>2. QED
    BY <2>1 DEF Behind
<1>9. NoSecretIsShown'
  BY <1>1, <1>5, SecretsStay DEF NoSecretIsShown
<1>10. Len(pending') <= Len(raw')
  BY <1>1, <1>2, <1>4
<1>11. QED
  BY <1>1, <1>6, <1>7, <1>8, <1>9, <1>10 DEF LogInv

\* What is handed on is the log once more: nothing yet.
LEMMA LogInvFails ==
  ASSUME LogInv, StreamFails
  PROVE  LogInv'
<1>1. /\ pending' = <<>> /\ raw' = <<>> /\ taken' = 0 /\ shown' = <<>>
      /\ logPhase' = "failed" /\ secrets' = secrets /\ secrets \in Words \X Words
      /\ MaxSecret \in Nat \ {0} /\ LogBytes \in Nat
  BY LogAssumption DEF StreamFails, LogInv, LogTypeOK, LogAssumption
<1>2. LogTypeOK'
  BY <1>1 DEF LogTypeOK
<1>3. Handed' = 0 /\ Len(pending') = 0 /\ Len(raw') = 0 /\ Len(shown') = 0
  BY <1>1 DEF Handed
<1>4. Behind(raw, Handed, pending)' /\ EndsWith(raw, Handed, shown)'
  BY <1>3 DEF Behind, EndsWith
<1>5. CutIsSafe(raw, Handed)'
  BY <1>3 DEF CutIsSafe, Crossing
<1>6. NoSecretIsShown'
  BY <1>3 DEF NoSecretIsShown, Places
<1>7. QED
  BY <1>1, <1>2, <1>3, <1>4, <1>5, <1>6 DEF LogInv

\* The whole log is handed on in one piece.
LEMMA LogInvFallback ==
  ASSUME LogInv, NEW text \in Strings(Char, LogBytes + 1), Fallback(text)
  PROVE  LogInv'
<1> DEFINE all == WithinRoom(text, LogBytes)
<1>1. /\ raw' = all /\ shown' = RedactText(all) /\ logPhase' = "ended"
      /\ taken' = (IF Size(text) > LogBytes THEN LogBytes ELSE Size(text))
      /\ secrets' = secrets /\ pending' = pending /\ logPhase = "failed"
      /\ secrets \in Words \X Words /\ TwoWords
      /\ raw = <<>> /\ pending = <<>> /\ shown = <<>>
      /\ MaxSecret \in Nat \ {0} /\ LogBytes \in Nat
  BY WordsAreTwo, LogAssumption DEF Fallback, LogInv, LogTypeOK, LogAssumption
<1>2. all \in Seq(Char) /\ Len(all) \in Nat /\ Size(text) \in Nat
  <2>1. text \in Seq(Char)
    BY <1>1, StringsAre
  <2>2. QED
    BY <1>1, <2>1, WithinRoomIs
<1> HIDE DEF all
<1>3. Handed = 0 /\ Len(raw) = 0 /\ Len(pending) = 0
  BY <1>1 DEF Handed
<1>4. GoesOn(all, raw) /\ Behind(all, Handed, all)
  BY <1>2, <1>3 DEF GoesOn, Behind
<1>5. /\ shown \o RedactText(all) \in Seq(Symbol)
      /\ EndsWith(all, Handed + Len(all), shown \o RedactText(all))
      /\ Apart(Places(all)) => Places(shown \o RedactText(all)) = {}
  BY <1>1, <1>2, <1>4, HandOn
<1>6. RedactText(all) \in Seq(Symbol)
  BY <1>1, <1>2, RedactTextRedacts DEF Redacts
<1>7. shown \o RedactText(all) = RedactText(all)
  BY <1>1, <1>6
<1>8. Handed' = Len(all) /\ Handed + Len(all) = Len(all)
  BY <1>1, <1>2, <1>3 DEF Handed
<1>9. EndsWith(raw, Handed, shown)'
  <2>1. EndsWith(raw', Handed', shown')
    BY <1>1, <1>5, <1>7, <1>8
  <2>2. QED
    BY <2>1 DEF EndsWith, Clear, Trail
<1>10. LogTypeOK'
  BY <1>1, <1>2, <1>6 DEF LogTypeOK, Symbol
<1>11. Behind(raw, Handed, pending)' /\ Len(pending') <= Len(raw')
  <2>1. Handed' + Len(pending') <= Len(raw') /\ 1..Len(pending') = {}
    BY <1>1, <1>2, <1>8
  <2>2. QED
    BY <1>1, <1>2, <2>1 DEF Behind
<1>12. NoSecretIsShown'
  BY <1>1, <1>5, <1>7, SecretsStay DEF NoSecretIsShown
<1>13. QED
  BY <1>1, <1>9, <1>10, <1>11, <1>12 DEF LogInv

LEMMA LogInvStep == LogInv /\ [LogNext]_logVars => LogInv'
<1> SUFFICES ASSUME LogInv, [LogNext]_logVars
             PROVE  LogInv'
  OBVIOUS
<1>1. CASE \E text \in Strings(Char, ChunkSize) \ {<<>>} : Chunk(text)
  BY <1>1, LogInvChunk
<1>2. CASE Flush
  BY <1>2, LogInvFlush
<1>5. CASE StreamFails
  BY <1>5, LogInvFails
<1>6. CASE \E text \in Strings(Char, LogBytes + 1) : Fallback(text)
  BY <1>6, LogInvFallback
<1>3. CASE FallbackFails \/ UNCHANGED logVars
  <2>1. /\ UNCHANGED <<secrets, pending, raw, taken, shown>>
        /\ logPhase' \in {logPhase, "ended"}
    BY <1>3 DEF FallbackFails, logVars
  <2>2. LogTypeOK' /\ Handed' = Handed /\ Len(pending') <= Len(raw')
    BY <2>1 DEF LogInv, LogTypeOK, Handed
  <2>3. Behind(raw, Handed, pending)' /\ EndsWith(raw, Handed, shown)'
    BY <2>1, <2>2 DEF LogInv, Behind, EndsWith, Clear, Trail
  <2>4. (logPhase # "ended" => CutIsSafe(raw, Handed))' /\ NoSecretIsShown'
    BY <2>1, <2>2, SecretsStay DEF LogInv, NoSecretIsShown
  <2>5. QED
    BY <2>1, <2>2, <2>3, <2>4 DEF LogInv
<1>4. QED
  BY <1>1, <1>2, <1>3, <1>5, <1>6 DEF LogNext

\* The invariant holds in every run of the reader.
THEOREM LogInvariant == LogSpec => []LogInv
<1>1. QED
  BY LogInvInit, LogInvStep, PTL DEF LogSpec

\* Never more is kept back than a secret could begin with, and never more
\* bytes taken in than the log's limit (docker_runtime.py, the reader of the
\* logs).
THEOREM LogTypeCorrect == LogSpec => []LogTypeOK
<1>1. LogInv => LogTypeOK
  BY DEF LogInv
<1>2. QED
  BY <1>1, LogInvariant, PTL

\* For texts, secrets, chunks and limits of any length, letters of one or two
\* bytes and bytes that are no text: as long as the secrets lie apart in the
\* text that came, none stands whole in what was handed on, wherever the chunks
\* and the limit cut it, and after a failure of the stream too.
THEOREM NoSecretsAreShown == LogSpec => []NoSecretIsShown
<1>1. LogInv => NoSecretIsShown
  BY DEF LogInv
<1>2. QED
  BY <1>1, LogInvariant, PTL

-----------------------------------------------------------------------------
(* The components side by side (MCComponents).                             *)

\* A step of the whole is a step of one component, or leaves it alone.
LEMMA ComponentsSteps ==
  ASSUME [ComponentsNext]_componentsVars
  PROVE  /\ [RestoreNext]_restoreVars
         /\ [BackupNext]_backupVars
         /\ [FileNext]_fileVars
         /\ [WatchNext]_watchVars
         /\ [LogNext]_logVars
         /\ [KubernetesNext]_kubernetesVars
         /\ [ConfigurationNext]_configurationVars
         /\ [CacheNext]_cacheVars
<1>1. CASE UNCHANGED componentsVars
  BY <1>1 DEF componentsVars
<1>2. CASE ComponentsNext
  BY <1>2 DEF ComponentsNext
<1>3. QED
  BY <1>1, <1>2

\* A behaviour of the run that puts the components side by side is, for each
\* of them, a behaviour of its own, so that what is proved of a component by
\* itself holds in that run.
THEOREM ComponentsByThemselves ==
  ComponentsSpec => /\ RestoreSpec
                    /\ BackupSpec
                    /\ FileSpec
                    /\ WatchSpec
                    /\ LogSpec
                    /\ KubernetesSpec
                    /\ ConfigurationSpec
                    /\ CacheSpec
<1>1. ComponentsInit => /\ RestoreInit
                        /\ BackupInit
                        /\ FileInit
                        /\ WatchInit
                        /\ LogInit
                        /\ KubernetesInit
                        /\ ConfigurationInit
                        /\ CacheInit
  BY DEF ComponentsInit
<1>2. [ComponentsNext]_componentsVars => /\ [RestoreNext]_restoreVars
                                         /\ [BackupNext]_backupVars
                                         /\ [FileNext]_fileVars
                                         /\ [WatchNext]_watchVars
                                         /\ [LogNext]_logVars
                                         /\ [KubernetesNext]_kubernetesVars
                                         /\ [ConfigurationNext]_configurationVars
                                         /\ [CacheNext]_cacheVars
  BY ComponentsSteps
<1>3. QED
  BY <1>1, <1>2, PTL
  DEF ComponentsSpec, RestoreSpec, BackupSpec, FileSpec, WatchSpec, LogSpec,
      KubernetesSpec, ConfigurationSpec, CacheSpec

\* No component, playing any part beside the others, takes a variable of its
\* out of its type.
THEOREM ComponentsTypeCorrect == ComponentsSpec => []ComponentsTypeOK
<1>1. RestoreTypeOK /\ BackupTypeOK /\ FileTypeOK /\ WatchTypeOK /\ LogTypeOK
        /\ KubernetesTypeOK /\ ConfigurationTypeOK /\ CacheTypeOK
          => ComponentsTypeOK
  BY DEF ComponentsTypeOK
<1>2. QED
  BY <1>1, ComponentsByThemselves, RestoreTypeCorrect, BackupTypeCorrect,
     FileTypeCorrect, WatchTypeCorrect, LogTypeCorrect, KubernetesTypeCorrect,
     ConfigurationTypeCorrect, CacheTypeCorrect, PTL
=============================================================================
