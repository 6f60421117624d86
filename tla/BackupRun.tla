------------------------------ MODULE BackupRun ------------------------------
(***************************************************************************)
(* One backup: the engine stops labelled containers, runs the commands     *)
(* asked for, makes the tarball (and encrypts it) or the restic snapshot,  *)
(* starts the containers again, uploads a tarball to every destination and *)
(* removes the local file.  Each of these calls may fail; what failed      *)
(* decides which of the later ones still happen.                           *)
(*                                                                         *)
(* As in RestoreRun a stop may fail after it was carried out, and the      *)
(* worker may end the runtime container at any point.                      *)
(***************************************************************************)
EXTENDS FiniteSets

CONSTANTS
  Service,      \* containers with the stop label
  Destination   \* the destinations that can be configured

VARIABLES
  plan,      \* what the job asks for
  service,   \* the state of each container
  run,       \* where the engine is and what it still has to go through
  down,      \* stopped_containers
  local,     \* the files the engine has made: "plain", "cipher"
  stored,    \* where the backup is: destinations, or "repository" (restic)
  good,      \* result.success so far
  report     \* what the worker reports

backupVars == <<plan, service, run, down, local, stored, good, report>>

BackupPlan == [strategy : {"tar", "restic"}, cold : BOOLEAN, gpg : BOOLEAN,
         command : BOOLEAN, uploads : SUBSET Destination]
Repository == "repository"
File(p) == IF p.gpg THEN "cipher" ELSE "plain"

In(p) == run.at = p
To(p) == run' = [at |-> p, todo |-> {}]
Through(p, todo) == run' = [at |-> p, todo |-> todo]
Ticked(x) == run' = [run EXCEPT !.todo = @ \ {x}]

BackupInit ==
  /\ plan \in BackupPlan
  /\ service \in [Service -> {"running", "stopped"}]
  /\ run = [at |-> "discover", todo |-> {}]
  /\ down = {} /\ local = {} /\ stored = {}
  /\ good = TRUE /\ report = "pending"

-----------------------------------------------------------------------------
(* Containers.                                                             *)

\* get_containers_by_labels lists running containers, or none on an error.
Discover ==
  /\ In("discover")
  /\ \E S \in {{}, {c \in Service : service[c] = "running"}} :
       Through("stop", IF plan.cold THEN S ELSE {})
  /\ UNCHANGED <<plan, service, down, local, stored, good, report>>

\* An error is logged, and the container is not recorded.
StopService(c) ==
  /\ In("stop") /\ c \in run.todo
  /\ \/ /\ service' = [service EXCEPT ![c] = "stopped"]
        /\ down' = down \union {c}
     \/ UNCHANGED <<service, down>>
     \/ /\ service' = [service EXCEPT ![c] = "stopped"]
        /\ UNCHANGED down
  /\ Ticked(c)
  /\ UNCHANGED <<plan, local, stored, good, report>>

StartService(c) ==
  /\ In("start") /\ c \in run.todo
  /\ \/ service' = [service EXCEPT ![c] = "running"] /\ UNCHANGED good
     \/ good' = FALSE /\ UNCHANGED service
  /\ Ticked(c)
  /\ UNCHANGED <<plan, down, local, stored, report>>

-----------------------------------------------------------------------------
(* The backup.                                                             *)

\* Whatever raises goes to the finally clause, which starts the containers.
Fails == good' = FALSE /\ Through("start", down)

\* Commands inside containers only log their errors; the global command is
\* checked.
Before ==
  /\ In("stop") /\ run.todo = {}
  /\ \/ To("make") /\ UNCHANGED good
     \/ plan.command /\ Fails
  /\ UNCHANGED <<plan, service, down, local, stored, report>>

\* restic exits with an error also when it left a snapshot of what it could
\* read; a failed forget is only logged.
ResticBackup ==
  /\ In("make") /\ plan.strategy = "restic"
  /\ \/ stored' = {Repository} /\ To("after") /\ UNCHANGED good
     \/ /\ stored' \in {{}, {Repository}} /\ To("after")
        /\ good' = FALSE
  /\ UNCHANGED <<plan, service, down, local, report>>

\* The strategy returns a failed result instead of raising.
Tarball ==
  /\ In("make") /\ plan.strategy = "tar"
  /\ \/ /\ local' = {"plain"}
        /\ To(IF plan.gpg THEN "encrypt" ELSE "after") /\ UNCHANGED good
     \/ good' = FALSE /\ To("after") /\ UNCHANGED local
  /\ UNCHANGED <<plan, service, down, stored, report>>

Encrypt ==
  /\ In("encrypt")
  /\ \/ local' = local \union {"cipher"} /\ To("swap") /\ UNCHANGED good
     \/ good' = FALSE /\ To("after") /\ UNCHANGED local
  /\ UNCHANGED <<plan, service, down, stored, report>>

RemovePlain ==
  /\ In("swap")
  /\ \/ local' = local \ {"plain"} /\ UNCHANGED good
     \/ good' = FALSE /\ UNCHANGED local
  /\ To("after")
  /\ UNCHANGED <<plan, service, down, stored, report>>

After ==
  /\ In("after")
  /\ \/ Through("start", down) /\ UNCHANGED good
     \/ plan.command /\ Fails
  /\ UNCHANGED <<plan, service, down, local, stored, report>>

\* Faulty: what went wrong with the restart does not change the result.
StartedAnyway ==
  /\ In("start") /\ run.todo = {}
  /\ good' = (good \/ local \union stored # {})
  /\ Through("upload", plan.uploads)
  /\ UNCHANGED <<plan, service, down, local, stored, report>>

\* Only a good result with an artifact is uploaded.
Started ==
  /\ In("start") /\ run.todo = {}
  /\ IF good /\ plan.strategy = "tar"
     THEN Through("upload", plan.uploads) ELSE To("end")
  /\ UNCHANGED <<plan, service, down, local, stored, good, report>>

\* Each destination is tried; one that failed may hold the file all the same.
Upload(d) ==
  /\ In("upload") /\ d \in run.todo
  /\ \/ stored' = stored \union {d} /\ UNCHANGED good
     \/ stored' \in {stored, stored \union {d}} /\ good' = FALSE
  /\ Ticked(d)
  /\ UNCHANGED <<plan, service, down, local, report>>

\* Faulty: one destination that has the file is enough.
CleanupAfterAny ==
  /\ In("upload") /\ run.todo = {}
  /\ local' = IF stored # {} THEN {} ELSE local
  /\ good' = (good /\ plan.uploads # {})
  /\ To("end")
  /\ UNCHANGED <<plan, service, down, stored, report>>

\* The local file is removed when every destination has it; to have no
\* destination is an upload that failed.
CleanupArtifact ==
  /\ In("upload") /\ run.todo = {}
  /\ \/ good /\ plan.uploads # {} /\ local' = {} /\ UNCHANGED good
     \/ good' = FALSE /\ UNCHANGED local
  /\ To("end")
  /\ UNCHANGED <<plan, service, down, stored, report>>

\* The exit status is the result; logs beyond the limit turn a success into
\* a failure.
Report ==
  /\ In("end") /\ report = "pending"
  /\ report' \in {IF good THEN "succeeded" ELSE "failed", "failed"}
  /\ UNCHANGED <<plan, service, run, down, local, stored, good>>

\* Time out or cancellation.
KillRun ==
  /\ report = "pending"
  /\ report' = "failed" /\ To("killed")
  /\ UNCHANGED <<plan, service, down, local, stored, good>>

\* The worker removes the container with every file in it.
RemoveRuntime ==
  /\ report # "pending" /\ local # {}
  /\ local' = {}
  /\ UNCHANGED <<plan, service, run, down, stored, good, report>>

BackupNext ==
  \/ Discover \/ Before \/ ResticBackup \/ Tarball \/ Encrypt \/ RemovePlain
  \/ After \/ Started \/ CleanupArtifact \/ Report \/ KillRun \/ RemoveRuntime
  \/ \E c \in Service : StopService(c) \/ StartService(c)
  \/ \E d \in Destination : Upload(d)

BackupSpec == BackupInit /\ [][BackupNext]_backupVars

-----------------------------------------------------------------------------
(* Properties.                                                             *)

BackupTypeOK ==
  /\ plan \in BackupPlan
  /\ service \in [Service -> {"running", "stopped"}]
  /\ run.todo \subseteq Service \union Destination
  /\ down \subseteq Service
  /\ local \subseteq {"plain", "cipher"}
  /\ stored \subseteq Destination \union {Repository}
  /\ good \in BOOLEAN /\ report \in {"pending", "succeeded", "failed"}

\* A backup that is reported as a success is stored wherever it was asked
\* for, at one place at least, and every container that was recorded as
\* stopped runs again; so an error of any of the calls, and a restart that
\* failed, reaches the report.
ReportedBackupIsReal ==
  report = "succeeded" =>
    /\ stored # {}
    /\ stored = IF plan.strategy = "tar" THEN plan.uploads ELSE {Repository}
    /\ \A c \in down : service[c] = "running"

\* As long as the runtime container lives, the backup file goes only when
\* every configured destination has it, and the unencrypted file only when
\* the encrypted one is there.
LastCopyIsKept ==
  [][ report = "pending" =>
        \A f \in local \ local' :
          \/ f # File(plan) /\ File(plan) \in local
          \/ plan.uploads \subseteq stored ]_backupVars
=============================================================================
