--------------------------- MODULE WorkerRegistry ---------------------------
(***************************************************************************)
(* The worker's row, its credential, a target assigned to it and the jobs  *)
(* dispatched to it, under the requests that read and write them: the      *)
(* worker's own signed requests (heartbeat, inventory, renewal, fetch),    *)
(* the enrollment that registers it, and the administrator's (labels,      *)
(* revocation, deletion, new target, enabling a target, dispatch).         *)
(*                                                                         *)
(* Each request runs on a thread of its own.  A repository call is one     *)
(* transaction, and save writes the whole row as the thread read it, or    *)
(* inserts it again when it was deleted since (INSERT OR REPLACE).  So a   *)
(* request that was let in before a revocation or a deletion may write     *)
(* after it.                                                               *)
(*                                                                         *)
(* seen is the time left until the worker counts as offline; Tick lowers   *)
(* it in the row and in the rows that threads hold.                        *)
(***************************************************************************)
EXTENDS Integers

CONSTANTS
  Caller,        \* handler threads
  OfflineAfter   \* WORKER_OFFLINE_AFTER_SECONDS, in ticks

ASSUME RegistryAssumption == OfflineAfter \in Nat \ {0}

VARIABLES
  workerRow,    \* the row of the worker
  credential,   \* the state of its credential
  targetRow,    \* the row of a target assigned to it
  work,         \* a job dispatched to it
  call          \* what each thread is doing

registryVars == <<workerRow, credential, targetRow, work, call>>

Missing == [status |-> "missing"]
WorkerRow == [status : {"enabled", "disabled"}, seen : 0 .. OfflineAfter]
TargetRow == [status : {"enabled", "disabled"}]
Work == {"none", "pending", "claimed"}

Free == [op |-> "free"]
WorkerOp == {"heartbeat", "inventory", "renew", "fetch"}
RowOp == {"heartbeat", "inventory", "renew", "label", "register"}
Call ==
  {Free}
    \union [op : WorkerOp, at : {"authenticated"}]
    \union [op : RowOp, at : {"read"}, snap : WorkerRow]
    \union [op : {"register"}, at : {"read"}, snap : {Missing}]
    \union [op : {"register"}, at : {"enrolled"}]
    \union [op : {"fetch"}, at : {"eligible"}]
    \union [op : {"revoke"}, at : {"read", "disable"}, snap : WorkerRow]
    \union [op : {"revoke", "delete"}, at : {"list"}]
    \union [op : {"revoke", "delete"}, at : {"target"}, target : TargetRow]
    \union [op : {"delete"}, at : {"auth", "row"}]
    \union [op : {"newTarget"}, at : {"eligible"}]
    \union [op : {"dispatch"}, at : {"eligible"}, scheduled : BOOLEAN]
    \union [op : {"enable"}, at : {"read", "eligible"}, target : TargetRow]

\* _worker_status
WorkerStatus(row) ==
  CASE row.status = "missing" -> "missing"
    [] row.status = "disabled" -> "disabled"
    [] row.status = "enabled" /\ row.seen > 0 -> "online"
    [] OTHER -> "offline"

Eligible == WorkerStatus(workerRow) = "online"

RegistryInit ==
  /\ workerRow = [status |-> "enabled", seen |-> OfflineAfter]
  /\ credential = "active"
  /\ targetRow = [status |-> "enabled"]
  /\ work = "none"
  /\ call = [t \in Caller |-> Free]

Proceeds(t, c) == call' = [call EXCEPT ![t] = c]
Ends(t) == Proceeds(t, Free)

-----------------------------------------------------------------------------
(* Requests of the worker.                                                 *)

\* _require_worker_identity: the credential must be active at this moment.
Authenticate(t) ==
  /\ call[t] = Free /\ credential = "active"
  /\ \E op \in WorkerOp : Proceeds(t, [op |-> op, at |-> "authenticated"])
  /\ UNCHANGED <<workerRow, credential, targetRow, work>>

\* _require_worker; a renewal refuses a disabled worker as well.
ReadWorker(t) ==
  /\ call[t] # Free /\ call[t].at = "authenticated"
  /\ call[t].op # "fetch"
  /\ IF \/ workerRow = Missing
        \/ /\ call[t].op = "renew"
           /\ workerRow.status = "disabled" \/ work # "claimed"
     THEN Ends(t)
     ELSE Proceeds(t, [op |-> call[t].op, at |-> "read", snap |-> workerRow])
  /\ UNCHANGED <<workerRow, credential, targetRow, work>>

AdminReadsWorker(t) ==
  /\ call[t] = Free /\ workerRow # Missing
  /\ \E op \in {"label", "revoke"} :
       Proceeds(t, [op |-> op, at |-> "read", snap |-> workerRow])
  /\ UNCHANGED <<workerRow, credential, targetRow, work>>

\* Faulty: every save of the row counts as a sign of life.
SavedRowSeen(c) ==
  IF c.snap = Missing
  THEN [status |-> "enabled", seen |-> OfflineAfter]
  ELSE [c.snap EXCEPT !.seen = OfflineAfter]

\* What a request that holds the row writes back.
SavedRow(c) ==
  CASE c.op \in {"inventory", "label"} -> c.snap
    [] c.snap = Missing -> [status |-> "enabled", seen |-> OfflineAfter]
    [] OTHER -> [c.snap EXCEPT !.seen = OfflineAfter]

\* heartbeat, sync_inventory, update_worker, register_worker and the end of
\* renew_job_lease: the row that was read is saved.
SaveWorker(t) ==
  /\ call[t].op \in RowOp /\ call[t].at = "read"
  /\ workerRow' = SavedRow(call[t])
  /\ Ends(t)
  /\ UNCHANGED <<credential, targetRow, work>>

\* renew_lease refused: the lease ran out or went to another owner.
RenewRefused(t) ==
  /\ call[t].op = "renew" /\ call[t].at = "read"
  /\ Ends(t)
  /\ UNCHANGED <<workerRow, credential, targetRow, work>>

\* fetch_jobs_for_worker: eligibility first, the claim in a later transaction.
FetchChecked(t) ==
  /\ call[t].op = "fetch" /\ call[t].at = "authenticated"
  /\ IF Eligible THEN Proceeds(t, [op |-> "fetch", at |-> "eligible"]) ELSE Ends(t)
  /\ UNCHANGED <<workerRow, credential, targetRow, work>>

FetchClaims(t) ==
  /\ call[t].op = "fetch" /\ call[t].at = "eligible"
  /\ work' = IF work = "pending" THEN "claimed" ELSE work
  /\ Ends(t)
  /\ UNCHANGED <<workerRow, credential, targetRow>>

\* The job ends: completed, failed or expired (JobLease).
JobEnds ==
  /\ work = "claimed" /\ work' = "none"
  /\ UNCHANGED <<workerRow, credential, targetRow, call>>

CancelPending ==
  /\ work = "pending" /\ work' = "none"
  /\ UNCHANGED <<workerRow, credential, targetRow, call>>

\* An enrollment is completed (WorkerEnrollment), then register_worker reads
\* the row: a disabled worker stays disabled, a missing one is created.
Enrolled(t) ==
  /\ call[t] = Free
  /\ credential' = "active"
  /\ Proceeds(t, [op |-> "register", at |-> "enrolled"])
  /\ UNCHANGED <<workerRow, targetRow, work>>

RegisterReads(t) ==
  /\ call[t].op = "register" /\ call[t].at = "enrolled"
  /\ Proceeds(t, [op |-> "register", at |-> "read", snap |-> workerRow])
  /\ UNCHANGED <<workerRow, credential, targetRow, work>>

-----------------------------------------------------------------------------
(* Requests of the administrator.                                          *)

RevokeCredentials(t) ==
  /\ call[t].op = "revoke" /\ call[t].at = "read"
  /\ credential' = IF credential = "active" THEN "revoked" ELSE credential
  /\ Proceeds(t, [call[t] EXCEPT !.at = "disable"])
  /\ UNCHANGED <<workerRow, targetRow, work>>

RevokeDisables(t) ==
  /\ call[t].op = "revoke" /\ call[t].at = "disable"
  /\ workerRow' = [call[t].snap EXCEPT !.status = "disabled"]
  /\ Proceeds(t, [op |-> "revoke", at |-> "list"])
  /\ UNCHANGED <<credential, targetRow, work>>

\* delete_worker: no job of the worker may be pending or in progress.
DeleteChecked(t) ==
  /\ call[t] = Free
  /\ workerRow # Missing /\ work = "none"
  /\ Proceeds(t, [op |-> "delete", at |-> "list"])
  /\ UNCHANGED <<workerRow, credential, targetRow, work>>

AfterTargets(t) ==
  IF call[t].op = "revoke" THEN Ends(t)
  ELSE Proceeds(t, [op |-> "delete", at |-> "auth"])

\* _disable_targets_for_worker lists the targets and saves each enabled one
\* as it was listed.
ListTargets(t) ==
  /\ call[t].op \in {"revoke", "delete"} /\ call[t].at = "list"
  /\ IF targetRow.status = "enabled"
     THEN Proceeds(t, [op |-> call[t].op, at |-> "target", target |-> targetRow])
     ELSE AfterTargets(t)
  /\ UNCHANGED <<workerRow, credential, targetRow, work>>

DisableTarget(t) ==
  /\ call[t].op \in {"revoke", "delete"} /\ call[t].at = "target"
  /\ targetRow' = [status |-> "disabled"]
  /\ AfterTargets(t)
  /\ UNCHANGED <<workerRow, credential, work>>

DeleteCredentials(t) ==
  /\ call[t].op = "delete" /\ call[t].at = "auth"
  /\ credential' = "none"
  /\ Proceeds(t, [op |-> "delete", at |-> "row"])
  /\ UNCHANGED <<workerRow, targetRow, work>>

DeleteRow(t) ==
  /\ call[t].op = "delete" /\ call[t].at = "row"
  /\ workerRow' = Missing
  /\ Ends(t)
  /\ UNCHANGED <<credential, targetRow, work>>

\* register_target and dispatch_job ask for an eligible worker and insert
\* in a later transaction.
EligibleFirst(t) ==
  /\ call[t] = Free /\ Eligible
  /\ \/ targetRow = Missing /\ Proceeds(t, [op |-> "newTarget", at |-> "eligible"])
     \/ /\ targetRow # Missing
        /\ \E s \in BOOLEAN :
             Proceeds(t, [op |-> "dispatch", at |-> "eligible", scheduled |-> s])
  /\ UNCHANGED <<workerRow, credential, targetRow, work>>

SaveNewTarget(t) ==
  /\ call[t].op = "newTarget"
  /\ targetRow' = [status |-> "enabled"]
  /\ Ends(t)
  /\ UNCHANGED <<workerRow, credential, work>>

\* The target is looked up after the worker; a scheduled backup of a target
\* that is disabled by now is refused.  One job at a time is followed.
SaveJob(t) ==
  /\ call[t].op = "dispatch"
  /\ work' = IF \/ targetRow = Missing
                \/ call[t].scheduled /\ targetRow.status = "disabled"
                \/ work # "none"
             THEN work ELSE "pending"
  /\ Ends(t)
  /\ UNCHANGED <<workerRow, credential, targetRow>>

\* update_target(enabled=True): the target is read, the worker is checked,
\* and the target is saved as it was read, enabled.
EnableReads(t) ==
  /\ call[t] = Free /\ targetRow # Missing
  /\ Proceeds(t, [op |-> "enable", at |-> "read", target |-> targetRow])
  /\ UNCHANGED <<workerRow, credential, targetRow, work>>

EnableChecks(t) ==
  /\ call[t].op = "enable" /\ call[t].at = "read"
  /\ IF Eligible THEN Proceeds(t, [call[t] EXCEPT !.at = "eligible"]) ELSE Ends(t)
  /\ UNCHANGED <<workerRow, credential, targetRow, work>>

EnableSaves(t) ==
  /\ call[t].op = "enable" /\ call[t].at = "eligible"
  /\ targetRow' = [status |-> "enabled"]
  /\ Ends(t)
  /\ UNCHANGED <<workerRow, credential, work>>

DeleteTarget ==
  /\ targetRow # Missing /\ targetRow' = Missing
  /\ UNCHANGED <<workerRow, credential, work, call>>

-----------------------------------------------------------------------------
(* Time passes for the row and for the rows that threads hold.             *)

Older(row) == IF row # Missing /\ row.seen > 0
              THEN [row EXCEPT !.seen = @ - 1] ELSE row

RegistryTick ==
  /\ workerRow' = Older(workerRow)
  /\ call' = [t \in Caller |->
                IF call[t].op \in RowOp \union {"revoke"}
                   /\ call[t].at \in {"read", "disable"}
                THEN [call[t] EXCEPT !.snap = Older(@)] ELSE call[t]]
  /\ UNCHANGED <<credential, targetRow, work>>

Goon(t) ==
  \/ ReadWorker(t) \/ SaveWorker(t) \/ RenewRefused(t) \/ FetchChecked(t)
  \/ FetchClaims(t) \/ RegisterReads(t) \/ RevokeCredentials(t)
  \/ RevokeDisables(t)
  \/ ListTargets(t) \/ DisableTarget(t) \/ DeleteCredentials(t)
  \/ DeleteRow(t) \/ SaveNewTarget(t) \/ SaveJob(t) \/ EnableChecks(t)
  \/ EnableSaves(t)

RegistryNext ==
  \/ \E t \in Caller :
       \/ Authenticate(t) \/ AdminReadsWorker(t) \/ Enrolled(t)
       \/ DeleteChecked(t) \/ EligibleFirst(t) \/ EnableReads(t) \/ Goon(t)
  \/ JobEnds \/ CancelPending \/ DeleteTarget \/ RegistryTick

\* A request that was let in is finished, and time passes.
RegistryFairness ==
  /\ \A t \in Caller : WF_registryVars(Goon(t))
  /\ WF_registryVars(RegistryTick)

RegistrySpec == RegistryInit /\ [][RegistryNext]_registryVars /\ RegistryFairness

-----------------------------------------------------------------------------
(* Properties.                                                             *)

RegistryTypeOK ==
  /\ workerRow \in WorkerRow \union {Missing}
  /\ credential \in {"none", "active", "revoked"}
  /\ targetRow \in TargetRow \union {Missing}
  /\ work \in Work
  /\ call \in [Caller -> Call]

\* A worker whose credentials are gone for good, revoked or deleted, ends up
\* offline, disabled or missing, whatever requests were under way when they
\* went and however often the administrator edits its labels; and from then
\* on nothing is dispatched to it and it claims nothing.
RevokedWorkerFadesOut ==
  <>[](credential # "active")
    => /\ <>[](~Eligible)
       /\ <>[][work' = work \/ work' = "none"]_registryVars

=============================================================================
