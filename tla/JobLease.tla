------------------------------ MODULE JobLease ------------------------------
(***************************************************************************)
(* The job table of the Control Plane and the request handlers that change *)
(* it.  Every HTTP request runs on a thread of its own; a handler reads a  *)
(* job row, decides, and writes the row back, and each repository call is  *)
(* one transaction.  So the steps below are the repository calls, and the  *)
(* handlers of different threads interleave between them.                  *)
(*                                                                         *)
(* Three ways of writing a row exist in the code, and telling them apart   *)
(* is what the model is for:                                               *)
(*   - a guarded update inside one transaction (claim, renewal, progress,  *)
(*     expiry), which looks at the row it changes;                         *)
(*   - save(job), which replaces the whole row by a record that the        *)
(*     handler read earlier (cancel, terminal status, lease diagnostic,    *)
(*     progress with lease context), whatever happened to the row since;   *)
(*   - the insertion of a new pending row (dispatch).                      *)
(*                                                                         *)
(* Time is relative: a row keeps the ticks its lease has left (ttl)        *)
(* instead of an expiry date, and Tick lowers the ttl of rows and of the   *)
(* records that handlers hold alike.  The state space is finite without a  *)
(* bound on time.                                                          *)
(*                                                                         *)
(* A worker's eligibility, its row, the target's catalogue and the event   *)
(* broker are other components; here a worker may be eligible or not at    *)
(* any time, and a follow-up job (the snapshot sync that a successful      *)
(* mutation schedules) is a Dispatch like any other.                       *)
(***************************************************************************)
EXTENDS Integers, FiniteSets

CONSTANTS
  Job,            \* job identifiers (uuid4 in the code)
  Worker,         \* registered workers
  NoWorker,       \* NULL in owner_worker_id
  Request,        \* threads of the HTTP server
  LeaseDuration,  \* JOB_LEASE_DURATION_SECONDS, in ticks
  MaxSeq          \* bound on the progress sequence numbers a worker sends

ASSUME LeaseAssumption ==
  /\ LeaseDuration \in Nat \ {0}
  /\ MaxSeq \in Nat
  /\ NoWorker \notin Worker

VARIABLES
  jobs,      \* the jobs table
  req,       \* what each server thread is doing
  grants,    \* how many leases claim_pending_for_worker issued for a job
  horizon    \* ticks until the latest lease issued or renewed for a job ends

vars == <<jobs, req, grants, horizon>>

-----------------------------------------------------------------------------
(* Rows, records held by handlers, and lease arithmetic.                   *)

Active    == {"pending", "in_progress"}
Completed == {"succeeded", "failed"}
Terminal  == Completed \union {"canceled"}
Status    == Active \union Terminal

NoToken  == 0     \* NULL in lease_token; the k-th lease of a job has token k
NoExpiry == -1    \* NULL in lease_expires_at

JobRecord ==
  [status : Status, worker : Worker, owner : Worker \union {NoWorker},
   token : Nat, ttl : NoExpiry .. LeaseDuration, seq : 0 .. MaxSeq]

NoJob == [status |-> "none"]

NewJob(w) ==
  [status |-> "pending", worker |-> w, owner |-> NoWorker,
   token |-> NoToken, ttl |-> NoExpiry, seq |-> 0]

\* What a thread holds between two repository calls.
Idle == [op |-> "idle"]

SnapshotOp == {"cancel", "diagnostic", "progress", "status"}

Handler ==
  {Idle}
    \union [op : {"cancelRead"}, job : Job]
    \union [op : {"cancel", "diagnostic"}, job : Job, snap : JobRecord]
    \union [op : {"renew"}, job : Job, worker : Worker, token : Nat]
    \union [op : {"progress"}, job : Job, worker : Worker, token : Nat,
            n : 1 .. MaxSeq, snap : JobRecord]
    \union [op : {"progressUpdate"}, job : Job, worker : Worker, token : Nat,
            n : 1 .. MaxSeq]
    \union [op : {"status"}, job : Job, outcome : Completed, snap : JobRecord]

HoldsSnapshot(r) == req[r].op \in SnapshotOp

\* The guard shared by renew_lease, update_progress and the service checks:
\* in progress, owned by w under token t, and not yet expired.
HoldsLease(row, w, t) ==
  /\ row.status = "in_progress"
  /\ row.owner = w
  /\ row.token = t
  /\ row.ttl > 0

Expired(row) == row.status = "in_progress" /\ row.ttl = 0

\* Faulty: an overdue job goes back to the queue.
Requeued(row) ==
  IF Expired(row)
  THEN [row EXCEPT !.status = "pending", !.owner = NoWorker,
                   !.token = NoToken, !.ttl = NoExpiry]
  ELSE row

\* Faulty: the lease is cleared and the status is left.
OnlyReleased(row) ==
  IF Expired(row)
  THEN [row EXCEPT !.owner = NoWorker, !.token = NoToken, !.ttl = NoExpiry]
  ELSE row

\* One row under _reconcile_expired_leases_locked.
Reconciled(row) ==
  IF Expired(row)
  THEN [row EXCEPT !.status = "failed", !.owner = NoWorker,
                   !.token = NoToken, !.ttl = NoExpiry]
  ELSE row

Reconcile == jobs' = [j \in Job |-> Reconciled(jobs[j])]

\* One row under claim_pending_for_worker, as the k-th lease of its job.
Claimed(row, w, k) ==
  [row EXCEPT !.status = "in_progress", !.owner = w, !.token = k,
              !.ttl = LeaseDuration]

\* Faulty: extends from the current expiry instead of from now.
ExtendedFromExpiry(row) == [row EXCEPT !.ttl = @ + LeaseDuration]

\* One row under renew_lease.
Extended(row) == [row EXCEPT !.ttl = LeaseDuration]

Countdown(t) == IF t > 0 THEN t - 1 ELSE t

\* A row, or a record read from it, one tick later.
Older(row) == IF row = NoJob THEN row ELSE [row EXCEPT !.ttl = Countdown(@)]

\* Faulty: only the owner in the row may ask.
IsJobCancelledByOwner(w, row) == row.owner = w /\ row.status = "canceled"

\* is_job_cancelled: the answer a worker gets; FALSE also when it is refused.
IsJobCancelled(w, row) ==
  /\ row.worker = w
  /\ row.owner \in {w, NoWorker}
  /\ row.status = "canceled"

-----------------------------------------------------------------------------
Init ==
  /\ jobs = [j \in Job |-> NoJob]
  /\ req = [r \in Request |-> Idle]
  /\ grants = [j \in Job |-> 0]
  /\ horizon = [j \in Job |-> 0]

Begin(r, h)  == req[r] = Idle /\ req' = [req EXCEPT ![r] = h]
Finish(r)    == req' = [req EXCEPT ![r] = Idle]
Save(j, row) == jobs' = [jobs EXCEPT ![j] = row]

\* dispatch_job: a new pending row.
Dispatch(r, j, w) ==
  /\ req[r] = Idle
  /\ jobs[j] = NoJob
  /\ Save(j, NewJob(w))
  /\ UNCHANGED <<req, grants, horizon>>

\* Faulty: a listing that expires nothing.
ListOnly(r) == req[r] = Idle /\ UNCHANGED vars

\* list_jobs, list_job_views and get_job: expire overdue leases, then read.
ListJobs(r) ==
  /\ req[r] = Idle
  /\ Reconcile
  /\ UNCHANGED <<req, grants, horizon>>

Claimable(j, w) == jobs[j].status = "pending" /\ jobs[j].worker = w

\* fetch_jobs_for_worker: expire overdue leases and claim every pending job
\* of the worker, each under a token of its own, in one transaction.
FetchJobs(r, w) ==
  /\ req[r] = Idle
  /\ jobs' = [j \in Job |->
       IF Claimable(j, w)
       THEN Claimed(jobs[j], w, grants[j] + 1)
       ELSE Reconciled(jobs[j])]
  /\ grants' = [j \in Job |->
       IF Claimable(j, w) THEN grants[j] + 1 ELSE grants[j]]
  /\ horizon' = [j \in Job |->
       IF Claimable(j, w) THEN LeaseDuration ELSE horizon[j]]
  /\ UNCHANGED req

\* renew_job_lease reads the row and checks it, ...
RenewRead(r, w, j, t) ==
  /\ HoldsLease(jobs[j], w, t)
  /\ Begin(r, [op |-> "renew", job |-> j, worker |-> w, token |-> t])
  /\ UNCHANGED <<jobs, grants, horizon>>

\* ... renew_lease checks it again in the transaction that extends it, ...
RenewWrite(r) ==
  LET h == req[r] IN
  /\ h.op = "renew"
  /\ HoldsLease(jobs[h.job], h.worker, h.token)
  /\ Save(h.job, Extended(jobs[h.job]))
  /\ horizon' = [horizon EXCEPT ![h.job] = LeaseDuration]
  /\ Finish(r)
  /\ UNCHANGED grants

\* ... and the service expires overdue leases when that check fails.
RenewLost(r) ==
  LET h == req[r] IN
  /\ h.op = "renew"
  /\ ~HoldsLease(jobs[h.job], h.worker, h.token)
  /\ Reconcile
  /\ Finish(r)
  /\ UNCHANGED <<grants, horizon>>

\* record_job_lease_diagnostic reads the row and keeps it, ...
DiagnosticRead(r, w, j, t) ==
  /\ HoldsLease(jobs[j], w, t)
  /\ Begin(r, [op |-> "diagnostic", job |-> j, snap |-> jobs[j]])
  /\ UNCHANGED <<jobs, grants, horizon>>

\* ... refuses an expired lease after expiring it, ...
DiagnosticExpired(r, w, j, t) ==
  /\ req[r] = Idle
  /\ Expired(jobs[j]) /\ jobs[j].owner = w /\ jobs[j].token = t
  /\ Reconcile
  /\ UNCHANGED <<req, grants, horizon>>

\* Faulty: a diagnostic counts as a renewal.
DiagnosticRenews(r) ==
  /\ req[r].op = "diagnostic"
  /\ Save(req[r].job, Extended(req[r].snap))
  /\ Finish(r)
  /\ UNCHANGED <<grants, horizon>>

\* ... or saves the record it kept, with a lease context added to it.
DiagnosticWrite(r) ==
  /\ req[r].op = "diagnostic"
  /\ Save(req[r].job, req[r].snap)
  /\ Finish(r)
  /\ UNCHANGED <<grants, horizon>>

\* update_job_progress: with a lease context it saves the record it read
\* before the guarded update, without one it goes to the update directly.
ProgressRead(r, w, j, t, n) ==
  /\ HoldsLease(jobs[j], w, t)
  /\ \/ Begin(r, [op |-> "progress", job |-> j, worker |-> w, token |-> t,
                  n |-> n, snap |-> jobs[j]])
     \/ Begin(r, [op |-> "progressUpdate", job |-> j, worker |-> w,
                  token |-> t, n |-> n])
  /\ UNCHANGED <<jobs, grants, horizon>>

ProgressWrite(r) ==
  LET h == req[r] IN
  /\ h.op = "progress"
  /\ Save(h.job, h.snap)
  /\ req' = [req EXCEPT ![r] = [op |-> "progressUpdate", job |-> h.job,
                 worker |-> h.worker, token |-> h.token, n |-> h.n]]
  /\ UNCHANGED <<grants, horizon>>

\* Faulty: any sequence number is taken.
ProgressAnyOrder(r) ==
  LET h == req[r] IN
  /\ h.op = "progressUpdate"
  /\ IF HoldsLease(jobs[h.job], h.worker, h.token)
     THEN Save(h.job, [jobs[h.job] EXCEPT !.seq = h.n])
     ELSE UNCHANGED jobs
  /\ Finish(r)
  /\ UNCHANGED <<grants, horizon>>

\* update_progress: ignored unless the lease is held and the sequence is new.
ProgressUpdate(r) ==
  LET h == req[r] IN
  /\ h.op = "progressUpdate"
  /\ IF HoldsLease(jobs[h.job], h.worker, h.token) /\ h.n > jobs[h.job].seq
     THEN Save(h.job, [jobs[h.job] EXCEPT !.seq = h.n])
     ELSE UNCHANGED jobs
  /\ Finish(r)
  /\ UNCHANGED <<grants, horizon>>

\* update_job_status checks the row it reads, applies the side effects of a
\* success to other tables, and saves the record with the outcome.  The
\* result summary that carries the sequence number is replaced.
StatusRead(r, w, j, t, outcome) ==
  /\ HoldsLease(jobs[j], w, t)
  /\ Begin(r, [op |-> "status", job |-> j, outcome |-> outcome,
               snap |-> jobs[j]])
  /\ UNCHANGED <<jobs, grants, horizon>>

StatusWrite(r) ==
  LET h == req[r] IN
  /\ h.op = "status"
  /\ Save(h.job, [h.snap EXCEPT !.status = h.outcome, !.seq = 0])
  /\ Finish(r)
  /\ UNCHANGED <<grants, horizon>>

\* cancel_job: get_job expires overdue leases in a transaction of its own, ...
CancelReconcile(r, j) ==
  /\ jobs[j] # NoJob
  /\ Reconcile
  /\ Begin(r, [op |-> "cancelRead", job |-> j])
  /\ UNCHANGED <<grants, horizon>>

\* ... reads the row and refuses a terminal one, ...
CancelRead(r) ==
  LET j == req[r].job IN
  /\ req[r].op = "cancelRead"
  /\ IF jobs[j].status \in Active
     THEN req' = [req EXCEPT ![r] =
                    [op |-> "cancel", job |-> j, snap |-> jobs[j]]]
     ELSE Finish(r)
  /\ UNCHANGED <<jobs, grants, horizon>>

\* ... and saves the record as canceled, its lease columns as they were read.
CancelWrite(r) ==
  /\ req[r].op = "cancel"
  /\ Save(req[r].job, [req[r].snap EXCEPT !.status = "canceled"])
  /\ Finish(r)
  /\ UNCHANGED <<grants, horizon>>

\* Time passes for the rows and for the records that handlers hold.
Tick ==
  /\ jobs' = [j \in Job |-> Older(jobs[j])]
  /\ req' = [r \in Request |->
       IF HoldsSnapshot(r) THEN [req[r] EXCEPT !.snap = Older(@)] ELSE req[r]]
  /\ horizon' = [j \in Job |-> Countdown(horizon[j])]
  /\ UNCHANGED grants

\* The Control Plane process stops and starts again: the handlers are gone,
\* the table is on disk.
Restart ==
  /\ req' = [r \in Request |-> Idle]
  /\ UNCHANGED <<jobs, grants, horizon>>

\* The steps a thread takes once its handler has begun.
HandlerStep(r) ==
  \/ RenewWrite(r)
  \/ RenewLost(r)
  \/ DiagnosticWrite(r)
  \/ ProgressWrite(r)
  \/ ProgressUpdate(r)
  \/ StatusWrite(r)
  \/ CancelRead(r)
  \/ CancelWrite(r)

\* A request from a worker about a job: the token is one it was handed.
WorkerRequest(r, w, j, t) ==
  \/ RenewRead(r, w, j, t)
  \/ DiagnosticRead(r, w, j, t)
  \/ DiagnosticExpired(r, w, j, t)
  \/ \E n \in 1 .. MaxSeq : ProgressRead(r, w, j, t, n)
  \/ \E outcome \in Completed : StatusRead(r, w, j, t, outcome)

Next ==
  \/ \E r \in Request, j \in Job, w \in Worker : Dispatch(r, j, w)
  \/ \E r \in Request : ListJobs(r)
  \/ \E r \in Request, w \in Worker : FetchJobs(r, w)
  \/ \E r \in Request, w \in Worker, j \in Job :
       \E t \in 1 .. grants[j] : WorkerRequest(r, w, j, t)
  \/ \E r \in Request, j \in Job : CancelReconcile(r, j)
  \/ \E r \in Request : HandlerStep(r)
  \/ Tick
  \/ Restart

\* Threads run, clocks advance, and some client keeps asking for the list
\* of jobs (a browser, or a worker's fetch): each such request gets a thread
\* of its own, so busy threads cannot keep it out for ever.
Fairness ==
  /\ \A r \in Request : WF_vars(HandlerStep(r))
  /\ WF_vars(Tick)
  /\ SF_vars(\E r \in Request : ListJobs(r))

Spec == Init /\ [][Next]_vars /\ Fairness

-----------------------------------------------------------------------------
(* Properties.                                                             *)

\* Every variable stays in its type.
TypeOK ==
  /\ jobs \in [Job -> JobRecord \union {NoJob}]
  /\ req \in [Request -> Handler]
  /\ grants \in [Job -> Nat]
  /\ horizon \in [Job -> 0 .. LeaseDuration]

\* A job is handed to a worker at most once: no lost update of save(job),
\* no expiry and no restart ever makes a job claimable a second time, so a
\* backup or a restore is never started twice.
GrantedAtMostOnce == \A j \in Job : grants[j] <= 1

\* A job in progress always has an owner, the worker it is assigned to, a
\* token that was issued and an expiry: without the expiry column the
\* reconciliation query would never see the row again.
RunningJobIsLeased ==
  \A j \in Job : jobs[j].status = "in_progress" =>
    /\ jobs[j].owner = jobs[j].worker
    /\ jobs[j].token \in 1 .. grants[j]
    /\ jobs[j].ttl # NoExpiry

\* A save of an old record can take a renewal back, but no write makes a
\* lease last longer than the last claim or renewal granted: a job whose
\* worker fell silent is overdue within LeaseDuration, resurrected or not.
NoLeaseOutlivesItsGrant ==
  \A j \in Job : jobs[j] # NoJob => jobs[j].ttl <= horizon[j]

\* A job has an outcome only if a worker was given it.
OutcomeNeedsGrant ==
  \A j \in Job : jobs[j].status \in Completed => grants[j] > 0

\* The worker that was handed a job learns of its cancellation when it asks,
\* also when the canceled record was read before the claim and its save
\* wiped the owner.
CancelReachesWorker ==
  \A j \in Job : jobs[j].status = "canceled" =>
    IsJobCancelled(jobs[j].worker, jobs[j])

\* Why the invariants above hold together.  The lease columns of a row, and
\* of every record a handler is about to save, are those of one lease that
\* was granted and that ends by the horizon; a record read for anything but
\* a cancellation was in progress, so that no save can queue a job again;
\* and a job without an issued lease is still waiting or was canceled.
WellLeased(row, k, h) ==
  /\ row.owner \in {row.worker, NoWorker}
  /\ row.ttl <= h
  /\ row.status = "in_progress" =>
       /\ row.owner = row.worker
       /\ row.token \in 1 .. k
       /\ row.ttl # NoExpiry

RowsInv ==
  \A j \in Job : jobs[j] # NoJob => WellLeased(jobs[j], grants[j], horizon[j])

GoodSnapshot(h, k, z) ==
  /\ WellLeased(h.snap, k[h.job], z[h.job])
  /\ h.snap.status \in Active
  /\ h.op # "cancel" => h.snap.status = "in_progress"

SnapshotsInv ==
  \A r \in Request :
    HoldsSnapshot(r) => GoodSnapshot(req[r], grants, horizon)

GrantsInv ==
  \A j \in Job :
    /\ grants[j] <= 1
    /\ jobs[j].status \in {"none", "pending"} => grants[j] = 0
    /\ jobs[j].status \in Completed => grants[j] > 0

LeaseInv == RowsInv /\ SnapshotsInv /\ GrantsInv

\* A job that no handler touches any more does not stay in progress: its
\* lease runs out and the next listing fails it.
Untouched(j) == \A r \in Request : req[r] = Idle \/ req[r].job # j

AbandonedJobEnds ==
  \A j \in Job :
    <>[]Untouched(j) => <>[](jobs[j].status # "in_progress")

\* The three properties below hold when handlers do not overlap.

\* The status column implements the abstract lifecycle: a job ends once, and
\* a terminal status is never replaced.
StatusOf == [j \in Job |-> jobs[j].status]
Lifecycle == INSTANCE JobLifecycle WITH status <- StatusOf
LifecycleSpec == Lifecycle!Spec

\* The progress of a running job never goes backwards.
ProgressNeverRegresses ==
  [][\A j \in Job :
       jobs[j].status = "in_progress" /\ jobs'[j].status = "in_progress"
         => jobs'[j].seq >= jobs[j].seq]_vars

\* Only the passing of time shortens the lease of a running job.
RenewalIsNotUndone ==
  [][\A j \in Job :
       (/\ jobs[j].status = "in_progress" /\ jobs'[j].status = "in_progress"
        /\ jobs'[j].ttl < jobs[j].ttl)
         => Tick]_vars

\* A save of a record that is not what the row is any more.
SaveRecord(r) ==
  DiagnosticWrite(r) \/ ProgressWrite(r) \/ StatusWrite(r) \/ CancelWrite(r)

Overwritten(j) ==
  \E r \in Request :
    /\ HoldsSnapshot(r) /\ req[r].job = j /\ req[r].snap # jobs[j]
    /\ SaveRecord(r)

\* However many handlers overlap, only one thing undoes what was done to a
\* row: a save of a record (the repository's save(job)) that was read before
\* the row was changed.  Every guarded update, every other save and every
\* listing keeps to the lifecycle, the progress and the lease.
OnlyStaleSavesUndo ==
  [][\A j \in Job :
       \/ Overwritten(j)
       \/ /\ \/ jobs'[j].status = jobs[j].status
             \/ <<jobs[j].status, jobs'[j].status>> \in Lifecycle!Moves
          /\ jobs[j].status = "in_progress" /\ jobs'[j].status = "in_progress" =>
               /\ jobs'[j].seq >= jobs[j].seq
               /\ jobs'[j].ttl >= jobs[j].ttl \/ Tick]_vars

\* The two properties below are what the source says, and fail.

\* record_job_lease_diagnostic: "without changing job ownership or status".
DiagnosticKeepsOwnershipAndStatus ==
  [][\A r \in Request : DiagnosticWrite(r) =>
       /\ jobs'[req[r].job].status = jobs[req[r].job].status
       /\ jobs'[req[r].job].owner = jobs[req[r].job].owner]_vars

\* A canceled job cannot be completed (test_duplicate_and_canceled_...).
CanceledJobIsNotCompleted ==
  [][\A j \in Job : jobs[j].status = "canceled" =>
       jobs'[j].status \notin Completed]_vars
=============================================================================
