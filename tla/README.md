# Vaultline: TLA+ models and proofs

Vaultline (docker-volume-backup) is a Control Plane, a Python HTTP server that
keeps workers, targets, jobs and catalogues in SQLite, and Worker Agents that
poll it for jobs and run backups and restores in Docker, in Kubernetes or on
the host. The modules here model the parts whose correctness depends on order:
who may write a job row and when, what a lease guarantees, what a crash leaves
behind, what a retry may change, what a report may claim. TLC checks them on
small instances, and TLAPS proves the main invariants for every instance.

Run everything from this directory:

    tlc -workers 2 -config JobLeaseRaces.cfg MCJobLease
    tlc -workers 2 -config WorkerAgent.cfg MCWorkerAgent
    tlc -workers 2 -config WorkerEnrollmentSafety.cfg MCWorkerEnrollment
    tlc -workers 2 -config Services.cfg MCServices
    tlc -workers 2 -config Components.cfg MCComponents
    tlc -workers 2 -config SchedulerPreview.cfg Scheduler
    tlapm JobLeaseProofs.tla      (and the other *Proofs.tla)

The other configurations are `JobLeaseDiagnostic`,
`JobLeaseCanceled` (module `MCJobLease`), `WorkerAgentOneJob`
(`MCWorkerAgent`), `WorkerEnrollmentLiveness` and `WorkerEnrollmentRetry`
(`MCWorkerEnrollment`) and `ConfigurationContext` (`Configuration`). Paths below are relative to the repository's `src/`.

## 1. The system: an inventory

| component | source | state it keeps | operations | what is hard | module |
|---|---|---|---|---|---|
| Job lease table | `control_plane/application/services/control_plane_service.py` (jobs), `infrastructure/repositories/sqlite.py` | `jobs` rows: status, owner, lease token, expiry, progress sequence | dispatch, fetch (claim), renew, lease diagnostic, progress, completion, cancel, expiry on every listing | every request is a thread; some writes are guarded transactions, some save a record read earlier | `JobLease`, `JobLifecycle` |
| Worker agent loop, recovery journal | `worker_agent/application/services/worker_agent_service.py`, `worker_agent/main.py`, `job_recovery_journal.py` | batch of fetched jobs, current job, one journal file | poll, execute, report, recover | only the running job is renewed; a raise drops the batch; a crash between any two steps, a lost reply | `WorkerAgent`, `JobExecution` |
| Worker authentication and enrollment | `control_plane/infrastructure/security/worker_auth.py`, worker `cli.py`, `credential_store.py` | enrollments, recorded attempts, credential versions; the worker's pending and credential files | create, complete, replay, rotate, revoke; prepare, send, save, delete, reset | retries of a used token, version reuse, files written in between, an unlocked rotation | `WorkerEnrollment` |
| Worker registry | `control_plane_service.py` 193-268, 545-603, 2828-2874, 4098-4148 | worker rows: status, last seen; targets | register, heartbeat, renew, edit, revoke, delete, assign, dispatch | requests save the whole row they read before a revocation or a deletion | `WorkerRegistry` |
| Job event broker, event stream | `job_event_broker.py`, `main.py` 1718-1780 | one bounded queue per subscriber | publish, subscribe, unsubscribe, stream | publications out of order, a full queue, subscribing late | `JobEvents` |
| Snapshot sync and catalogue | `control_plane_service.py` 1307-1349, 2190-2211, 2361-2373, 3583-3603, 4058-4087, 4272-4293 | snapshots, generations, sync jobs | complete, bump, schedule, build, replace | a check and an insertion are two transactions; side effects come before the save; a cached listing | `SnapshotCatalog` |
| Scheduler | `scheduler_service.py` | last check per target, a thread | tick, check, dispatch, preview | ticks drift, a manual backup in between, repeated and missing hours | `Scheduler` |
| Targets, storage profiles, secrets, settings | `control_plane_service.py` 600-1240, 2213-2360, 2600-2826 | configuration rows | create, update, delete, find usages, build a payload | a delete checks usages, then deletes; the repository is worked out twice | `Configuration` |
| Live file lane | `live_file_service.py`, `main.py` 332-375 and 1530-1670, worker `live_target_session_manager.py`, `live_file_runtime.py` | sessions, slots, operations, queues of chunks and of changes | open, submit, answer, push, close, cancel; number, offer, attach, replay | bounded queues, late answers, sessions that end under their streams | `LiveFile`, `LiveWatch` |
| Docker runtime | `docker_runtime.py` | runtime containers, the log under way | launch, wait, stop, clean up, redact | cancellation and timeout during the wait; secrets cut over chunks | `WorkerAgent`, `LogStream` |
| Kubernetes runtime | `kubernetes_runtime.py` | replicas, Jobs | quiesce, create, poll, resume, sweep | lost answers, a failure or a crash between quiesce and resume | `KubernetesRun` |
| Backup and restore runs | `app/application/services`, `app/infrastructure/adapters` | containers, archive, target, result file | stop, archive, upload, clear, extract, start, report | each call may fail after its effect; the engine may be killed anywhere | `BackupRun`, `RestoreRun` |
| Explorer cache | `redis_cache.py` | entries, index, locks | get, lock, list, store, evict, release | commands fail one by one, locks run out | `SnapshotCache` |
| Sessions and users | `control_plane/auth.py` | users in memory and in a file | change, create, reset, update, save, load | a crash between two steps of a save, a shared temporary file | `UserAccounts` |
| Native runtime, runtime command policy | `native_runtime.py`, `runtime_command_policy.py` | none | validate, run | nothing of order | none, see section 9 |
| TLS, secret encryption, user interface, packaging, in-memory repositories | `tls.py`, `secret_codec.py`, `ui/`, `deploy/`, `in_memory.py` | files | load, generate, render | nothing of order | none, see section 9 |

How they interact: a browser or the scheduler dispatches a job row; the worker's
poll claims every pending row it is assigned, under one lease token per row;
the worker executes them one after the other, renews the lease of the one it
runs, and reports progress and the outcome, each on a request of its own. Any
listing, and the server-sent event stream through `get_job_view`, expires
overdue leases first. A successful change of a repository bumps the target's
generation before the row is saved and dispatches a snapshot sync after it. The
payload of a job is built from target, profile, settings and secrets; its run
goes through the Docker or the Kubernetes runtime, which start the engine
(`app/`) and read its result. Live requests bypass the job table: they go over
a lane that the worker polls.

## 2. How the project is laid out

One module per component, parameterised by constants with named assumptions.
Three components have runs of their own (sections 3 to 5). Six services of the
Control Plane are checked by the run `services` (section 6), and eight
components of the engine, the worker and the configuration by the run
`components` (section 7). In these two a behaviour is one of one component: the
initial state picks which, the others stay where they are. The state space is
the sum of the components' and not the product, the fairness of a component
counts in its own behaviours, and the properties are those of each component.
This is a way of running them and not a claim that they interact nowhere. That
the run is about each component as it is by itself is a theorem:
`ServicesByThemselves` and `ComponentsByThemselves` show that a behaviour of
the run is, for each component, a behaviour of that component's own
specification (without its fairness), so that every theorem about a component
holds in the run. What one module takes from another is said where it does:

* `WorkerAgent` takes a job's row as one status that a handler changes in one
  step, and a claim as being handed the job once: `JobLease` shows the latter
  (`GrantedAtMostOnce`) and how far the former goes (`OnlyStaleSavesUndo`; with
  one server thread all the way, `SerialLifecycle`).
* `JobEvents` lets any save replace the row by what its handler loaded, ended
  or not; which handlers do that is `JobLease`'s (`lease_diagnostic`,
  `lease_canceled`).
* `WorkerRegistry` takes enrollment and credentials as one step each; they are
  `WorkerEnrollment`'s. `SnapshotCatalog` takes a lookup in Redis as one step;
  it is `SnapshotCache`'s.
* `RestoreRun` and `BackupRun` take the worker's ending of the engine as a step
  that may come at any time; `WorkerAgent` and `KubernetesRun` say when.

Two modules are abstract specifications. `JobLifecycle` is what a reader of the
job table may rely on: a job is submitted, started, and ends once.
`JobExecution` adds what happens to the job's command: it is started at most
once, after the job was handed out, its execution ends once, and only a good
end makes a success, or, in a job that probes the storage, the answer that the
backend does not support it. `JobLease` with one server thread implements the
first (`LifecycleSpec`, the theorem `SerialLifecycle`), `WorkerAgent` the second
(`ExecutionSpec`, proved and checked) and through it the first; so the two models of a job's row meet in one specification.

Modules that are proved about use no recursive operators but recursive
functions; `SetInduction` has the induction that facts about these need. Operators marked
*Faulty* are variants of the definition after them, a plausible mistake each;
every property is violated when its variant takes the definition's place.

| proof module | is about |
|---|---|
| `JobLeaseProofs` | `JobLease`, and its refinement of `JobLifecycle` |
| `WorkerAgentProofs` | `WorkerAgent`, and its refinement of `JobExecution` |
| `WorkerEnrollmentProofs` | `WorkerEnrollment` |
| `ControlPlaneProofs` | `JobEvents`, `WorkerRegistry`, `SnapshotCatalog`, `Scheduler`, `UserAccounts`, and the run `services` as a whole |
| `StorageProofs` | `SnapshotCache`, `Configuration` |
| `LiveFileProofs` | `LiveFile`, `LiveWatch` |
| `EngineProofs` | `BackupRun`, `RestoreRun`, `KubernetesRun`, `LogStream`, and the run `components` as a whole |
| `SetInduction` | induction for sets of numbers |

What is left of the plan is in section 9.

## 3. The job table: `JobLease`

**State.** `jobs` is the table: per job its status, the worker it is assigned
to, `owner_worker_id`, `lease_token` (the k-th lease of a job has token k),
`lease_expires_at` and `progress_sequence`. `req` is what each server thread
holds between two repository calls: nothing, or the record it read and will
save. `grants` (the `attempt_count` column) counts the leases issued for a job
and `horizon` is an auxiliary variable, the ticks until the last lease issued
or renewed runs out.

**Time is relative.** A row keeps the ticks its lease has left. `Tick` lowers
them in rows, in the records handlers hold and in `horizon` together, which is
what an absolute expiry date and an advancing clock do. So time needs no bound.

**Actions.** One per repository call, since each call is one transaction under
the repository's lock, and handlers of different threads interleave between
calls. Three ways of writing a row are kept apart:

| kind | code | actions |
|---|---|---|
| guarded update in one transaction | `claim_pending_for_worker`, `renew_lease`, `update_progress`, `_reconcile_expired_leases_locked` | `FetchJobs`, `RenewWrite`, `ProgressUpdate`, `ListJobs`, `Reconcile` |
| `save` of a record read earlier | `record_job_lease_diagnostic`, `update_job_progress` with a lease context, `update_job_status`, `cancel_job` | `DiagnosticWrite`, `ProgressWrite`, `StatusWrite`, `CancelWrite` |
| insertion | `dispatch_job` | `Dispatch` |

A fetch expires overdue leases in a transaction of its own before the one that
claims; the first is a `ListJobs` step. `Restart` ends every handler and keeps
the table. A worker's eligibility is another component, so any worker may fetch
at any time here, which allows more behaviours than the code. Payloads, logs
and the lease context inside the result summary are left out: no guard reads
them.

**Fairness.** A handler that has begun goes on (weak fairness of its steps: a
thread is scheduled); time passes; and some client keeps listing jobs. The
last is strong fairness, because one modelled thread is one request: the server
gives every listing a thread of its own, so handlers that keep the modelled
threads busy cannot keep listings out for ever.

### Runs

| run | bounds | checks |
|---|---|---|
| `lease_races` | 2 jobs, 2 workers, 2 threads, lease of 2 ticks, sequences up to 2, symmetry | `TypeOK`, `GrantedAtMostOnce`, `RunningJobIsLeased`, `NoLeaseOutlivesItsGrant`, `CancelReachesWorker`, `OnlyStaleSavesUndo` |
| `services` (section 6) | 1 job, 1 worker, 2 threads, fairness | `AbandonedJobEnds` |
| `lease_diagnostic` | 1 job, 1 worker, 2 threads | `DiagnosticKeepsOwnershipAndStatus`: violated |
| `lease_canceled` | as above | `CanceledJobIsNotCompleted`: violated |

Two threads are what a lost update needs (a reader that saves late and one
write in between), two jobs are what a write to the wrong row needs, and a
lease of two ticks has a state in which it is neither fresh nor expired.
`MaxSeq` bounds the sequence numbers a worker sends.

What they show. However handlers interleave, a job is handed out at most once:
expiry fails a job instead of queueing it again, and a stale save can only
write back a record that was in progress, or cancel. What does not survive
interleaving is the lifecycle: a diagnostic resurrects a finished job
(`lease_diagnostic`), a completion replaces a cancellation (`lease_canceled`),
and a stale save takes a renewal or progress back; so these properties are
stated for one handler at a time. `OnlyStaleSavesUndo` says what is left of
them with any number of threads: a step that leaves the lifecycle, or takes
progress or a lease back, is a `save(job)` of a record that is not the row any
more. No guarded update, no listing and no save of an up-to-date record does,
so that a guard on the four saves is all it would take. A resurrected job is still
bounded: its lease cannot outlive the last one granted
(`NoLeaseOutlivesItsGrant`), so the next listing after it fails the job
(`AbandonedJobEnds`).

### Proofs: `JobLeaseProofs`

Assumed: `LeaseAssumption` (the duration is a positive number, `NoWorker` is
not a worker). No bound on jobs, workers, threads, or time.

`TypeCorrect` is proved first, one lemma per action. `LeaseInvariant` proves
`LeaseInv`, the inductive strengthening: `GrantedAtMostOnce` alone is not
inductive, since a handler might hold a pending record and save it over a
claimed row. `LeaseInv` therefore speaks of the records in flight
(`SnapshotsInv`: whatever is about to be saved was read in progress, or is to
be canceled) as well as of the rows (`RowsInv`) and the counters (`GrantsInv`).
`AtMostOneGrant`, `RunningIsLeased`, `LeaseWithinGrant`, `OutcomeIsEarned` and
`CancellationIsSeen` follow from it. `LeaseInv`, `OutcomeNeedsGrant` (an
outcome needs a grant), `RenewalIsNotUndone` (with one thread only time
shortens a lease) and `ProgressNeverRegresses` (nor does progress go back) are
proved; the runs check what follows from them, or `OnlyStaleSavesUndo`, instead.

`ThreadStep` goes through the actions once: with `LeaseInv`, each of them,
taken by whichever thread, moves every row as `RowStep` says (along the lifecycle,
progress and lease not backwards) unless it overwrites a row that has changed
(`Overwritten`). `OnlyStaleSaves` is that lemma for any number of threads. The
theorems for one server thread rest on it too, with an invariant of their own,
`Fresh`: a handler that is about to save still holds the row as it is in the
table, because nothing else writes meanwhile, so that nothing is ever
overwritten (`SerialStep`). Hence `SerialLifecycle`, `SerialProgress` and
`SerialRenewal`, and the two properties that are violated hold as well
(`SerialDiagnostic`, `SerialCancellation`). `SerialLifecycle` shows the refinement: initial
states map to initial states, every step to a step of `JobLifecycle` or a
stutter.

`AbandonedJobEnds` needs fairness and stays with TLC.

## 4. The worker agent: `WorkerAgent`

**State.** At the Control Plane: `row`, the status of each job, and `late`,
reports that the worker gave up waiting for and that may still be handled. In
the process, lost in a crash: `pc`, the fetched `batch`, the current job `cur`
and the `outcome` it is about to report. On disk: `journal`, the one recovery
record. In the engine: each job's `container`, and how its execution ended,
`exit`. `launches` counts executions.

**Actions.**

| part | code | actions |
|---|---|---|
| Control Plane | `dispatch_job`, `cancel_job`, lease expiry, `update_job_status` | `Dispatch`, `Cancel`, `LapseUnrenewed`, `LapseInOutage`, `Reconcile`, `LateReport` |
| poll | `_fetch_jobs`, journal write | `Fetch`, `Begin`, `JournalFails` |
| execution | `execute_job`, `run_runtime_job`, `_cleanup_container`, `_execute_storage_about` | `CanceledBeforeLaunch`, `NotLaunched`, `ExecuteDirectly`, `Create`, `CreateUnanswered`, `Launch`, `LaunchUnanswered`, `Collect`, `StopRuntime` |
| engine | (external) | `EngineStarts`, `ContainerExits` |
| report | `_process_jobs`, `_is_definitive_control_plane_rejection` | `ReportAccepted`, `ReportRejected`, `ReportUnanswered` |
| recovery | `cleanup_orphaned_runtime_containers`, `_recover_orphaned_runtime_container` | `SweepUnknown`, `SweepReported`, `SweepRejected`, `SweepUnanswered`, `JournalAges` |
| process | `main` | `Crash`, `Restart` |

`containers.run(detach=True)` creates the container and then starts it. Either
call may fail, or be carried out without an answer: the container is then left
created, or runs, now or later, with nobody to wait for it. `Probe` is the set
of `storage.about` jobs, of which a run that ends with rclone's "about is
unsupported" is a success; the recovery does not know their command and fails
them.

A request without an answer (`Unanswered`) was never sent, was handled and its
answer lost, or is still on its way. Any error raised by a report ends the poll
and drops the rest of the batch; a rejection clears the journal first.

**Abstractions.** The Control Plane handles a request in one step, and a job
has one lease token, so that holding it is having been handed the job: that is
what `JobLease` shows (`GrantedAtMostOnce`). A lease that ran out is a status
of its own until a listing fails the job; a listing precedes every cancel and
every fetch. The batch is a set, since no property depends on its order. There
is one worker per engine, so only its own sweep looks at its containers. A
command that runs several containers one after another counts as one
execution, whose container is the last one. The journal is configured (it is
optional in the code); progress and diagnostic requests belong to `JobLease`.
A record ages after seven days, when the worker is not at its job and the
job's lease is long over.

**Fairness.** Weak fairness of the loop's work and of the restart (the process
runs, and its supervisor restarts it), of listings, and of expiry of an
unrenewed lease. The loop's work includes stopping a container that is
waited for, since every wait has a timeout; nothing makes a container end that
nobody waits for. Strong fairness of a sweep that settles a container and
removes it: the sweep comes round every fifteen seconds, so in an infinite run
it finds the Control Plane answering and the engine removing again and again.
Nothing is assumed about fetches, crashes, lost requests or the engine's starts.

| run | bounds | checks |
|---|---|---|
| `worker` | 2 jobs, one of them a probe, fairness, no symmetry | `TypeOK`, `JournalKeptUntilSettled`, `ExecutionSpec` (refinement of `JobExecution`), `EndedContainersAreRemoved`, `EveryClaimEnds` |
| `worker_one_job` | 2 jobs, one of them a probe | `OneJobAtATime`: violated |

Two jobs are the interrupted one and the one that takes its place in the
journal or waits behind it in the batch. Crashes, lost answers and late reports
are not bounded: a report that differs from none in flight adds nothing to the
set of late ones.

What they show. No sequence of crashes and repeated reports executes a job
twice or shows a failure as a success, but for the probe's, although a late report and a recovery
may disagree about a job: whoever comes first decides, and both saw the same
exit. A container that has ended is removed in the end, by whoever
(`EndedContainersAreRemoved`); one that was created and never started is not,
since the sweep looks for containers that are exited or dead, and one that runs
unattended for ever is left to run. A dropped batch is not executed and not released either; its jobs fail
when their leases run out (`EveryClaimEnds`). Two things the model makes
visible: a container whose stop and removal the engine refuses, one whose
worker died, and one whose start was carried out unanswered run on while the
next job is executed (`worker_one_job` shows the first), and a container that ends
with status 130 is reported as canceled though nobody canceled it, which the
Control Plane refuses and the worker takes for settled, so that the job waits
for its lease. The second is the exception in `JournalKeptUntilSettled`.

**Proofs: `WorkerAgentProofs`**, for any set of jobs. `AgentTypes` is proved
together with the fact that a busy worker has a job, since a late report names
it. `AgentInvariant` proves `AgentInv`: neither `ExecutedAtMostOnce` nor
`SuccessIsReal` is inductive, so the invariant adds that jobs in the batch and
unclaimed jobs have no trace of an execution (`BatchInv`), that the journal
names the current job (`CurrentInv`), that a container runs only for an
execution that was started and has not ended, while one that was only created,
or is still to be started by the engine, belongs to none yet (`ExecutionInv`), and that an
outcome that is about to be reported, or a report still on its way, agrees with
how the execution ended (`ReportInv`). `AtMostOneExecution` and `SuccessIsEarned` follow (the run checks
both in `ExecutionSpec`, which implies them);
`JournalOutlastsTheJob` is an action property and uses `ReportInv` for the
rejected report. The two liveness properties stay with TLC.

`WorkerImplementsExecution` is the refinement, for any set of jobs. The mapping
shows `row` as the status (`Shown`: a lease that ran out is still in progress
until a listing fails the job), `launches` as the number of starts and `exit` as
the result; process, batch, journal, containers and late reports are hidden.
`TableStep` shows that whatever moves a row (claim, cancel, expiry, a report
that is answered, lost, late, or repeated by a recovery) is a step of the
abstract job table or none: that needs `ReportInv`, since a success is
accepted from a report alone. `ExecutionStep` shows that a launch is the first
one and comes after the claim, from `BatchInv` and `CurrentInv`, and that an
execution ends once. `WorkerFollowsLifecycle` is the second refinement on top.

`OneJobUnlessLost` says what lies behind `worker_one_job`: `Unattended`, the
containers that run, or are about to, while the worker waits for another one or
for none, grows only by a death of the worker, a refused stop or a start whose
answer is lost (`LosesOnlyThen`); while it is empty one job runs at a time.

## 5. Enrollment and credentials: `WorkerEnrollment`

A one-time token is redeemed for a versioned credential. The command line tool
draws an attempt (an identifier and a durable key), writes both to a pending
file, sends them with the token, stores the credential and deletes the pending
file. The Control Plane records which attempt redeemed a token and answers its
retries from the record.

**State.** Control Plane tables: `enrollment`, `redeemed`
(`auth_enrollment_attempts`), `creds` (`worker_credentials`, one worker);
`known` is whether the worker has a row. Its threads: where each `rotation` is and
what it has read,
`handling`, the completions that are committed and not yet answered. The
network: `requests`. The tool: `pc`, `answer`. Its disk: `pending`, `store`,
`leftover` temporary files. `tokenOf` and `settled` are auxiliary: the token an
attempt was drawn for, and the attempts that were stored or given up by
`--reset-pending`. So is `done`, which of revocation and rotation an
administrator has used so far.

**Actions.** `complete_v2` is one transaction under the lock and has four
outcomes: `Redeem`, `Conflict`, `Replay`, `Refuse`; registration and answer
follow in the same thread (`Register`, `Answer`). `rotate` takes no lock and is
three steps (`RotateRead`, `RotateRevoke`, `RotateSave`), and any number of
rotations may be under way at a time, each with a key of its own. `Create` covers both routes; replacing the pending tokens of a
worker and letting one expire are the same to a completion. A write of the
tool goes to a temporary file that is opened exclusively: a write that was cut
off makes the next one fail, and that failure removes the file
(`PrepareFails`, `SaveFails`). `Kill` ends the tool anywhere, `ServerRestart`
loses what is on its way. A token is created once, as the user interface draws
it at random.

**Fairness.** The owner runs the tool again and again (weak fairness of
`Retry`), a run ends (the request has a timeout), and in infinitely many runs a
request is sent, handled in time, answered and stored: strong fairness, because
kills, restarts and lost answers may come between them any number of times.

| run | bounds | checks |
|---|---|---|
| `enrollment_safety` | 2 tokens, 3 attempts, 2 rotations, 3 versions, symmetry | `TypeOK`, `SameAttemptSameVersion`, `OneActiveCredential`, `StoredCredentialWorks`, `RevokedKeyStaysRevoked` |
| `enrollment_liveness` | 1 token, 2 attempts, 2 versions, fairness | `RedeemedIsStored` |
| `enrollment_retry` | 2 tokens, 2 attempts, 3 versions | `UsedTokenHasAttempt`: violated |

Two tokens are an enrollment and the one that takes over, a third attempt
contests a token that is used. Two rotations are what it takes for one to write
what the other has read; three versions let each follow an enrollment or the
other. An attempt that redeemed its token is not disturbed by
other tokens, so one is enough for liveness.

What they show. Retries are safe: an accepted key is never lost, every answer
to it is the same, and no retry revives a revoked key, nor does a rotation
that another one overlaps: two that read the same version write the same next
one, so that the later replaces the other's new key, and both write the old
row back revoked. Numbering versions from the highest *active* one is what breaks:
before an administrator's first operation the next version is always free
(`NewestInv`), after a revocation it is not (`enrollment_retry`). A rotation
that overlaps two completions leaves two active credentials, which is why
`OneActiveCredential` speaks of the time before the first one.

**Proofs: `WorkerEnrollmentProofs`**, for any tokens, attempts and versions.
Assumed: `EnrollmentAssumption` (the special values are none of the ordinary
ones, `MaxVersion` is a number). Types and `LedgerInv` are one induction, since
a request names an attempt only because it was written down before it was
sent. `RecordsStay`, a record is written once, carries `RetriesAgree`; a key
belongs to one version (`KeyInv`), a rotation's to the one after the version it
read, and a rotation writes back what it read under the same version
(`RotationInv`), hence `RevocationIsFinal`. `OneActive`
holds up to the first rotation, and `StoredWorks` up to the first revocation or
rotation; the latter needs `NewestIsActive`, by which no completion meets a row
of its version. `RedeemedIsStored` stays with TLC.
`KeysAreKept` (an accepted key is in one file or the other, wherever the tool
is killed) and the inductive invariants are proved and are not in the runs.

`UsedTokensAreRecorded` says that nothing but a revocation or a rotation leads
to `enrollment_retry`: before them a token that is used up has its attempt on
record, and the retry is answered from it.

## 6. Services of the Control Plane (run `services`)

Five modules and the fair behaviours of `JobLease`, on the instances of
`Services.cfg`, with `MCServices` to pick the component of a behaviour.

| module | state and code | properties in the run |
|---|---|---|
| `JobEvents` | the row's view, what each handler has still to publish, the queue of each `JobEventSubscription`, the broker's subscribers, where each stream of `main.py` is | `EndedStreamShowedOutcome`, `StreamCatchesUp` |
| `WorkerRegistry` | the worker's row, its credential, a target, a job, what each handler thread has read | `RevokedWorkerFadesOut` |
| `SnapshotCatalog` | repository, generation, Redis entry of each generation, sync jobs, catalogue, worker, handlers | `CatalogFollows` |
| `Scheduler` | the day's clock change, the schedule, real time, the thread, `_last_check`, active backups | `OneRunPerReading`, `PreviewExactOutsideFirstPass` |
| `UserAccounts` | dictionary, users file, temporary file, handlers | `RestartFindsTheUsers` |
| `JobLease` | section 3 | `AbandonedJobEnds` |

**`JobEvents`.** A change of the row and its publication are separate steps,
the subscribers are copied before the offers, and an offer to a full queue is
three steps (`put_nowait`, `get_nowait`, `put_nowait`) between which another
handler may offer. A view is the version of the row and whether the job has
ended. A handler loads the row, on which its checks are made, and saves it some
time later, even if the job has ended meanwhile; the row may so end twice, with
different outcomes, or go on. `outcomes` are the views with which it ended. An
expiry is announced after the row was read again. A stream subscribes, reads the row once more, takes events, and looks at
the row when nothing came for the heartbeat interval; that look may itself
expire a lease and publish. `StreamCatchesUp` says that this is enough:
publications in the wrong order, lost events and changes that nobody publishes
are made good. `EndedStreamShowedOutcome` says that a stream ends on an outcome
that the row really had, though a late save may since have made another of it.
Bounds: 2 publishers and a queue of 1 are what a defeated second
attempt needs; 1 stream, since streams meet only in the broker's set; 3
versions, so that an older view can follow a newer one twice.

**`WorkerRegistry`.** Each request authenticates, reads and saves in separate
steps, and a save writes the row that was read, deleted or not. So a heartbeat
that was let in before a revocation enables the worker again, and one before a
deletion inserts it again: this is what the code does, and the model keeps it.
`RevokedWorkerFadesOut` is what remains true: once the credentials are gone for
good the worker ends up offline, disabled or missing, and nothing more is
dispatched to it or claimed by it. `seen` is the time left until it counts as
offline, relative like the leases of section 3. Bounds: 2 handlers, a worker
that is offline after 1 tick, one target, one job.

**`SnapshotCatalog`.** A completion bumps the generation before it saves the
job and asks for a sync after; asking is a look for an active sync, a payload
and an insertion, three calls. `CatalogFollows` has two parts. In every
deployment a sync whose payload was built after a success was saved shows that
change (`SyncShowsReportedChanges`). Without Redis, with a worker that waits
for its answers, the catalogue is complete when nothing is under way
(`CatalogCompleteWithoutCache`). With Redis the second does not hold: a sync
that was built before the success counts as active, so no other is scheduled,
and it may be answered with the listing of before the backup; nor does it hold
for a worker whose report timed out. Bounds: 2 sync jobs, 2 handlers, 2
changes: one sync overtaking another and a change in between.

**`Scheduler`.** An instant is a minute of real time and `Wall` its reading, on
a plain day, on one with a repeated hour and on one with a missing hour (the
length of the hour is a constant). Ticks take time and drift. `TickChecks` and
`TickDispatches` are two steps, as between them a manual backup may come.
The loop waits `interval`, SCHEDULER_INTERVAL_SECONDS, which may be less than a
minute: then several ticks see the same minute. `OneRunPerReading` says that
every scheduled dispatch (`runs` counts them) is for a later reading than the
one before, and never on top of another scheduled backup. It holds because the
difference of two datetimes of a zone is a difference of readings; after a
restart within the minute a backup that ended already may be repeated, which is
why the first half speaks of one life of the process. Bounds: instants 0 to 6 with a shift of 2 at reading 2 give all of
before, first pass, second pass and after; 2 clock steps a minute let a tick
begin late; loops that wait half a minute, one, and one and a half; every
schedule of one or two readings.

**`UserAccounts`.** `_save_users_file` is five steps, each of which may be the
last: list, open, write, rename, answer. The temporary file is one for all
handlers, and a rename takes the open file of another handler with it. Whenever
the process dies a restart finds a readable file with every change whose
success was reported (`RestartFindsTheUsers`), except in the first start, which
writes in place, and when requests overlap, which may save less than was
answered or tear the file. Bounds: 2 users, 1 password, 2 handlers; no third
request is taken once two have overlapped.

**Fairness** (`ServicesFairness`). A thread that has begun goes on, as in
section 3: publishers, streams, handlers. Time passes for leases and for the
worker's last sign of life. Some client keeps listing jobs (strong fairness).
Nothing makes a request, an enrollment, a change or a viewer come.

`CHECK_DEADLOCK FALSE` in this run and the next: jobs end, the day ends, runs
end, and counters reach their bounds.

### Proofs

| module | assumptions | what is proved | along which invariant |
|---|---|---|---|
| `ControlPlaneProofs` (JobEvents) | `EventsAssumption` | `EventsTypeCorrect`, `EndedStreamsShowOutcomes` | `EventsInv`: a view that says "ended", wherever it is under way (`OnTheWay`: in a thread, a queue, a stream), was an outcome of the row (`Borne`); a closed subscription belongs to a stream that is over (`ClosedForGood`) |
| `ControlPlaneProofs` (Scheduler) | `SchedulerAssumption` | `SchedulerTypeCorrect`, `OneRunForEachReading`, `PreviewIsExact` | `SchedulerInv`: the last dispatch is not ahead of the last check, and a dispatch under way is of a reading that was checked, is later than the last one run, and finds no scheduled backup (`Ahead`) |
| `ControlPlaneProofs` (UserAccounts) | `AccountsAssumption` | `AccountsTypeCorrect`, `RestartsFindTheUsers` | `AccountsInv`: with no overlap one request is under way, the temporary file is that request's, and the users file is the last answer or that request's list |
| `ControlPlaneProofs` (WorkerRegistry) | `RegistryAssumption` | `RegistryTypeCorrect`, `RevokedWorkerStaysFaded` | `Faded`: the row is missing or was not seen in time, no request that was let in is under way (`LetIn`), and none found the worker eligible or holds a row that was (`Spent`) |
| `ControlPlaneProofs` (SnapshotCatalog) | `CatalogAssumption` | `CatalogTypeCorrect`, `CatalogFollowsTheRepository` | `CountedOnce`: generation and successes still to be counted are not more than there are changes. `CatalogInv`, in every deployment: an entry of the present generation was listed after the last bump, and one that a sync may still be answered with shows what was reported when its payload was built. `PatientInv`, for a worker that waits and no Redis: handlers serve the one report the worker waits for, its listing is what the repository is, and a catalogue that misses a reported change has a sync coming (`Owed`) |

`PreviewIsExact` is about `cron_next_run` for every schedule and every day: the
search over readings, started from the beginning of the day, gives the first
matching instant after the base, except from within the first pass through a
repeated hour. It rests on the existence of a least number of a set, from
well-founded induction on the naturals. `StreamCatchesUp`,
`RevokedWorkerFadesOut`, `AbandonedJobEnds` are liveness and stay with TLC;
`RevokedWorkerStaysFaded` is the part of the second that is safety: without
credentials the requests that were let in only become fewer, and once they are
gone and the worker has run out, no stale save, edit or dispatch brings it back.
The bump before the save is what `CatalogInv` rests on: a success that is saved
has left its generation behind, so that no entry of the present one is older
than it.

`ServicesByThemselves` projects the run to each service, and
`ServicesTypeCorrect` concludes `ServicesTypeOK` from the five type theorems.

## 7. Engine, runtimes, configuration, live lane (run `components`)

Eight modules on the instances of `Components.cfg`, with `MCComponents` to pick
the component of a behaviour.

| module | state and code | properties in the run |
|---|---|---|
| `RestoreRun` | one restore: containers, target entries, the engine's place, the result file, the job's result | `RestoreReportIsReal` |
| `BackupRun` | one backup: containers, local files, destinations, the result | `ReportedBackupIsReal`, `LastCopyIsKept` |
| `LiveFile` | downloads over the live lane: slots, streams, operations, the worker's push, a change of the target | `SlotsAreInUse`, `ServedBodyIsPrefix` |
| `LiveWatch` | live changes: the watcher, numbering, the browser's queue and replay, revisions | `NoChangeIsMissed` |
| `LogStream` | the text kept back by the redacting log reader, what was handed on | `NoSecretIsShown` |
| `KubernetesRun` | replicas that are asked for, Jobs, one run at a time | `SuccessIsRealAndUndone`, `OnlyLossLeavesAtZero` |
| `Configuration` | secrets, profiles, settings, a target, what each request holds | `ReferencedSecretsExist`, `ContextNamesTheRepository` |
| `SnapshotCache` | entries, index, locks in Redis, where each caller is | `CacheStaysInOrder` |

**`RestoreRun`, `BackupRun`.** Every call that reaches outside the engine is a
step that may fail; a stop may fail after it was carried out; the worker may
end the runtime container anywhere, and then no `finally` clause runs. The
properties relate what was really done (containers, target, destinations) to
the report that went through the strategy, the service, the result file and the
worker. Bounds: 2 containers and the runtime's own, 2 entries, 2 services, 2
destinations; the requests and plans are all combinations of mode, layout, cold
or hot, encryption and destinations, and every set of archived, mounted and
read-only entries.

**`LiveFile`.** A push is three steps in the handler (look up, ask whether it is
closed, put), an invalidation is three, and both may interleave with the
browser's request. Every slot belongs to a request under way, except that of
the request the lane had no room for: it opens its stream before the operation
is submitted and does not close it again, so that the slot stays taken until
the session ends. What a browser gets under the 200 is the beginning of the file as
long as nobody changes the target: an invalidation closes the stream and empties
its queue, and the handler that was about to put a chunk then skips some.
Bounds: 2 downloads over 1 slot, 2 chunks, a queue of 1.

**`LiveWatch`.** Numbering and offering are two steps; the browser is attached
before it is replayed. `NoChangeIsMissed` leaves out two cases in which the
code does lose changes: a session that ended under its stream, and a browser
that comes back with an event number of another session. Bounds: 2 revisions, 2
changes, a queue of 1.

**`LogStream`.** `SafeCutoff` decides how much of the text is kept back for the
next chunk. A chunk is decoded by itself, so a letter of two bytes (`Wide`)
that its border cuts becomes `Broken` on both sides, and a secret with such a
letter is not recognised and goes out as it came. The limit counts bytes and may cut a letter
too. When the stream fails, what is kept back is dropped, and the whole log is
fetched and redacted in one piece (`StreamFails`, `Fallback`). `NoSecretIsShown` is
about the text after decoding and about secrets that lie apart in it. Where
they overlap the code does show one: of `aaaa`, cut behind the third letter,
the secret `aa` is replaced once, and the two letters that are left follow in
two pieces. Secrets are two words of
one to three letters over two letters, one of them wide; chunks have one or two
letters, and the log six bytes. Not modelled are the patterns for repository
addresses, and the five seconds that `_finish_log_stream` waits for the reader.

**`KubernetesRun`.** A workload is the number of replicas it is asked to have:
`_quiesce` patches the numbers and goes on, and no step of a run waits for a
pod, so the Job may well start beside pods that still write. No property says
that it does not. `Mounting` is what `_matching_workloads` finds: deployments
and statefulsets with a volume of one of the claims, or with a claim template of
that name; any other user of a claim is not found. A call may be refused, or be carried out without an
answer; the worker may die anywhere and sweeps its Jobs when it is back. A
death between quiesce and resume leaves the workloads at zero and nothing scales
them back. `SuccessIsRealAndUndone` is about runs that report success: the Job
succeeded since the run began (and not one of that name from an earlier run,
which may have been removed after its time), and every workload was asked
for what it had. `OnlyLossLeavesAtZero` is about all runs, and names the ways in which a workload
comes to be at zero with no run that means to bring it back: the worker dies,
the answer to the workload's own scaling down is lost (the code did not note it
in `changed` yet), or its own scaling up is refused. An error of one workload, a
failed Job or a failed poll leaves no other behind, since `_resume` goes on after an
error and stands in a `finally`. A workload that a run finds at zero already, left there by
an earlier one, is owed nothing: the code does not bring it back. Bounds:
3 workloads of which 2 mount the claims, 2 Jobs, up to 2 replicas.

**`Configuration`.** A deletion looks for usages in three calls and then deletes; a
save checks its references first, except those of a profile's environment
(`secret_refs`), which nobody asks for when they are saved and which count as usages all the same. So
`ReferencedSecretsExist` has two parts: the references that are asked for
(`AskedFor`) are kept, and no secret is deleted that anything refers to, those
others (`Unasked`) included. Both hold as long as requests of operators do not
overlap; overlapping ones do leave references behind, which `overlapped`
records. The repository of a job is worked out twice, for the environment and
for the storage context, the second time with the files of the run, to which
the settings' rclone.conf has been added where the profile had none. Both name
the same (`ContextNamesTheRepository`), except for an rclone profile that lacks
its own file under settings that have one (`LacksFile`), which is the finding
`storage_context`. Bounds: 1 secret, 1 profile, 1 remote, 2 handlers, and no
request once two have overlapped (`OneOverlap`; the theorems do not need it).

**`SnapshotCache`.** Every Redis command is a step that may fail before or after
its effect; locks and entries run out at any time. `CacheStaysInOrder`: one caller at
a time lists for an entry while locks last, and the index bounds the entries
unless writes were disturbed. Bounds: 2 callers, 2 entries, room for 1.

### Proofs

| module | assumptions | what is proved | along which invariant |
|---|---|---|---|
| `StorageProofs` (SnapshotCache) | `CacheAssumption` | `CacheTypeCorrect`, `OneListerForEachEntry`, `CacheKeepsOrder` | `LockInv`: a caller whose lock has not run out is between lock and release, and Redis holds its token. `IndexInv`: unless a write was cut short one caller writes at a time (`OneWriter`), every entry in Redis is in the index or about to be (`EntriesAreIndexed`), and the index, less what its writer is about to drop, has room (`IndexHasRoom`) |
| `LiveFileProofs` (LiveFile) | `LiveFileAssumption` | `FileTypeCorrect`, `SlotsBelongToRequests`, `BodiesArePrefixes` | `FileTypes` (with the bound of the queues), and `SlotInv` with `LaneServes`: a closed stream has no slot, an operation stays on the lane as long as its request may have one, and the worker serves only requests that have begun. `PrefixInv`: body, chunk in hand, queue and the chunk the worker reads next follow each other, and an operation that was answered is not done twice |
| `LiveFileProofs` (LiveWatch) | `LiveWatchAssumption` | `WatchTypeCorrect`, `ChangesReachTheBrowser` | `WatchInv`: nothing is offered before it is numbered; the browser is shown numbers in order, the replay before the queue (`ComeInOrder`); the number it returns with says what its user knows (`KnownUpToLast`); as long as a stream is open the rest, or the demand to reload, is on its way (`AllComing`) |
| `EngineProofs` (BackupRun) | none | `BackupTypeCorrect`, `BackupReportsAreReal`, `LastCopiesAreKept` | `BackupInv`: what was gone through in an upload is stored (`BackupPlaces`), a file is encrypted before the plain one goes (`BackupFiles`), a container that was stopped runs or is still to be started as long as the result is good (`BackupRestarts`) |
| `EngineProofs` (RestoreRun) | none | `RestoreTypeCorrect`, `RestoreReportsAreReal` | `RestoreInv`: entries that were gone through are as the layout wants them, the others as they were (`TargetPlace`); the containers likewise (`RestartPlace`); outcome, result file and job result say nothing that is not so (`Holds`) |
| `EngineProofs` (KubernetesRun) | `KubernetesAssumption` | `KubernetesTypeCorrect`, `KubernetesRunsAreUndone`, `WorkloadsAreLeftOnlyByLoss` | `KubernetesInv`: what was listed is every workload of the claims, each once (`AllFound`, by counting: an order of a finite set is onto); those that were changed are at zero (`ChangedAtZero`), with a good result the others are back (`OthersAreBack`), and the Job succeeded since the run began (`EndedWell`). `OwedInv`, for failed runs too: no workload is listed twice (`FoundOnce`), those changed are at zero until they are scaled back, those not yet changed are as they were found |
| `EngineProofs` (LogStream) | `LogAssumption` | `LogTypeCorrect`, `NoSecretsAreShown` | `LogInv`: what is kept back is the text behind what was handed on (`Behind`); what was handed on ends, behind its last mark, like the text up to there (`EndsWith`); and however the text goes on, no secret will lie across that cut (`CutIsSafe`) |
| `StorageProofs` (Configuration) | `ConfigurationAssumption` | `ConfigurationTypeCorrect`, `SecretsReferredToExist`, `ContextsNameTheRepository` | `ReferenceInv`: with no overlap one request is under way, what it asked for is there, and a secret is used in none of the places its deletion went through (`Checked`). `DraftInv`: each reading of a payload is the row as it is, as any save ends it, and the files of the run are the profile's, or the settings' where it has none (`FilesAgree`); the rest is `ResolvedTwiceIsTheSame`, a fact about `EffectiveRepository` by cases of where the repository comes from |

`NoSecretsAreShown` is about recursive functions on texts of any length.
The library's theorems on induction take an operator, which the
provers cannot instantiate; the lemma `NatSetInduction` of `SetInduction` takes a set, so that it is cited
like any fact: the set of the lengths for which the function is defined, or for
which its value is as claimed, is all of `Nat`. Two lemmas carry the proof.
`Remains` says what a replacement leaves of a text: runs without a mark are runs
of the text, no replaced word among them. `Lands` says where `SafeCutoff` puts the
cut: behind every secret that lies across it, step by step.

`ComponentsByThemselves` projects the run to each component, and
`ComponentsTypeCorrect` concludes `ComponentsTypeOK` from the eight type
theorems.

## 8. Findings

* `lease_diagnostic`: `record_job_lease_diagnostic` saves the record it read,
  and so can change ownership and status, which its docstring excludes.
* `lease_canceled`: `update_job_status` checks the status it read and saves
  later; a cancellation in between is replaced by the outcome, which
  `tests/test_job_ownership.py` excludes for the sequential case.
* `worker_one_job`: a job times out and the engine refuses to stop and to remove
  its container; its failure is reported and accepted, the journal cleared, and
  the next job of the batch is executed while the container runs on. The
  journal's docstring speaks of "the one job a worker executes at a time".
* `enrollment_retry`: after a revocation the completion of a new enrollment
  inserts version 1 again, fails, and has used its token up, because the
  connection's context manager commits in its `finally` clause. Its retries are
  refused, where the design notes promise that interrupted requests can be
  retried. The in-memory variant replaces the row and does not fail.
* `scheduler_preview`: `cron_next_run` promises "the next matching instant".
  Asked during the first pass through a repeated hour, it goes through the
  readings from the beginning of the day and returns the second occurrence of a
  reading that has gone by, before a later reading that comes first.
* `storage_context`: `_resolve_effective_repository` promises "the exact
  repository and its precedence source". For an rclone profile without a file of
  its own its second call takes the settings' remote for the profile's: the
  storage context names another source than the environment, and another
  repository where the settings' base names another remote.

How far each disagreement goes is a theorem: with one server thread neither of
the first two exists (`SerialDiagnostic`, `SerialCancellation`), and with any
number of them only a save of a record that was read before the row changed
undoes anything (`OnlyStaleSaves`); a container is
lost sight of only when the worker dies, a stop is refused or the answer to its
start is lost, and otherwise one job runs at a time (`OneJobUnlessLost`); a token that is used up has its attempt on
record until an administrator revokes or rotates (`UsedTokensAreRecorded`); the
announced run is right outside the first pass through a repeated hour
(`PreviewIsExact`); the storage context is right unless the profile lacks the
file that the settings have (`ContextsNameTheRepository`).

Some behaviours of the code are kept in the models and excepted in the
properties by name, or asked of by none, as no line of the repository promises otherwise: a
container that was created and not started stays (`WorkerAgent`), a Job runs
beside pods that are still ending (`KubernetesRun`), a letter cut by a chunk's
border hides a secret from the redaction (`LogStream`), a stale
save that enables a revoked worker's row again (`WorkerRegistry`), references left by
overlapping requests (`Configuration`), a catalogue behind the repository when
an older sync is active (`SnapshotCatalog`).

## 9. Not modelled, and what is left of the plan

Not to be modelled: the native runtime (one subprocess at a time without state
of its own; waiting and cancellation follow the Docker runtime),
`runtime_command_policy.py` (a pure check of command lines), `tls.py` and
`secret_codec.py` (cryptography, file generation), the user interface, the
command lines and packaging (rendering, routing, start-up), the in-memory
repositories (a test double of the SQLite ones), `sqlite_runtime.py`
(connection settings, integrity checks). Throughout, the validation of fields,
the wording of messages, logs, and inventories are data.

Within the modelled components:

* worker authentication: the V1 completion, the revocation of a single version
  (`worker_auth.py` 276), the deletion of a worker's credentials (298; its
  tokens and their attempts go as well, so that the worker starts anew), and the
  nonces; worker loop: registration, heartbeat and inventory calls,
  which only end a round when they fail;
* `Configuration`: retention, schedules and exclusions;
* `LiveWatch`: the posts of one session on top of each other, which the session
  manager of the worker allows; here a revision has one at a time;
* `LiveFile`: listings, which are one answer, and the checks of paths;
* `RestoreRun`: a discovery of containers that fails returns none
  (`docker_adapter.py` 156-158), and the search goes on by labels and by the
  volume;
* `BackupRun`, `RestoreRun`: the restic prune and check runs, ownership of
  single files;
* `SnapshotCache`: sizes of entries and the clean-up by target;
* `KubernetesRun`: logs and manifests; nothing in the code restores the
  workloads after a death between quiesce and resume, so no property says so
  (`OnlyLossLeavesAtZero` excepts it by name);
* `UserAccounts`: sessions, which are in memory only.

Every safety invariant, action property and refinement of the passing runs is a
theorem; of the two refinements that of `JobExecution` is checked, and proved
without restriction, and that of `JobLifecycle` is proved for one server thread. Liveness
stays with TLC, since fairness speaks of ENABLED, which the provers do not
handle: `EndedContainersAreRemoved`, `EveryClaimEnds`,
`RedeemedIsStored`, `StreamCatchesUp`, `RevokedWorkerFadesOut`,
`AbandonedJobEnds`.
