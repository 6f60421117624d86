---------------------------- MODULE WorkerAgent ----------------------------
(***************************************************************************)
(* One worker process, its recovery journal, the runtime containers it     *)
(* starts and the job rows it was assigned.                                *)
(*                                                                         *)
(* The main loop sweeps orphaned containers, fetches jobs, and executes    *)
(* the fetched batch one job after the other.  The journal file and the    *)
(* containers survive the process; the batch does not.  A report to the    *)
(* Control Plane may be answered, rejected, lost, or handled after the     *)
(* worker gave up waiting.                                                 *)
(*                                                                         *)
(* The row of a job is what JobLease refines: the Control Plane handles a  *)
(* request in one step here, a lease that ran out is a status of its own   *)
(* ("lapsed") until a listing fails it, and each job has one lease token,  *)
(* so that holding the token is having been handed the job.                *)
(***************************************************************************)
EXTENDS Integers, FiniteSets

CONSTANTS
  Job, NoJob,
  Probe  \* the jobs with the command storage.about

ASSUME NoJobAssumption == NoJob \notin Job

ASSUME ProbeAssumption == Probe \subseteq Job

VARIABLES
  row,        \* the status of each job at the Control Plane
  late,       \* reports that the worker gave up on and that are still coming
  pc,         \* where the worker process is
  batch,      \* fetched jobs that it has not begun
  cur,        \* the job that it works on
  outcome,    \* the outcome it is about to report
  journal,    \* the job in the recovery journal, on disk
  container,  \* the runtime container of each job
  launches,   \* how often a job was executed
  exit        \* how its execution ended

cpVars == <<row, late>>
processVars == <<pc, batch, cur, outcome>>
runtimeVars == <<container, launches, exit>>
vars == <<cpVars, processVars, journal, runtimeVars>>

Outcome == {"succeeded", "failed"}
Row == {"none", "pending", "in_progress", "lapsed", "canceled"} \union Outcome
Exit == {"unknown", "ok", "error", "interrupted", "unsupported"}
Container == {"none", "created", "starting", "running", "exited"}
Pc == {"down", "idle", "starting", "created", "running", "report"}

\* The renewal thread runs while a job executes.
Renewed(j) == pc \in {"starting", "created", "running"} /\ cur = j

Busy == pc \in {"starting", "created", "running", "report"}

Init ==
  /\ row = [j \in Job |-> "none"]
  /\ late = {}
  /\ pc = "idle" /\ batch = {} /\ cur = NoJob /\ outcome = "failed"
  /\ journal = NoJob
  /\ container = [j \in Job |-> "none"]
  /\ launches = [j \in Job |-> 0]
  /\ exit = [j \in Job |-> "unknown"]

-----------------------------------------------------------------------------
(* The Control Plane.                                                      *)

Dispatch(j) ==
  /\ row[j] = "none"
  /\ row' = [row EXCEPT ![j] = "pending"]
  /\ UNCHANGED <<late, processVars, journal, runtimeVars>>

\* A job whose lease ran out is failed by the listing that precedes a cancel.
Cancel(j) ==
  /\ row[j] \in {"pending", "in_progress"}
  /\ row' = [row EXCEPT ![j] = "canceled"]
  /\ UNCHANGED <<late, processVars, journal, runtimeVars>>

Lapse(j) ==
  /\ row[j] = "in_progress"
  /\ row' = [row EXCEPT ![j] = "lapsed"]
  /\ UNCHANGED <<late, processVars, journal, runtimeVars>>

\* A lease nobody renews runs out.
LapseUnrenewed(j) == ~Renewed(j) /\ Lapse(j)

\* An outage of several minutes makes the renewals of a running job fail.
LapseInOutage(j) == Renewed(j) /\ Lapse(j)

\* Faulty: an overdue job is queued again.
Requeued(status) == IF status = "lapsed" THEN "pending" ELSE status

\* Faulty: an overdue job gets its error code for a status.
Interrupted(status) ==
  IF status = "lapsed" THEN "worker_interrupted" ELSE status

Overdue(status) == IF status = "lapsed" THEN "failed" ELSE status

\* A listing fails overdue jobs.
Reconcile ==
  /\ row' = [j \in Job |-> Overdue(row[j])]
  /\ UNCHANGED <<late, processVars, journal, runtimeVars>>

\* update_job_status: only a running job under a live lease takes an outcome.
Accepts(j, o) == row[j] = "in_progress" /\ o \in Outcome

Handle(j, o) ==
  row' = IF Accepts(j, o) THEN [row EXCEPT ![j] = o] ELSE row

\* A report whose sender timed out is handled all the same.
LateReport ==
  \E m \in late :
    /\ Handle(m.job, m.outcome)
    /\ late' = late \ {m}
    /\ UNCHANGED <<processVars, journal, runtimeVars>>

-----------------------------------------------------------------------------
(* The worker process.                                                     *)

Ready == pc = "idle" /\ batch = {}

\* The Control Plane expires overdue leases and claims every pending job of
\* the worker; the answer may be lost.
Fetch ==
  LET claimed == {j \in Job : row[j] = "pending"} IN
  /\ Ready
  /\ row' = [j \in Job |->
               IF j \in claimed THEN "in_progress" ELSE Overdue(row[j])]
  /\ batch' \in {claimed, {}}
  /\ UNCHANGED <<late, pc, cur, outcome, journal, runtimeVars>>

\* The next job of the batch is journalled, then its renewal starts.
Begin(j) ==
  /\ pc = "idle" /\ j \in batch
  /\ journal' = j
  /\ pc' = "starting" /\ cur' = j /\ batch' = batch \ {j}
  /\ UNCHANGED <<cpVars, outcome, runtimeVars>>

\* The journal cannot be written: the poll ends, the rest of its batch with it.
JournalFails ==
  /\ pc = "idle" /\ batch # {}
  /\ batch' = {}
  /\ UNCHANGED <<cpVars, pc, cur, outcome, journal, runtimeVars>>

\* The job will be reported as o; the renewal thread is stopped.
Conclude(o) == pc' = "report" /\ outcome' = o /\ UNCHANGED <<batch, cur>>

\* The look before the launch sees the cancellation.  A job that only probes
\* the storage fails, whatever ended it.
CanceledBeforeLaunch ==
  /\ pc = "starting" /\ row[cur] = "canceled" /\ cur \notin Probe
  /\ Conclude("canceled")
  /\ UNCHANGED <<cpVars, journal, runtimeVars>>

\* The command is not supported, its payload is refused, or the image or the
\* container cannot be had; or the container was created and its start is
\* refused: then it stays as it is, since the call that failed returns none
\* to clean up.
NotLaunched ==
  /\ pc \in {"starting", "created"}
  /\ Conclude("failed")
  /\ UNCHANGED <<cpVars, journal, runtimeVars>>

\* A command that needs no container (inventory, self check, start and stop).
ExecuteDirectly ==
  /\ pc = "starting"
  /\ launches' = [launches EXCEPT ![cur] = @ + 1]
  /\ \/ exit' = [exit EXCEPT ![cur] = "ok"] /\ Conclude("succeeded")
     \/ exit' = [exit EXCEPT ![cur] = "error"] /\ Conclude("failed")
  /\ UNCHANGED <<cpVars, journal, container>>

\* containers.run creates the container, ...
CreateContainer ==
  /\ pc = "starting"
  /\ container' = [container EXCEPT ![cur] = "created"]
  /\ UNCHANGED <<cpVars, journal, launches, exit>>

Create == CreateContainer /\ pc' = "created" /\ UNCHANGED <<batch, cur, outcome>>

CreateUnanswered == CreateContainer /\ Conclude("failed")

\* ... and then starts it.  No look at the lease: a job that failed for want
\* of renewals while it waited in the batch is launched too.
Launch ==
  /\ pc = "created"
  /\ pc' = "running"
  /\ container' = [container EXCEPT ![cur] = "running"]
  /\ launches' = [launches EXCEPT ![cur] = @ + 1]
  /\ UNCHANGED <<cpVars, batch, cur, outcome, journal, exit>>

\* The engine takes the start and its answer is lost: the container runs, now
\* or later, and nobody waits for it.
LaunchUnanswered ==
  /\ pc = "created"
  /\ Conclude("failed")
  /\ container' = [container EXCEPT ![cur] = "starting"]
  /\ UNCHANGED <<cpVars, journal, launches, exit>>

EngineStarts(j) ==
  /\ container[j] = "starting"
  /\ container' = [container EXCEPT ![j] = "running"]
  /\ launches' = [launches EXCEPT ![j] = @ + 1]
  /\ UNCHANGED <<cpVars, processVars, journal, exit>>

\* How a command can end: only rclone's answer that the backend has no "about"
\* is told from other errors.
Ends(j) ==
  {"ok", "error", "interrupted"}
    \union (IF j \in Probe THEN {"unsupported"} ELSE {})

\* The container ends by itself, whether or not the worker is there.
ContainerExits(j) ==
  /\ container[j] = "running"
  /\ container' = [container EXCEPT ![j] = "exited"]
  /\ \E e \in Ends(j) : exit' = [exit EXCEPT ![j] = e]
  /\ UNCHANGED <<cpVars, processVars, journal, launches>>

\* _cleanup_container removes a container, or gives up after three attempts.
Remove(j) ==
  container' \in {[container EXCEPT ![j] = "none"], container}

\* The exit code decides, unless the output was too long or unreadable.  Exit
\* status 130 counts as a cancellation, whoever interrupted the container, but
\* not for a probe, to which "unsupported" is an answer like any other.
Concluded(j, e) ==
  CASE e = "ok"                             -> Outcome
    [] e = "unsupported" /\ j \in Probe      -> Outcome
    [] e = "interrupted" /\ j \notin Probe   -> {"failed", "canceled"}
    [] OTHER                                 -> {"failed"}

Collect ==
  /\ pc = "running" /\ container[cur] = "exited"
  /\ \E o \in Concluded(cur, exit[cur]) : Conclude(o)
  /\ Remove(cur)
  /\ UNCHANGED <<cpVars, journal, launches, exit>>

\* A canceled or overlong job: its container is stopped and removed, or only
\* stopped, or left running when the engine refuses both.
StopRuntime ==
  /\ pc = "running" /\ container[cur] = "running"
  /\ \/ row[cur] = "canceled" /\ cur \notin Probe /\ Conclude("canceled")
     \/ Conclude("failed")
  /\ \/ /\ container' \in {[container EXCEPT ![cur] = c] : c \in {"none", "exited"}}
        /\ exit' = [exit EXCEPT ![cur] = "error"]
     \/ UNCHANGED <<container, exit>>
  /\ UNCHANGED <<cpVars, journal, launches>>

Clear(j) == journal' = IF journal = j THEN NoJob ELSE journal

GoIdle(rest) == pc' = "idle" /\ cur' = NoJob /\ batch' = rest /\ UNCHANGED outcome

\* The report is taken: the journal is cleared and the batch goes on.
ReportAccepted ==
  /\ pc = "report" /\ Accepts(cur, outcome)
  /\ Handle(cur, outcome)
  /\ Clear(cur)
  /\ GoIdle(batch)
  /\ UNCHANGED <<late, runtimeVars>>

\* The Control Plane answers that the job is canceled, expired or not in
\* progress, or that "canceled" is no outcome.  The answer is an HTTP error,
\* so that it is raised for a canceled job as well, and the rest of the batch
\* is dropped.
ReportRejected ==
  /\ pc = "report" /\ ~Accepts(cur, outcome)
  /\ Clear(cur)
  /\ GoIdle({})
  /\ UNCHANGED <<cpVars, runtimeVars>>

\* A request that fails: never sent, handled with its answer lost, or still
\* on its way.
Unanswered(j, o) ==
  \/ UNCHANGED cpVars
  \/ Handle(j, o) /\ UNCHANGED late
  \/ late' = late \union {[job |-> j, outcome |-> o]} /\ UNCHANGED row

\* Faulty: any error counts as an answer.
ReportGivenUp ==
  /\ pc = "report"
  /\ Unanswered(cur, outcome)
  /\ Clear(cur)
  /\ GoIdle({})
  /\ UNCHANGED runtimeVars

\* No answer: the journal stays, and the rest of the batch is dropped.
ReportUnanswered ==
  /\ pc = "report"
  /\ Unanswered(cur, outcome)
  /\ GoIdle({})
  /\ UNCHANGED <<journal, runtimeVars>>

\* The process dies; after five failed rounds of its loop it ends by itself.
Crash ==
  /\ pc # "down"
  /\ pc' = "down" /\ batch' = {} /\ cur' = NoJob
  /\ UNCHANGED <<cpVars, outcome, journal, runtimeVars>>

Restart ==
  /\ pc = "down"
  /\ pc' = "idle"
  /\ UNCHANGED <<cpVars, batch, cur, outcome, journal, runtimeVars>>

-----------------------------------------------------------------------------
(* The sweep over exited containers, before a fetch.  One that was created *)
(* and never started is none of them, and stays for ever.                  *)

Swept(j) == Ready /\ container[j] = "exited"

\* Faulty: a container that the journal does not name is kept.
OrphanKept(j) ==
  /\ Swept(j) /\ journal # j
  /\ UNCHANGED vars

\* A container that the journal does not name is removed without a report.
SweepUnknown(j) ==
  /\ Swept(j) /\ journal # j
  /\ Remove(j)
  /\ UNCHANGED <<cpVars, processVars, journal, launches, exit>>

\* What _build_recovery_result makes of the exit code: commands whose output
\* cannot be rebuilt fail, and it does not know a probe's at all.
Recovered(j) ==
  IF exit[j] = "ok" /\ j \notin Probe THEN Outcome ELSE {"failed"}

\* Faulty: the journal's job is reported whatever container was found.
SweepReportedForAny(j) ==
  /\ Swept(j) /\ journal # NoJob
  /\ \E o \in Recovered(j) : Accepts(journal, o) /\ Handle(journal, o)
  /\ journal' = NoJob
  /\ Remove(j)
  /\ UNCHANGED <<late, processVars, launches, exit>>

\* The journalled job is reported, the journal cleared, the container removed.
SweepReported(j) ==
  /\ Swept(j) /\ journal = j
  /\ \E o \in Recovered(j) : Accepts(j, o) /\ Handle(j, o)
  /\ Clear(j)
  /\ Remove(j)
  /\ UNCHANGED <<late, processVars, launches, exit>>

SweepRejected(j) ==
  /\ Swept(j) /\ journal = j
  /\ row[j] # "in_progress"
  /\ Clear(j)
  /\ Remove(j)
  /\ UNCHANGED <<cpVars, processVars, launches, exit>>

\* Without an answer both are kept for a later sweep.
SweepUnanswered(j) ==
  /\ Swept(j) /\ journal = j
  /\ \E o \in Recovered(j) : Unanswered(j, o)
  /\ UNCHANGED <<processVars, journal, runtimeVars>>

\* A record older than seven days reads as none.
JournalAges ==
  /\ journal # NoJob /\ ~Busy /\ row[journal] # "in_progress"
  /\ journal' = NoJob
  /\ UNCHANGED <<cpVars, processVars, runtimeVars>>

Sweep(j) ==
  \/ SweepUnknown(j)
  \/ SweepReported(j)
  \/ SweepRejected(j)
  \/ SweepUnanswered(j)

Work ==
  \/ \E j \in Job : Begin(j)
  \/ JournalFails
  \/ CanceledBeforeLaunch
  \/ NotLaunched
  \/ ExecuteDirectly
  \/ Create
  \/ CreateUnanswered
  \/ Launch
  \/ LaunchUnanswered
  \/ Collect
  \/ StopRuntime
  \/ ReportAccepted
  \/ ReportRejected
  \/ ReportUnanswered

Next ==
  \/ \E j \in Job : Dispatch(j) \/ Cancel(j)
  \/ \E j \in Job : LapseUnrenewed(j) \/ LapseInOutage(j)
  \/ Reconcile
  \/ LateReport
  \/ Fetch
  \/ Work
  \/ \E j \in Job : EngineStarts(j)
  \/ \E j \in Job : ContainerExits(j)
  \/ \E j \in Job : Sweep(j)
  \/ JournalAges
  \/ Crash
  \/ Restart

\* The loop runs and is restarted; leases run out and listings come.  Nothing
\* makes a container end: the worker waits for its own up to a timeout, and
\* for nobody else's.  The sweep comes round every fifteen seconds, so that in
\* an infinite run it finds the Control Plane answering, and the engine
\* removing, again and again.
Settle(j) == SweepReported(j) \/ SweepRejected(j) \/ SweepUnknown(j)

Fairness ==
  /\ WF_vars(Work)
  /\ WF_vars(Restart)
  /\ WF_vars(Reconcile)
  /\ \A j \in Job :
       /\ WF_vars(LapseUnrenewed(j))
       /\ SF_vars(Settle(j) /\ container'[j] = "none")

Spec == Init /\ [][Next]_vars /\ Fairness

-----------------------------------------------------------------------------
(* Properties.                                                             *)

\* Every variable stays in its type.
TypeOK ==
  /\ row \in [Job -> Row]
  /\ late \subseteq [job : Job, outcome : Outcome \union {"canceled"}]
  /\ pc \in Pc /\ batch \subseteq Job /\ cur \in Job \union {NoJob}
  /\ outcome \in Outcome \union {"canceled"}
  /\ journal \in Job \union {NoJob}
  /\ container \in [Job -> Container]
  /\ launches \in [Job -> Nat]
  /\ exit \in [Job -> Exit]

\* Crashes, lost answers, repeated reports and recovery never execute a job
\* a second time.  This and the next invariant follow from ExecutionSpec, which
\* the run checks, and carry its proof.
ExecutedAtMostOnce == \A j \in Job : launches[j] <= 1

\* A job that the Control Plane shows as succeeded was executed and ended
\* well, or was a probe that got the answer "unsupported", whoever reported
\* it: the loop, a recovery after a restart, or a request that arrived late.
EndedWell(j) ==
  \/ exit[j] = "ok"
  \/ exit[j] = "unsupported" /\ j \in Probe

SuccessIsReal == \A j \in Job : row[j] = "succeeded" => EndedWell(j)

\* The journal gives a job up only when the Control Plane has no use for a
\* report any more; otherwise another job took its place.  The exception is an
\* execution that somebody interrupted: it is reported as canceled, which
\* the Control Plane refuses, and its lease has to run out.
JournalKeptUntilSettled ==
  [][\A j \in Job :
       journal = j /\ journal' = NoJob =>
         row'[j] # "in_progress" \/ exit[j] = "interrupted"]_vars

\* The worker, its journal and its containers implement JobExecution, which
\* knows nothing of them: whatever crashes, is lost or comes late, the status
\* that the job table shows follows the lifecycle, the command of a job starts
\* once and after the claim, and a success is only shown after an execution
\* that ended well, or in a probe that was answered.  A lease that ran out is
\* still shown as in progress.
Shown ==
  [j \in Job |-> IF row[j] = "lapsed" THEN "in_progress" ELSE row[j]]
Execution == INSTANCE JobExecution
               WITH status <- Shown, runs <- launches, result <- exit
ExecutionSpec == Execution!Spec

\* Why the properties above hold.  A job that was not begun has no trace of an
\* execution; the journal names the job that the worker is at, so that a
\* crash at any moment leaves what the recovery needs; the batch and the
\* current job are jobs that were handed out; and whoever is about to report
\* a success, the loop or a late request, has seen the execution end well.
Fresh(j) ==
  /\ launches[j] = 0 /\ container[j] = "none" /\ exit[j] = "unknown"

Unclaimed(j) == row[j] \in {"none", "pending"}

BatchInv ==
  /\ \A j \in batch : Fresh(j) /\ ~Unclaimed(j)
  /\ \A j \in Job : Unclaimed(j) => Fresh(j)

CurrentInv ==
  Busy => /\ cur \in Job /\ cur \notin batch /\ ~Unclaimed(cur)
          /\ journal = cur
          /\ pc = "starting" => Fresh(cur)
          /\ pc = "created" => container[cur] = "created"

ExecutionInv ==
  \A j \in Job :
    /\ launches[j] <= 1
    /\ container[j] = "running" => launches[j] = 1 /\ exit[j] = "unknown"
    /\ container[j] \in {"created", "starting"} =>
         launches[j] = 0 /\ exit[j] = "unknown"
    /\ row[j] = "succeeded" => EndedWell(j)

ReportInv ==
  /\ pc = "report" /\ outcome = "succeeded" => EndedWell(cur)
  /\ pc = "report" /\ outcome = "canceled" =>
       row[cur] = "canceled" \/ exit[cur] = "interrupted"
  /\ \A m \in late : m.outcome = "succeeded" => EndedWell(m.job)

AgentInv == BatchInv /\ CurrentInv /\ ExecutionInv /\ ReportInv

\* Whatever fails, a runtime container that has ended is removed, also when the
\* worker that waited for it died, lost sight of it, or was refused its removal.
EndedContainersAreRemoved ==
  \A j \in Job : container[j] = "exited" ~> container[j] = "none"

\* Every job that was handed out ends, also when its batch was dropped.
EveryClaimEnds ==
  \A j \in Job : row[j] = "in_progress" ~> row[j] \in Outcome \union {"canceled"}

\* The journal is "for the one job a worker executes at a time".
OneJobAtATime == Cardinality({j \in Job : container[j] = "running"}) <= 1
=============================================================================
