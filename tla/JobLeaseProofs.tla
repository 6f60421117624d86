--------------------------- MODULE JobLeaseProofs ---------------------------
(***************************************************************************)
(* Proofs about JobLease for every set of jobs, workers and threads and    *)
(* every lease duration.                                                   *)
(***************************************************************************)
EXTENDS JobLease, TLAPS

-----------------------------------------------------------------------------
(* Types.                                                                  *)

\* The values that the operators below write into a row.
LEMMA Constants ==
  /\ {"pending", "in_progress", "failed", "canceled"} \subseteq Status
  /\ Completed \subseteq Status
  /\ "none" \notin Status
  /\ NoToken \in Nat
  /\ NoWorker \in Worker \union {NoWorker}
  /\ NoExpiry \in NoExpiry .. LeaseDuration
  /\ LeaseDuration \in NoExpiry .. LeaseDuration
  /\ 0 \in 0 .. MaxSeq
  BY LeaseAssumption
  DEF Status, Active, Terminal, Completed, NoToken, NoExpiry

\* A row is in the table if and only if its status is one of JobStatus.
LEMMA PresentRow ==
  ASSUME NEW row \in JobRecord \union {NoJob}
  PROVE  /\ row \in JobRecord <=> row # NoJob
         /\ row \in JobRecord <=> row.status \in Status
  BY Constants DEF JobRecord, NoJob

LEMMA NewJobType == ASSUME NEW w \in Worker PROVE NewJob(w) \in JobRecord
  BY Constants DEF NewJob, JobRecord

LEMMA ReconciledType ==
  ASSUME NEW row \in JobRecord \union {NoJob}
  PROVE  Reconciled(row) \in JobRecord \union {NoJob}
<1>1. CASE row = NoJob
  BY <1>1 DEF NoJob, Reconciled, Expired
<1>2. CASE row \in JobRecord
  BY <1>2, Constants DEF Reconciled, JobRecord
<1>3. QED
  BY <1>1, <1>2

LEMMA ClaimedType ==
  ASSUME NEW row \in JobRecord, NEW w \in Worker, NEW k \in Nat
  PROVE  Claimed(row, w, k) \in JobRecord
  BY Constants DEF Claimed, JobRecord

LEMMA ExtendedType ==
  ASSUME NEW row \in JobRecord PROVE Extended(row) \in JobRecord
  BY Constants DEF Extended, JobRecord

LEMMA OlderType ==
  ASSUME NEW row \in JobRecord \union {NoJob}
  PROVE  /\ Older(row) \in JobRecord \union {NoJob}
         /\ row \in JobRecord => Older(row) \in JobRecord
<1>1. CASE row = NoJob
  BY <1>1, PresentRow DEF Older
<1>2. CASE row \in JobRecord
  <2>1. Countdown(row.ttl) \in NoExpiry .. LeaseDuration
    BY <1>2, LeaseAssumption DEF JobRecord, Countdown, NoExpiry
  <2>2. QED
    BY <1>2, <2>1, PresentRow DEF JobRecord, Older
<1>3. QED
  BY <1>1, <1>2

\* Expiring overdue leases keeps the table a table, and so does saving a
\* record.
LEMMA ReconcileType ==
  ASSUME TypeOK, Reconcile
  PROVE  jobs' \in [Job -> JobRecord \union {NoJob}]
  BY ReconciledType DEF TypeOK, Reconcile

LEMMA SaveType ==
  ASSUME TypeOK, NEW j \in Job, NEW row \in JobRecord, Save(j, row)
  PROVE  jobs' \in [Job -> JobRecord \union {NoJob}]
  BY DEF TypeOK, Save

\* What is known of a thread from the call it is in.
LEMMA HandlerFields ==
  ASSUME TypeOK, NEW r \in Request
  PROVE  /\ req[r] # Idle => req[r].job \in Job
         /\ HoldsSnapshot(r) => req[r].snap \in JobRecord
         /\ req[r].op \in {"renew", "progress", "progressUpdate"} =>
              /\ req[r].worker \in Worker
              /\ req[r].token \in Nat
         /\ req[r].op \in {"progress", "progressUpdate"} =>
              req[r].n \in 1 .. MaxSeq
         /\ req[r].op = "status" => req[r].outcome \in Completed
         /\ req[r].op # "idle" => req[r] # Idle
  BY DEF TypeOK, Handler, Idle, HoldsSnapshot, SnapshotOp

\* A held lease is on a row of the table.
LEMMA HeldRow ==
  ASSUME TypeOK, NEW j \in Job, NEW w, NEW t, HoldsLease(jobs[j], w, t)
  PROVE  jobs[j] \in JobRecord
  BY PresentRow, Constants DEF TypeOK, HoldsLease

\* A handler keeps a handler when the record it holds grows older.
LEMMA OlderHandler ==
  ASSUME TypeOK, NEW r \in Request, HoldsSnapshot(r)
  PROVE  [req[r] EXCEPT !.snap = Older(@)] \in Handler
<1>1. req[r].snap \in JobRecord /\ Older(req[r].snap) \in JobRecord
  BY HandlerFields, OlderType
<1>2. QED
  BY <1>1 DEF TypeOK, Handler, Idle, HoldsSnapshot, SnapshotOp

LEMMA InitTypeOK == Init => TypeOK
  BY LeaseAssumption DEF Init, TypeOK, Handler

LEMMA FinishType == ASSUME TypeOK, NEW r \in Request, Finish(r)
                    PROVE  req' \in [Request -> Handler]
  BY DEF TypeOK, Finish, Handler

LEMMA BeginType ==
  ASSUME TypeOK, NEW r \in Request, NEW h \in Handler, Begin(r, h)
  PROVE  req' \in [Request -> Handler]
  BY DEF TypeOK, Begin

\* Every step keeps the types: one step of the proof per action.
LEMMA NextTypeOK == TypeOK /\ [Next]_vars => TypeOK'
<1> SUFFICES ASSUME TypeOK, [Next]_vars PROVE TypeOK'
  OBVIOUS
<1> USE DEF TypeOK
<1>1. ASSUME NEW r \in Request, NEW j \in Job, NEW w \in Worker,
             Dispatch(r, j, w)
      PROVE  TypeOK'
  BY <1>1, NewJobType, SaveType DEF Dispatch
<1>2. ASSUME NEW r \in Request, ListJobs(r)
      PROVE  TypeOK'
  BY <1>2, ReconcileType DEF ListJobs
<1>3. ASSUME NEW r \in Request, NEW w \in Worker, FetchJobs(r, w)
      PROVE  TypeOK'
  <2>1. ASSUME NEW j \in Job, Claimable(j, w)
        PROVE  Claimed(jobs[j], w, grants[j] + 1) \in JobRecord
    <3>1. jobs[j] \in JobRecord
      BY <2>1, PresentRow, Constants DEF Claimable
    <3>2. QED
      BY <3>1, ClaimedType
  <2>2. jobs' \in [Job -> JobRecord \union {NoJob}]
    BY <1>3, <2>1, ReconciledType DEF FetchJobs
  <2>3. grants' \in [Job -> Nat] /\ horizon' \in [Job -> 0 .. LeaseDuration]
    BY <1>3, LeaseAssumption DEF FetchJobs
  <2>4. QED
    BY <1>3, <2>2, <2>3 DEF FetchJobs
<1>4. ASSUME NEW r \in Request, NEW w \in Worker, NEW j \in Job,
             NEW t \in 1 .. grants[j], WorkerRequest(r, w, j, t)
      PROVE  TypeOK'
  <2>1. CASE RenewRead(r, w, j, t)
    BY <2>1, BeginType DEF RenewRead, Handler
  <2>2. CASE DiagnosticRead(r, w, j, t)
    BY <2>2, BeginType, HeldRow DEF DiagnosticRead, Handler
  <2>3. CASE DiagnosticExpired(r, w, j, t)
    BY <2>3, ReconcileType DEF DiagnosticExpired
  <2>4. ASSUME NEW n \in 1 .. MaxSeq, ProgressRead(r, w, j, t, n)
        PROVE  TypeOK'
    <3>1. jobs[j] \in JobRecord
      BY <2>4, HeldRow DEF ProgressRead
    <3>2. t \in Nat
      BY <1>4
    <3>3. [op |-> "progress", job |-> j, worker |-> w, token |-> t,
           n |-> n, snap |-> jobs[j]] \in Handler
      BY <3>1, <3>2 DEF Handler
    <3>4. [op |-> "progressUpdate", job |-> j, worker |-> w, token |-> t,
           n |-> n] \in Handler
      BY <3>2 DEF Handler
    <3>5. QED
      BY <2>4, <3>3, <3>4, BeginType DEF ProgressRead
  <2>5. ASSUME NEW outcome \in Completed, StatusRead(r, w, j, t, outcome)
        PROVE  TypeOK'
    BY <2>5, BeginType, HeldRow DEF StatusRead, Handler
  <2>6. QED
    BY <1>4, <2>1, <2>2, <2>3, <2>4, <2>5 DEF WorkerRequest
<1>5. ASSUME NEW r \in Request, NEW j \in Job, CancelReconcile(r, j)
      PROVE  TypeOK'
  BY <1>5, ReconcileType, BeginType DEF CancelReconcile, Handler
<1>6. ASSUME NEW r \in Request, HandlerStep(r)
      PROVE  TypeOK'
  <2>1. CASE RenewWrite(r)
    <3>1. req[r].job \in Job /\ jobs[req[r].job] \in JobRecord
      BY <2>1, HandlerFields, HeldRow DEF RenewWrite
    <3>2. jobs' \in [Job -> JobRecord \union {NoJob}]
      BY <2>1, <3>1, ExtendedType, SaveType DEF RenewWrite
    <3>3. horizon' \in [Job -> 0 .. LeaseDuration]
      BY <2>1, <3>1, LeaseAssumption DEF RenewWrite
    <3>4. QED
      BY <2>1, <3>2, <3>3, FinishType DEF RenewWrite
  <2>2. CASE RenewLost(r)
    BY <2>2, ReconcileType, FinishType DEF RenewLost
  <2>3. CASE DiagnosticWrite(r)
    BY <2>3, HandlerFields, SaveType, FinishType
    DEF DiagnosticWrite, HoldsSnapshot, SnapshotOp
  <2>4. CASE ProgressWrite(r)
    <3>1. jobs' \in [Job -> JobRecord \union {NoJob}]
      BY <2>4, HandlerFields, SaveType
      DEF ProgressWrite, HoldsSnapshot, SnapshotOp
    <3>2. req' \in [Request -> Handler]
      BY <2>4, HandlerFields DEF ProgressWrite, Handler
    <3>3. QED
      BY <2>4, <3>1, <3>2 DEF ProgressWrite
  <2>5. CASE ProgressUpdate(r)
    <3>1. jobs' \in [Job -> JobRecord \union {NoJob}]
      <4>1. CASE UNCHANGED jobs
        BY <4>1
      <4>2. CASE /\ HoldsLease(jobs[req[r].job], req[r].worker, req[r].token)
                 /\ Save(req[r].job,
                         [jobs[req[r].job] EXCEPT !.seq = req[r].n])
        <5>1. /\ req[r].job \in Job /\ req[r].n \in 0 .. MaxSeq
              /\ jobs[req[r].job] \in JobRecord
          BY <2>5, <4>2, HandlerFields, HeldRow, LeaseAssumption
          DEF ProgressUpdate
        <5>2. [jobs[req[r].job] EXCEPT !.seq = req[r].n] \in JobRecord
          BY <5>1 DEF JobRecord
        <5>3. QED
          BY <4>2, <5>1, <5>2, SaveType
      <4>3. QED
        BY <2>5, <4>1, <4>2 DEF ProgressUpdate
    <3>2. QED
      BY <2>5, <3>1, FinishType DEF ProgressUpdate
  <2>6. CASE StatusWrite(r)
    <3>1. /\ req[r].job \in Job /\ req[r].snap \in JobRecord
          /\ req[r].outcome \in Status
      BY <2>6, HandlerFields, Constants
      DEF StatusWrite, HoldsSnapshot, SnapshotOp
    <3>2. [req[r].snap EXCEPT !.status = req[r].outcome, !.seq = 0]
            \in JobRecord
      BY <3>1, Constants DEF JobRecord
    <3>3. QED
      BY <2>6, <3>1, <3>2, SaveType, FinishType DEF StatusWrite
  <2>7. CASE CancelRead(r)
    <3>1. CASE Finish(r)
      BY <2>7, <3>1, FinishType DEF CancelRead
    <3>2. CASE /\ jobs[req[r].job].status \in Active
               /\ req' = [req EXCEPT ![r] =
                    [op |-> "cancel", job |-> req[r].job,
                     snap |-> jobs[req[r].job]]]
      <4>1. req[r].job \in Job /\ jobs[req[r].job] \in JobRecord
        BY <2>7, <3>2, HandlerFields, PresentRow DEF CancelRead, Status
      <4>2. QED
        BY <2>7, <3>2, <4>1 DEF CancelRead, Handler
    <3>3. QED
      BY <2>7, <3>1, <3>2 DEF CancelRead
  <2>8. CASE CancelWrite(r)
    <3>1. req[r].job \in Job /\ req[r].snap \in JobRecord
      BY <2>8, HandlerFields DEF CancelWrite, HoldsSnapshot, SnapshotOp
    <3>2. [req[r].snap EXCEPT !.status = "canceled"] \in JobRecord
      BY <3>1, Constants DEF JobRecord
    <3>3. QED
      BY <2>8, <3>1, <3>2, SaveType, FinishType DEF CancelWrite
  <2>9. QED
    BY <1>6, <2>1, <2>2, <2>3, <2>4, <2>5, <2>6, <2>7, <2>8 DEF HandlerStep
<1>7. CASE Tick
  <2>1. jobs' \in [Job -> JobRecord \union {NoJob}]
    BY <1>7, OlderType DEF Tick
  <2>2. req' \in [Request -> Handler]
    BY <1>7, OlderHandler DEF Tick
  <2>3. horizon' \in [Job -> 0 .. LeaseDuration]
    BY <1>7, LeaseAssumption DEF Tick, Countdown
  <2>4. QED
    BY <1>7, <2>1, <2>2, <2>3 DEF Tick
<1>8. CASE Restart
  BY <1>8 DEF Restart, Handler
<1>9. CASE UNCHANGED vars
  BY <1>9 DEF vars
<1>10. QED
  BY <1>1, <1>2, <1>3, <1>4, <1>5, <1>6, <1>7, <1>8, <1>9 DEF Next

\* Every variable keeps its type in every execution.
THEOREM TypeCorrect == Spec => []TypeOK
  BY InitTypeOK, NextTypeOK, PTL DEF Spec

-----------------------------------------------------------------------------
(* Safety.                                                                 *)

\* A well-leased row stays so when expiry or time acts on it, and when more
\* leases are granted or the horizon moves away.
LEMMA WellMonotone ==
  ASSUME NEW row \in JobRecord, NEW k \in Nat, NEW h \in Nat,
         NEW l \in Nat, NEW z \in Nat, k <= l, h <= z, WellLeased(row, k, h)
  PROVE  WellLeased(row, l, z)
  BY DEF WellLeased, JobRecord, NoExpiry

LEMMA ReconciledWell ==
  ASSUME NEW row \in JobRecord, NEW k \in Nat, NEW h \in Nat,
         WellLeased(row, k, h)
  PROVE  WellLeased(Reconciled(row), k, h)
<1>1. CASE Expired(row)
  <2>1. /\ Reconciled(row).status = "failed"
        /\ Reconciled(row).owner = NoWorker
        /\ Reconciled(row).ttl = NoExpiry
    BY <1>1 DEF Reconciled, JobRecord
  <2>2. QED
    BY <2>1 DEF WellLeased, NoExpiry
<1>2. CASE ~Expired(row)
  BY <1>2 DEF Reconciled
<1>3. QED
  BY <1>1, <1>2

LEMMA OlderWell ==
  ASSUME NEW row \in JobRecord, NEW k \in Nat, NEW h \in Nat,
         WellLeased(row, k, h)
  PROVE  /\ WellLeased(Older(row), k, Countdown(h))
         /\ Older(row).status = row.status
<1>1. Older(row) = [row EXCEPT !.ttl = Countdown(row.ttl)]
  BY PresentRow DEF Older
<1>2. /\ Older(row).status = row.status
      /\ Older(row).owner = row.owner
      /\ Older(row).worker = row.worker
      /\ Older(row).token = row.token
      /\ Older(row).ttl = Countdown(row.ttl)
  BY <1>1 DEF JobRecord
<1>3. /\ Countdown(row.ttl) <= Countdown(h)
      /\ row.ttl # NoExpiry => Countdown(row.ttl) # NoExpiry
  BY DEF WellLeased, JobRecord, Countdown, NoExpiry
<1>4. QED
  BY <1>2, <1>3 DEF WellLeased

\* Expiring overdue leases keeps what the invariant says of rows.
LEMMA ReconcileLeaseInv ==
  ASSUME TypeOK, RowsInv, GrantsInv, Reconcile, UNCHANGED <<grants, horizon>>
  PROVE  RowsInv' /\ GrantsInv'
<1> SUFFICES ASSUME NEW j \in Job
             PROVE  /\ jobs'[j] # NoJob =>
                          WellLeased(jobs'[j], grants[j], horizon[j])
                    /\ jobs'[j].status \in {"none", "pending"} =>
                          grants[j] = 0
                    /\ jobs'[j].status \in Completed => grants[j] > 0
  BY DEF RowsInv, GrantsInv
<1>1. jobs'[j] = Reconciled(jobs[j])
  BY DEF Reconcile
<1>2. CASE jobs[j] = NoJob
  BY <1>1, <1>2 DEF Reconciled, Expired, NoJob, GrantsInv, Completed
<1>3. CASE jobs[j] \in JobRecord
  <2>1. WellLeased(jobs[j], grants[j], horizon[j])
    BY <1>3, PresentRow DEF RowsInv, TypeOK
  <2>2. WellLeased(jobs'[j], grants[j], horizon[j])
    BY <1>1, <1>3, <2>1, ReconciledWell DEF TypeOK
  <2>3. CASE Expired(jobs[j])
    <3>1. grants[j] > 0
      BY <2>1, <2>3 DEF WellLeased, Expired, TypeOK
    <3>2. jobs'[j].status = "failed"
      BY <1>1, <1>3, <2>3 DEF Reconciled, JobRecord
    <3>3. QED
      BY <2>2, <3>1, <3>2
  <2>4. CASE ~Expired(jobs[j])
    BY <1>1, <2>2, <2>4 DEF Reconciled, GrantsInv
  <2>5. QED
    BY <2>3, <2>4
<1>4. QED
  BY <1>2, <1>3 DEF TypeOK

\* So does saving a well-leased record that is in progress, canceled, or the
\* outcome of a job that was granted.
LEMMA SaveLeaseInv ==
  ASSUME TypeOK, RowsInv, GrantsInv, UNCHANGED <<grants, horizon>>,
         NEW j \in Job, NEW row \in JobRecord, Save(j, row),
         WellLeased(row, grants[j], horizon[j]),
         row.status \in {"in_progress", "canceled"} \union Completed,
         row.status \in Completed => grants[j] > 0
  PROVE  RowsInv' /\ GrantsInv'
<1>1. row.status \notin {"none", "pending"}
  BY DEF Completed
<1>2. \A i \in Job : jobs'[i] = IF i = j THEN row ELSE jobs[i]
  BY DEF Save, TypeOK
<1>3. RowsInv'
  BY <1>2 DEF RowsInv
<1>4. GrantsInv'
  BY <1>1, <1>2 DEF GrantsInv
<1>5. QED
  BY <1>3, <1>4

\* The records that handlers hold stay good when one handler moves on and
\* keeps a good record or none.
LEMMA SnapshotsFrame ==
  ASSUME TypeOK, SnapshotsInv, UNCHANGED <<grants, horizon>>,
         NEW r \in Request, NEW h, req' = [req EXCEPT ![r] = h],
         h.op \in SnapshotOp => GoodSnapshot(h, grants, horizon)
  PROVE  SnapshotsInv'
  BY DEF SnapshotsInv, HoldsSnapshot, TypeOK

LEMMA FinishFrame ==
  ASSUME TypeOK, SnapshotsInv, UNCHANGED <<grants, horizon>>,
         NEW r \in Request, Finish(r)
  PROVE  SnapshotsInv'
<1>1. Idle.op \notin SnapshotOp
  BY DEF Idle, SnapshotOp
<1>2. QED
  BY <1>1, SnapshotsFrame DEF Finish

\* A row on which a lease is held makes a good record.
LEMMA HeldIsWell ==
  ASSUME TypeOK, RowsInv, NEW j \in Job, NEW w, NEW t,
         HoldsLease(jobs[j], w, t)
  PROVE  WellLeased(jobs[j], grants[j], horizon[j])
  BY HeldRow, PresentRow DEF RowsInv, TypeOK

LEMMA InitLeaseInv == Init => LeaseInv
  BY DEF Init, LeaseInv, RowsInv, SnapshotsInv, GrantsInv, NoJob, Idle,
         HoldsSnapshot, SnapshotOp, Completed

LEMMA NextLeaseInv == TypeOK /\ LeaseInv /\ [Next]_vars => LeaseInv'
<1> SUFFICES ASSUME TypeOK, RowsInv, SnapshotsInv, GrantsInv, [Next]_vars
             PROVE  RowsInv' /\ SnapshotsInv' /\ GrantsInv'
  BY DEF LeaseInv
<1>1. ASSUME NEW r \in Request, NEW j \in Job, NEW w \in Worker,
             Dispatch(r, j, w)
      PROVE  RowsInv' /\ SnapshotsInv' /\ GrantsInv'
  <2>1. WellLeased(NewJob(w), grants[j], horizon[j])
    BY DEF WellLeased, NewJob, TypeOK, NoExpiry
  <2>2. grants[j] = 0
    BY <1>1 DEF Dispatch, GrantsInv, NoJob
  <2>3. \A i \in Job : jobs'[i] = IF i = j THEN NewJob(w) ELSE jobs[i]
    BY <1>1 DEF Dispatch, Save, TypeOK
  <2>4. RowsInv' /\ GrantsInv'
    BY <1>1, <2>1, <2>2, <2>3
    DEF Dispatch, RowsInv, GrantsInv, NewJob, Completed
  <2>5. SnapshotsInv'
    BY <1>1 DEF Dispatch, SnapshotsInv, HoldsSnapshot
  <2>6. QED
    BY <2>4, <2>5
<1>2. ASSUME NEW r \in Request, ListJobs(r)
      PROVE  RowsInv' /\ SnapshotsInv' /\ GrantsInv'
  <2>1. SnapshotsInv'
    BY <1>2 DEF ListJobs, SnapshotsInv, HoldsSnapshot
  <2>2. QED
    BY <1>2, <2>1, ReconcileLeaseInv DEF ListJobs
<1>3. ASSUME NEW r \in Request, NEW w \in Worker, FetchJobs(r, w)
      PROVE  RowsInv' /\ SnapshotsInv' /\ GrantsInv'
  <2>1. \A j \in Job : /\ grants[j] \in Nat /\ grants'[j] \in Nat
                        /\ horizon[j] \in Nat /\ horizon'[j] \in Nat
                        /\ grants[j] <= grants'[j]
                        /\ horizon[j] <= horizon'[j]
    BY <1>3, LeaseAssumption DEF FetchJobs, TypeOK
  <2>2. ASSUME NEW j \in Job, Claimable(j, w)
        PROVE  /\ WellLeased(jobs'[j], grants'[j], horizon'[j])
               /\ jobs'[j].status = "in_progress"
               /\ grants'[j] = 1
    <3>1. jobs[j] \in JobRecord /\ jobs[j].worker = w
      BY <2>2, PresentRow, Constants DEF Claimable, TypeOK
    <3>2. grants[j] = 0
      BY <2>2 DEF Claimable, GrantsInv
    <3>3. /\ jobs'[j] = Claimed(jobs[j], w, 1)
          /\ grants'[j] = 1 /\ horizon'[j] = LeaseDuration
      BY <1>3, <2>2, <3>2 DEF FetchJobs
    <3>4. /\ jobs'[j].status = "in_progress" /\ jobs'[j].owner = w
          /\ jobs'[j].worker = w /\ jobs'[j].token = 1
          /\ jobs'[j].ttl = LeaseDuration
      BY <3>1, <3>3 DEF Claimed, JobRecord
    <3>5. QED
      BY <3>3, <3>4, LeaseAssumption DEF WellLeased, NoExpiry
  <2>3. ASSUME NEW j \in Job, ~Claimable(j, w)
        PROVE  /\ jobs'[j] = Reconciled(jobs[j])
               /\ grants'[j] = grants[j] /\ horizon'[j] = horizon[j]
    BY <1>3, <2>3 DEF FetchJobs
  <2>4. ASSUME NEW j \in Job, ~Claimable(j, w)
        PROVE  /\ jobs'[j] # NoJob =>
                    WellLeased(jobs'[j], grants'[j], horizon'[j])
               /\ jobs'[j].status \in {"none", "pending"} => grants'[j] = 0
               /\ jobs'[j].status \in Completed => grants'[j] > 0
               /\ grants'[j] <= 1
    <3>1. CASE Expired(jobs[j])
      <4>1. /\ jobs[j] \in JobRecord
            /\ WellLeased(jobs[j], grants[j], horizon[j])
        BY <3>1, PresentRow, Constants DEF Expired, TypeOK, RowsInv
      <4>2. grants[j] > 0
        BY <3>1, <4>1 DEF WellLeased, Expired, TypeOK
      <4>3. jobs'[j].status = "failed"
        BY <2>3, <2>4, <3>1, <4>1 DEF Reconciled, JobRecord
      <4>4. QED
        BY <2>1, <2>3, <2>4, <4>1, <4>2, <4>3, ReconciledWell DEF GrantsInv
    <3>2. CASE ~Expired(jobs[j])
      BY <2>3, <2>4, <3>2 DEF Reconciled, RowsInv, GrantsInv
    <3>3. QED
      BY <3>1, <3>2
  <2>5. RowsInv' /\ GrantsInv'
    BY <2>2, <2>4 DEF RowsInv, GrantsInv, Completed
  <2>6. SnapshotsInv'
    <3> SUFFICES ASSUME NEW q \in Request, HoldsSnapshot(q)
                 PROVE  GoodSnapshot(req[q], grants', horizon')
      BY <1>3 DEF FetchJobs, SnapshotsInv, HoldsSnapshot
    <3>1. req[q].job \in Job /\ req[q].snap \in JobRecord
      BY HandlerFields DEF HoldsSnapshot, SnapshotOp
    <3>2. QED
      BY <2>1, <3>1, WellMonotone DEF SnapshotsInv, GoodSnapshot
  <2>7. QED
    BY <2>5, <2>6
<1>4. ASSUME NEW r \in Request, NEW w \in Worker, NEW j \in Job,
             NEW t \in 1 .. grants[j], WorkerRequest(r, w, j, t)
      PROVE  RowsInv' /\ SnapshotsInv' /\ GrantsInv'
  <2>1. ASSUME NEW h, HoldsLease(jobs[j], w, t), Begin(r, h),
               h.op \in SnapshotOp => h.snap = jobs[j] /\ h.job = j,
               UNCHANGED <<jobs, grants, horizon>>
        PROVE  RowsInv' /\ SnapshotsInv' /\ GrantsInv'
    <3>1. h.op \in SnapshotOp => GoodSnapshot(h, grants, horizon)
      BY <2>1, HeldIsWell DEF GoodSnapshot, HoldsLease, Active
    <3>2. SnapshotsInv'
      BY <2>1, <3>1, SnapshotsFrame DEF Begin
    <3>3. QED
      BY <2>1, <3>2 DEF RowsInv, GrantsInv
  <2>2. CASE RenewRead(r, w, j, t)
    BY <2>1, <2>2 DEF RenewRead, SnapshotOp
  <2>3. CASE DiagnosticRead(r, w, j, t)
    BY <2>1, <2>3 DEF DiagnosticRead
  <2>4. CASE DiagnosticExpired(r, w, j, t)
    <3>1. SnapshotsInv'
      BY <2>4 DEF DiagnosticExpired, SnapshotsInv, HoldsSnapshot
    <3>2. QED
      BY <2>4, <3>1, ReconcileLeaseInv DEF DiagnosticExpired
  <2>5. ASSUME NEW n \in 1 .. MaxSeq, ProgressRead(r, w, j, t, n)
        PROVE  RowsInv' /\ SnapshotsInv' /\ GrantsInv'
    BY <2>1, <2>5 DEF ProgressRead, SnapshotOp
  <2>6. ASSUME NEW outcome \in Completed, StatusRead(r, w, j, t, outcome)
        PROVE  RowsInv' /\ SnapshotsInv' /\ GrantsInv'
    BY <2>1, <2>6 DEF StatusRead
  <2>7. QED
    BY <1>4, <2>2, <2>3, <2>4, <2>5, <2>6 DEF WorkerRequest
<1>5. ASSUME NEW r \in Request, NEW j \in Job, CancelReconcile(r, j)
      PROVE  RowsInv' /\ SnapshotsInv' /\ GrantsInv'
  <2>1. SnapshotsInv'
    BY <1>5, SnapshotsFrame DEF CancelReconcile, Begin, SnapshotOp
  <2>2. QED
    BY <1>5, <2>1, ReconcileLeaseInv DEF CancelReconcile
<1>6. ASSUME NEW r \in Request, HandlerStep(r)
      PROVE  RowsInv' /\ SnapshotsInv' /\ GrantsInv'
  <2>0. HoldsSnapshot(r) =>
          /\ req[r].job \in Job /\ req[r].snap \in JobRecord
          /\ GoodSnapshot(req[r], grants, horizon)
    BY HandlerFields DEF SnapshotsInv, HoldsSnapshot, SnapshotOp
  <2>1. CASE RenewWrite(r)
    <3> DEFINE j == req[r].job
    <3>1. j \in Job /\ jobs[j] \in JobRecord
      BY <2>1, HandlerFields, HeldRow DEF RenewWrite
    <3>2. WellLeased(jobs[j], grants[j], horizon[j])
      BY <2>1, <3>1, HeldIsWell DEF RenewWrite
    <3>3. /\ jobs'[j].status = "in_progress"
          /\ jobs'[j].owner = jobs[j].owner /\ jobs'[j].worker = jobs[j].worker
          /\ jobs'[j].token = jobs[j].token /\ jobs'[j].ttl = LeaseDuration
      BY <2>1, <3>1 DEF RenewWrite, Save, Extended, JobRecord, TypeOK, HoldsLease
    <3>4. horizon'[j] = LeaseDuration /\ grants' = grants
      BY <2>1, <3>1 DEF RenewWrite, TypeOK
    <3>5. WellLeased(jobs'[j], grants'[j], horizon'[j])
      BY <2>1, <3>2, <3>3, <3>4, LeaseAssumption
      DEF WellLeased, NoExpiry, RenewWrite, HoldsLease
    <3>6. \A i \in Job \ {j} : jobs'[i] = jobs[i] /\ horizon'[i] = horizon[i]
      BY <2>1, <3>1 DEF RenewWrite, Save, TypeOK
    <3>7. RowsInv'
      BY <3>4, <3>5, <3>6 DEF RowsInv
    <3>8. GrantsInv'
      <4>1. jobs[j].status = "in_progress"
        BY <2>1 DEF RenewWrite, HoldsLease
      <4>2. ASSUME NEW i \in Job PROVE jobs'[i].status = jobs[i].status
        BY <3>3, <3>6, <4>1
      <4>3. QED
        BY <3>4, <4>2 DEF GrantsInv
    <3>9. SnapshotsInv'
      <4> SUFFICES ASSUME NEW q \in Request, HoldsSnapshot(q)'
                   PROVE  GoodSnapshot(req'[q], grants', horizon')
        BY DEF SnapshotsInv
      <4>1. req'[q] = req[q] /\ HoldsSnapshot(q)
        BY <2>1 DEF RenewWrite, Finish, HoldsSnapshot, SnapshotOp, Idle, TypeOK
      <4>2. req[q].job \in Job /\ req[q].snap \in JobRecord
        BY <4>1, HandlerFields DEF HoldsSnapshot, SnapshotOp
      <4>3. horizon[req[q].job] <= horizon'[req[q].job]
        BY <3>4, <3>6, <4>2, LeaseAssumption DEF TypeOK
      <4>4. /\ grants[req[q].job] \in Nat /\ horizon[req[q].job] \in Nat
            /\ horizon'[req[q].job] \in Nat
        BY <3>4, <3>6, <4>2, LeaseAssumption DEF TypeOK
      <4>5. QED
        BY <3>4, <4>1, <4>2, <4>3, <4>4, WellMonotone
        DEF SnapshotsInv, GoodSnapshot
    <3>10. QED
      BY <3>7, <3>8, <3>9
  <2>2. CASE RenewLost(r)
    BY <2>2, ReconcileLeaseInv, FinishFrame DEF RenewLost
  <2>3. CASE DiagnosticWrite(r)
    <3>1. HoldsSnapshot(r) /\ req[r].op # "cancel"
      BY <2>3 DEF DiagnosticWrite, HoldsSnapshot, SnapshotOp
    <3>2. RowsInv' /\ GrantsInv'
      BY <2>0, <2>3, <3>1, SaveLeaseInv
      DEF DiagnosticWrite, GoodSnapshot, Completed
    <3>3. QED
      BY <2>3, <3>2, FinishFrame DEF DiagnosticWrite
  <2>4. CASE ProgressWrite(r)
    <3>1. HoldsSnapshot(r) /\ req[r].op # "cancel"
      BY <2>4 DEF ProgressWrite, HoldsSnapshot, SnapshotOp
    <3>2. RowsInv' /\ GrantsInv'
      BY <2>0, <2>4, <3>1, SaveLeaseInv
      DEF ProgressWrite, GoodSnapshot, Completed
    <3>3. QED
      BY <2>4, <3>2, SnapshotsFrame DEF ProgressWrite, SnapshotOp
  <2>5. CASE ProgressUpdate(r)
    <3>1. SnapshotsInv'
      BY <2>5, FinishFrame DEF ProgressUpdate
    <3>2. CASE UNCHANGED jobs
      BY <2>5, <3>1, <3>2 DEF ProgressUpdate, RowsInv, GrantsInv
    <3>3. CASE ~UNCHANGED jobs
      <4> DEFINE j == req[r].job
                 new == [jobs[j] EXCEPT !.seq = req[r].n]
      <4>1. HoldsLease(jobs[j], req[r].worker, req[r].token) /\ Save(j, new)
        BY <2>5, <3>3 DEF ProgressUpdate
      <4>2. /\ j \in Job /\ jobs[j] \in JobRecord
            /\ WellLeased(jobs[j], grants[j], horizon[j])
        BY <2>5, <4>1, HandlerFields, HeldRow, HeldIsWell DEF ProgressUpdate
      <4>3. req[r].n \in 0 .. MaxSeq
        BY <2>5, HandlerFields, LeaseAssumption DEF ProgressUpdate
      <4>4. /\ new \in JobRecord /\ new.status = "in_progress"
            /\ new.owner = jobs[j].owner /\ new.worker = jobs[j].worker
            /\ new.token = jobs[j].token /\ new.ttl = jobs[j].ttl
        BY <4>1, <4>2, <4>3 DEF JobRecord, HoldsLease
      <4>5. WellLeased(new, grants[j], horizon[j])
        BY <4>1, <4>2, <4>4 DEF WellLeased, HoldsLease
      <4>6. QED
        BY <2>5, <3>1, <4>1, <4>2, <4>4, <4>5, SaveLeaseInv
        DEF ProgressUpdate, Completed
    <3>4. QED
      BY <3>2, <3>3
  <2>6. CASE StatusWrite(r)
    <3> DEFINE j == req[r].job
               new == [req[r].snap EXCEPT !.status = req[r].outcome, !.seq = 0]
    <3>1. HoldsSnapshot(r) /\ req[r].op # "cancel"
      BY <2>6 DEF StatusWrite, HoldsSnapshot, SnapshotOp
    <3>2. req[r].outcome \in Completed
      BY <2>6, HandlerFields DEF StatusWrite
    <3>3. new \in JobRecord
      BY <2>0, <3>1, <3>2, Constants DEF JobRecord
    <3>4. /\ new.status = req[r].outcome
          /\ new.owner = req[r].snap.owner /\ new.worker = req[r].snap.worker
          /\ new.ttl = req[r].snap.ttl
      BY <2>0, <3>1 DEF JobRecord
    <3>5. WellLeased(new, grants[j], horizon[j]) /\ grants[j] > 0
      BY <2>0, <3>1, <3>2, <3>4
      DEF GoodSnapshot, WellLeased, Completed, TypeOK
    <3>6. RowsInv' /\ GrantsInv'
      BY <2>0, <2>6, <3>1, <3>2, <3>3, <3>4, <3>5, SaveLeaseInv
      DEF StatusWrite
    <3>7. QED
      BY <2>6, <3>6, FinishFrame DEF StatusWrite
  <2>7. CASE CancelRead(r)
    <3>1. RowsInv' /\ GrantsInv'
      BY <2>7 DEF CancelRead, RowsInv, GrantsInv
    <3>2. CASE Finish(r)
      BY <2>7, <3>1, <3>2, FinishFrame DEF CancelRead
    <3>3. CASE ~Finish(r)
      <4> DEFINE j == req[r].job
                 h == [op |-> "cancel", job |-> j, snap |-> jobs[j]]
      <4>1. jobs[j].status \in Active /\ req' = [req EXCEPT ![r] = h]
        BY <2>7, <3>3 DEF CancelRead
      <4>2. j \in Job /\ jobs[j] # NoJob
        BY <2>7, <4>1, HandlerFields DEF CancelRead, NoJob, Active
      <4>3. GoodSnapshot(h, grants, horizon)
        BY <4>1, <4>2 DEF GoodSnapshot, RowsInv
      <4>4. QED
        BY <2>7, <3>1, <4>1, <4>3, SnapshotsFrame DEF CancelRead
    <3>4. QED
      BY <3>2, <3>3
  <2>8. CASE CancelWrite(r)
    <3> DEFINE j == req[r].job
               new == [req[r].snap EXCEPT !.status = "canceled"]
    <3>1. HoldsSnapshot(r)
      BY <2>8 DEF CancelWrite, HoldsSnapshot, SnapshotOp
    <3>2. /\ new \in JobRecord /\ new.status = "canceled"
          /\ new.owner = req[r].snap.owner /\ new.worker = req[r].snap.worker
          /\ new.ttl = req[r].snap.ttl
      BY <2>0, <3>1, Constants DEF JobRecord
    <3>3. WellLeased(new, grants[j], horizon[j])
      BY <2>0, <3>1, <3>2 DEF GoodSnapshot, WellLeased
    <3>4. RowsInv' /\ GrantsInv'
      BY <2>0, <2>8, <3>1, <3>2, <3>3, SaveLeaseInv DEF CancelWrite, Completed
    <3>5. QED
      BY <2>8, <3>4, FinishFrame DEF CancelWrite
  <2>9. QED
    BY <1>6, <2>1, <2>2, <2>3, <2>4, <2>5, <2>6, <2>7, <2>8 DEF HandlerStep
<1>7. CASE Tick
  <2>1. ASSUME NEW j \in Job
        PROVE  /\ jobs'[j] # NoJob =>
                    WellLeased(jobs'[j], grants'[j], horizon'[j])
               /\ jobs'[j].status = jobs[j].status
    <3>1. /\ jobs'[j] = Older(jobs[j]) /\ grants' = grants
          /\ horizon'[j] = Countdown(horizon[j])
      BY <1>7 DEF Tick
    <3>2. CASE jobs[j] = NoJob
      BY <3>1, <3>2 DEF Older
    <3>3. CASE jobs[j] \in JobRecord
      BY <3>1, <3>3, PresentRow, OlderWell DEF RowsInv, TypeOK
    <3>4. QED
      BY <3>2, <3>3 DEF TypeOK
  <2>2. RowsInv' /\ GrantsInv'
    BY <1>7, <2>1 DEF Tick, RowsInv, GrantsInv
  <2>3. SnapshotsInv'
    <3> SUFFICES ASSUME NEW q \in Request, HoldsSnapshot(q)'
                 PROVE  GoodSnapshot(req'[q], grants', horizon')
      BY DEF SnapshotsInv
    <3>1. HoldsSnapshot(q) /\ req'[q] = [req[q] EXCEPT !.snap = Older(@)]
      <4>1. CASE HoldsSnapshot(q)
        BY <1>7, <4>1 DEF Tick
      <4>2. CASE ~HoldsSnapshot(q)
        BY <1>7, <4>2 DEF Tick, HoldsSnapshot
      <4>3. QED
        BY <4>1, <4>2
    <3>2. /\ req[q].job \in Job /\ req[q].snap \in JobRecord
          /\ GoodSnapshot(req[q], grants, horizon)
      BY <3>1, HandlerFields DEF HoldsSnapshot, SnapshotOp, SnapshotsInv
    <3>3. /\ req'[q].job = req[q].job /\ req'[q].op = req[q].op
          /\ req'[q].snap = Older(req[q].snap)
      BY <3>1 DEF TypeOK, Handler, Idle, HoldsSnapshot, SnapshotOp
    <3>4. /\ grants' = grants
          /\ horizon'[req[q].job] = Countdown(horizon[req[q].job])
      BY <1>7, <3>2 DEF Tick
    <3>5. QED
      BY <3>2, <3>3, <3>4, OlderWell DEF GoodSnapshot, TypeOK
  <2>4. QED
    BY <2>2, <2>3
<1>8. CASE Restart
  BY <1>8 DEF Restart, RowsInv, SnapshotsInv, GrantsInv, HoldsSnapshot,
     SnapshotOp, Idle
<1>9. CASE UNCHANGED vars
  BY <1>9 DEF vars, RowsInv, SnapshotsInv, GrantsInv, HoldsSnapshot
<1>10. QED
  BY <1>1, <1>2, <1>3, <1>4, <1>5, <1>6, <1>7, <1>8, <1>9 DEF Next

\* The strengthened invariant holds in every execution.
THEOREM LeaseInvariant == Spec => []LeaseInv
<1>1. Init => TypeOK /\ LeaseInv
  BY InitTypeOK, InitLeaseInv
<1>2. (TypeOK /\ LeaseInv) /\ [Next]_vars => (TypeOK /\ LeaseInv)'
  BY NextTypeOK, NextLeaseInv
<1>3. QED
  BY <1>1, <1>2, PTL DEF Spec

\* No lost update of save(job), no expiry and no restart makes a job
\* claimable again: claim_pending_for_worker hands it out at most once.
THEOREM AtMostOneGrant == Spec => []GrantedAtMostOnce
<1>1. LeaseInv => GrantedAtMostOnce
  BY DEF LeaseInv, GrantsInv, GrantedAtMostOnce
<1>2. QED
  BY <1>1, LeaseInvariant, PTL

\* A row in progress always carries the lease that the expiry query needs.
THEOREM RunningIsLeased == Spec => []RunningJobIsLeased
<1>1. TypeOK /\ LeaseInv => RunningJobIsLeased
  <2> SUFFICES ASSUME TypeOK, RowsInv, NEW j \in Job,
                      jobs[j].status = "in_progress"
               PROVE  /\ jobs[j].owner = jobs[j].worker
                      /\ jobs[j].token \in 1 .. grants[j]
                      /\ jobs[j].ttl # NoExpiry
    BY DEF LeaseInv, RunningJobIsLeased
  <2>1. jobs[j] # NoJob
    BY DEF NoJob
  <2>2. QED
    BY <2>1 DEF RowsInv, WellLeased
<1>2. QED
  BY <1>1, TypeCorrect, LeaseInvariant, PTL

\* No write makes a lease last longer than the latest claim or renewal did.
THEOREM LeaseWithinGrant == Spec => []NoLeaseOutlivesItsGrant
<1>1. LeaseInv => NoLeaseOutlivesItsGrant
  BY DEF LeaseInv, RowsInv, WellLeased, NoLeaseOutlivesItsGrant
<1>2. QED
  BY <1>1, LeaseInvariant, PTL

\* A job that succeeded or failed was handed to a worker before.
THEOREM OutcomeIsEarned == Spec => []OutcomeNeedsGrant
<1>1. LeaseInv => OutcomeNeedsGrant
  BY DEF LeaseInv, GrantsInv, OutcomeNeedsGrant
<1>2. QED
  BY <1>1, LeaseInvariant, PTL

\* The worker of a canceled job is always told so when it asks.
THEOREM CancellationIsSeen == Spec => []CancelReachesWorker
<1>1. LeaseInv => CancelReachesWorker
  <2> SUFFICES ASSUME RowsInv, NEW j \in Job, jobs[j].status = "canceled"
               PROVE  IsJobCancelled(jobs[j].worker, jobs[j])
    BY DEF LeaseInv, CancelReachesWorker
  <2>1. jobs[j] # NoJob
    BY DEF NoJob
  <2>2. QED
    BY <2>1 DEF RowsInv, WellLeased, IsJobCancelled
<1>2. QED
  BY <1>1, LeaseInvariant, PTL

-----------------------------------------------------------------------------
(* Handlers that do not overlap.  With a single thread a handler that is   *)
(* about to save still holds the row as it is in the table.                *)

Fresh == \A r \in Request : HoldsSnapshot(r) => req[r].snap = jobs[req[r].job]

LEMMA InitFresh == Init => Fresh
  BY DEF Init, Fresh, HoldsSnapshot, SnapshotOp, Idle

\* Idle threads hold no record.
LEMMA IdleIsFresh ==
  ASSUME NEW r, Request = {r}, TypeOK,
         (req[r] = Idle /\ UNCHANGED req) \/ Finish(r)
  PROVE  Fresh'
  BY DEF Fresh, HoldsSnapshot, SnapshotOp, Idle, Finish, TypeOK

LEMMA NextFresh ==
  ASSUME NEW r, Request = {r}, TypeOK, Fresh, [Next]_vars
  PROVE  Fresh'
<1>1. ASSUME NEW j \in Job, NEW w \in Worker, Dispatch(r, j, w)
      PROVE  Fresh'
  BY <1>1, IdleIsFresh DEF Dispatch
<1>2. CASE ListJobs(r)
  BY <1>2, IdleIsFresh DEF ListJobs
<1>3. ASSUME NEW w \in Worker, FetchJobs(r, w)
      PROVE  Fresh'
  BY <1>3, IdleIsFresh DEF FetchJobs
<1>4. ASSUME NEW w \in Worker, NEW j \in Job,
             NEW t \in 1 .. grants[j], WorkerRequest(r, w, j, t)
      PROVE  Fresh'
  <2>1. ASSUME NEW h, Begin(r, h), UNCHANGED jobs,
               h.op \in SnapshotOp => h.snap = jobs[j] /\ h.job = j
        PROVE  Fresh'
    BY <2>1 DEF Begin, Fresh, HoldsSnapshot, TypeOK
  <2>2. CASE RenewRead(r, w, j, t)
    BY <2>1, <2>2 DEF RenewRead, SnapshotOp
  <2>3. CASE DiagnosticRead(r, w, j, t)
    BY <2>1, <2>3 DEF DiagnosticRead
  <2>4. CASE DiagnosticExpired(r, w, j, t)
    BY <2>4, IdleIsFresh DEF DiagnosticExpired
  <2>5. ASSUME NEW n \in 1 .. MaxSeq, ProgressRead(r, w, j, t, n)
        PROVE  Fresh'
    BY <2>1, <2>5 DEF ProgressRead, SnapshotOp
  <2>6. ASSUME NEW outcome \in Completed, StatusRead(r, w, j, t, outcome)
        PROVE  Fresh'
    BY <2>1, <2>6 DEF StatusRead
  <2>7. QED
    BY <1>4, <2>2, <2>3, <2>4, <2>5, <2>6 DEF WorkerRequest
<1>5. ASSUME NEW j \in Job, CancelReconcile(r, j)
      PROVE  Fresh'
  BY <1>5 DEF CancelReconcile, Begin, Fresh, HoldsSnapshot, SnapshotOp, TypeOK
<1>6. CASE HandlerStep(r)
  <2>1. CASE Finish(r)
    BY <2>1, IdleIsFresh
  <2>2. CASE ProgressWrite(r)
    BY <2>2 DEF ProgressWrite, Fresh, HoldsSnapshot, SnapshotOp, TypeOK
  <2>3. CASE CancelRead(r) /\ ~Finish(r)
    BY <2>3 DEF CancelRead, Fresh, HoldsSnapshot, SnapshotOp, TypeOK
  <2>4. QED
    BY <1>6, <2>1, <2>2, <2>3
    DEF HandlerStep, RenewWrite, RenewLost, DiagnosticWrite, ProgressUpdate,
        StatusWrite, CancelWrite
<1>7. CASE Tick
  <2> SUFFICES ASSUME HoldsSnapshot(r)'
               PROVE  req'[r].snap = jobs'[req'[r].job]
    BY DEF Fresh
  <2>1. HoldsSnapshot(r) /\ req'[r] = [req[r] EXCEPT !.snap = Older(@)]
    <3>1. CASE HoldsSnapshot(r)
      BY <1>7, <3>1 DEF Tick
    <3>2. CASE ~HoldsSnapshot(r)
      BY <1>7, <3>2 DEF Tick, HoldsSnapshot
    <3>3. QED
      BY <3>1, <3>2
  <2>2. /\ req[r].job \in Job
        /\ req'[r].job = req[r].job
        /\ req'[r].snap = Older(req[r].snap)
    BY <2>1 DEF TypeOK, Handler, Idle, HoldsSnapshot, SnapshotOp
  <2>3. jobs'[req[r].job] = Older(jobs[req[r].job])
    BY <1>7, <2>2 DEF Tick
  <2>4. QED
    BY <2>1, <2>2, <2>3 DEF Fresh
<1>8. CASE Restart
  BY <1>8 DEF Restart, Fresh, HoldsSnapshot, SnapshotOp, Idle
<1>9. CASE UNCHANGED vars
  BY <1>9 DEF vars, Fresh, HoldsSnapshot
<1>10. QED
  BY <1>1, <1>2, <1>3, <1>4, <1>5, <1>6, <1>7, <1>8, <1>9 DEF Next

\* What a step that saves no old record does to one row: the status makes a
\* move of the lifecycle or stays, and while the job runs its progress does
\* not go back and its lease does not shrink.
RowStep(old, new) ==
  /\ old.status = new.status \/ <<old.status, new.status>> \in Lifecycle!Moves
  /\ old.status = "in_progress" /\ new.status = "in_progress" =>
       new.seq >= old.seq /\ new.ttl >= old.ttl

LEMMA SameRow == ASSUME NEW row \in JobRecord \union {NoJob}
                 PROVE  RowStep(row, row)
<1>1. row.status = "in_progress" => row.seq \in Int /\ row.ttl \in Int
  BY DEF JobRecord, NoJob, NoExpiry
<1>2. QED
  BY <1>1 DEF RowStep

LEMMA ReconciledStep == ASSUME NEW row \in JobRecord \union {NoJob}
                        PROVE  RowStep(row, Reconciled(row))
<1>1. CASE Expired(row)
  <2>1. row.status = "in_progress" /\ Reconciled(row).status = "failed"
    BY <1>1, PresentRow, Constants DEF Expired, Reconciled, JobRecord
  <2>2. QED
    BY <2>1 DEF RowStep, Lifecycle!Moves
<1>2. CASE ~Expired(row)
  BY <1>2, SameRow DEF Reconciled
<1>3. QED
  BY <1>1, <1>2

\* Saving the row that is in the table, up to a rewrite of one job.
LEMMA SaveStep ==
  ASSUME TypeOK, NEW j \in Job, NEW row, Save(j, row), RowStep(jobs[j], row)
  PROVE  \A i \in Job : RowStep(jobs[i], jobs'[i])
  BY SameRow DEF Save, TypeOK

\* A step of any thread, unless a stale record is saved with it.
LEMMA ThreadStep ==
  ASSUME TypeOK, LeaseInv, [Next]_vars
  PROVE  Tick \/ \A j \in Job : Overwritten(j) \/ RowStep(jobs[j], jobs'[j])
<1> USE DEF TypeOK
<1>0. Reconcile => \A j \in Job : RowStep(jobs[j], jobs'[j])
  BY ReconciledStep DEF Reconcile
<1>1. UNCHANGED jobs => \A j \in Job : RowStep(jobs[j], jobs'[j])
  BY SameRow
<1>2. ASSUME NEW r \in Request, NEW j \in Job, NEW w \in Worker, Dispatch(r, j, w)
      PROVE  \A i \in Job : RowStep(jobs[i], jobs'[i])
  <2>1. RowStep(NoJob, NewJob(w))
    BY DEF RowStep, NoJob, NewJob, Lifecycle!Moves
  <2>2. QED
    BY <1>2, <2>1, SaveStep DEF Dispatch
<1>3. ASSUME NEW r \in Request, NEW w \in Worker, FetchJobs(r, w), NEW j \in Job
      PROVE  RowStep(jobs[j], jobs'[j])
  <2>1. CASE Claimable(j, w)
    <3>1. jobs[j] \in JobRecord /\ jobs[j].status = "pending"
      BY <2>1, PresentRow, Constants DEF Claimable
    <3>2. jobs'[j].status = "in_progress"
      BY <1>3, <2>1, <3>1 DEF FetchJobs, Claimed, JobRecord
    <3>3. QED
      BY <3>1, <3>2 DEF RowStep, Lifecycle!Moves
  <2>2. CASE ~Claimable(j, w)
    BY <1>3, <2>2, ReconciledStep DEF FetchJobs
  <2>3. QED
    BY <2>1, <2>2
<1>4. ASSUME NEW r \in Request, HandlerStep(r)
      PROVE  \A j \in Job : Overwritten(j) \/ RowStep(jobs[j], jobs'[j])
  <2>0. HoldsSnapshot(r) =>
          /\ req[r].job \in Job /\ req[r].snap \in JobRecord
          /\ GoodSnapshot(req[r], grants, horizon)
    BY HandlerFields
    DEF HoldsSnapshot, SnapshotOp, LeaseInv, SnapshotsInv
  <2>8. CASE HoldsSnapshot(r) /\ SaveRecord(r) /\ req[r].snap # jobs[req[r].job]
    <3>1. Overwritten(req[r].job)
      BY <2>8 DEF Overwritten
    <3>2. ASSUME NEW j \in Job, j # req[r].job
          PROVE  jobs'[j] = jobs[j]
      BY <2>0, <2>8, <3>2
      DEF SaveRecord, DiagnosticWrite, ProgressWrite, StatusWrite, CancelWrite, Save
    <3>3. QED
      BY <3>1, <3>2, SameRow
  <2>9. CASE HoldsSnapshot(r) /\ SaveRecord(r) => req[r].snap = jobs[req[r].job]
    <3>1. CASE RenewWrite(r)
      <4> DEFINE j == req[r].job
      <4>1. j \in Job /\ jobs[j] \in JobRecord
        BY <3>1, HandlerFields, HeldRow DEF RenewWrite
      <4>2. RowStep(jobs[j], Extended(jobs[j]))
        BY <4>1 DEF RowStep, Extended, JobRecord, NoExpiry
      <4>3. QED
        BY <3>1, <4>1, <4>2, SaveStep DEF RenewWrite
    <3>2. CASE RenewLost(r)
      BY <3>2, <1>0 DEF RenewLost
    <3>3. CASE DiagnosticWrite(r) \/ ProgressWrite(r)
      BY <2>0, <2>9, <3>3, SameRow, SaveStep
      DEF SaveRecord, DiagnosticWrite, ProgressWrite, HoldsSnapshot, SnapshotOp
    <3>4. CASE ProgressUpdate(r) /\ ~UNCHANGED jobs
      <4> DEFINE j == req[r].job
                 new == [jobs[j] EXCEPT !.seq = req[r].n]
      <4>1. /\ HoldsLease(jobs[j], req[r].worker, req[r].token) /\ Save(j, new)
            /\ req[r].n > jobs[j].seq
        BY <3>4 DEF ProgressUpdate
      <4>2. j \in Job /\ jobs[j] \in JobRecord /\ req[r].n \in Int
        BY <3>4, <4>1, HandlerFields, HeldRow DEF ProgressUpdate
      <4>3. RowStep(jobs[j], new)
        BY <4>1, <4>2 DEF RowStep, JobRecord, NoExpiry
      <4>4. QED
        BY <4>1, <4>2, <4>3, SaveStep
    <3>5. CASE StatusWrite(r)
      <4> DEFINE j == req[r].job
                 new == [req[r].snap EXCEPT !.status = req[r].outcome, !.seq = 0]
      <4>1. /\ j \in Job /\ jobs[j] \in JobRecord /\ req[r].snap = jobs[j]
            /\ jobs[j].status = "in_progress" /\ req[r].outcome \in Completed
        BY <2>0, <2>9, <3>5, HandlerFields
        DEF SaveRecord, StatusWrite, HoldsSnapshot, SnapshotOp, GoodSnapshot
      <4>2. new.status = req[r].outcome
        BY <4>1 DEF JobRecord
      <4>3. RowStep(jobs[j], new)
        BY <4>1, <4>2 DEF RowStep, Completed, Lifecycle!Moves
      <4>4. QED
        BY <3>5, <4>1, <4>3, SaveStep DEF StatusWrite
    <3>6. CASE CancelWrite(r)
      <4> DEFINE j == req[r].job
                 new == [req[r].snap EXCEPT !.status = "canceled"]
      <4>1. /\ j \in Job /\ jobs[j] \in JobRecord /\ req[r].snap = jobs[j]
            /\ jobs[j].status \in Active
        BY <2>0, <2>9, <3>6
        DEF SaveRecord, CancelWrite, HoldsSnapshot, SnapshotOp, GoodSnapshot
      <4>2. new.status = "canceled"
        BY <4>1 DEF JobRecord
      <4>3. RowStep(jobs[j], new)
        BY <4>1, <4>2 DEF RowStep, Active, Lifecycle!Moves
      <4>4. QED
        BY <3>6, <4>1, <4>3, SaveStep DEF CancelWrite
    <3>7. QED
      BY <1>1, <1>4, <3>1, <3>2, <3>3, <3>4, <3>5, <3>6
      DEF HandlerStep, CancelRead
  <2>10. QED
    BY <2>8, <2>9
<1>5. ASSUME NEW r \in Request, NEW w \in Worker, NEW j \in Job, NEW t \in 1 .. grants[j],
             WorkerRequest(r, w, j, t)
      PROVE  UNCHANGED jobs \/ Reconcile
  BY <1>5 DEF WorkerRequest, RenewRead, DiagnosticRead, DiagnosticExpired,
     ProgressRead, StatusRead
<1>6. ASSUME NEW r \in Request, ListJobs(r) \/ \E j \in Job : CancelReconcile(r, j)
      PROVE  Reconcile
  BY <1>6 DEF ListJobs, CancelReconcile
<1>7. Restart \/ UNCHANGED vars => UNCHANGED jobs
  BY DEF Restart, vars
<1>8. CASE UNCHANGED vars
  BY <1>1, <1>7, <1>8
<1>9. CASE Next
  BY <1>0, <1>1, <1>2, <1>3, <1>4, <1>5, <1>6, <1>7, <1>9 DEF Next
<1>10. QED
  BY <1>8, <1>9

\* Time alone changes no status and no progress.
LEMMA TickStep ==
  ASSUME TypeOK, Tick, NEW j \in Job
  PROVE  /\ jobs'[j].status = jobs[j].status
         /\ jobs[j].status = "in_progress" => jobs'[j].seq = jobs[j].seq
<1>1. jobs'[j] = Older(jobs[j])
  BY DEF Tick
<1>2. CASE jobs[j] = NoJob
  BY <1>1, <1>2 DEF Older, NoJob
<1>3. CASE jobs[j] \in JobRecord
  BY <1>1, <1>3, PresentRow DEF Older, JobRecord
<1>4. QED
  BY <1>2, <1>3 DEF TypeOK

LEMMA RowSurvives ==
  ASSUME TypeOK, LeaseInv, [Next]_vars, NEW j \in Job
  PROVE  \/ Overwritten(j)
         \/ /\ \/ jobs'[j].status = jobs[j].status
               \/ <<jobs[j].status, jobs'[j].status>> \in Lifecycle!Moves
            /\ jobs[j].status = "in_progress" /\ jobs'[j].status = "in_progress" =>
                 /\ jobs'[j].seq >= jobs[j].seq
                 /\ jobs'[j].ttl >= jobs[j].ttl \/ Tick
<1>1. CASE Tick
  <2>1. jobs[j].status = "in_progress" => jobs[j].seq \in Int
    BY DEF TypeOK, JobRecord, NoJob
  <2>2. QED
    BY <1>1, <2>1, TickStep
<1>2. CASE ~Tick
  BY <1>2, ThreadStep DEF RowStep
<1>3. QED
  BY <1>1, <1>2

\* However many threads the server has, a job ends once, its outcome is
\* final, its progress does not go back and its lease is not shortened,
\* except where save(job) replaces a row that changed since it was read.
THEOREM OnlyStaleSaves == Spec => OnlyStaleSavesUndo
<1>1. TypeOK /\ LeaseInv /\ [Next]_vars =>
        [\A j \in Job :
           \/ Overwritten(j)
           \/ /\ \/ jobs'[j].status = jobs[j].status
                 \/ <<jobs[j].status, jobs'[j].status>> \in Lifecycle!Moves
              /\ jobs[j].status = "in_progress" /\ jobs'[j].status = "in_progress" =>
                   /\ jobs'[j].seq >= jobs[j].seq
                   /\ jobs'[j].ttl >= jobs[j].ttl \/ Tick]_vars
  BY RowSurvives
<1>2. QED
  BY <1>1, TypeCorrect, LeaseInvariant, PTL DEF Spec, OnlyStaleSavesUndo

\* A server with one thread holds no record that is not the row.
LEMMA SerialStep ==
  ASSUME NEW r, Request = {r}, TypeOK, Fresh, LeaseInv, [Next]_vars
  PROVE  Tick \/ \A j \in Job : RowStep(jobs[j], jobs'[j])
<1>1. \A j \in Job : ~Overwritten(j)
  BY DEF Overwritten, Fresh
<1>2. QED
  BY <1>1, ThreadStep

LEMMA SerialInvariant ==
  ASSUME NEW r, Request = {r}
  PROVE  Spec => [](TypeOK /\ LeaseInv /\ Fresh)
<1>1. TypeOK /\ Fresh /\ [Next]_vars => Fresh'
  BY NextFresh
<1>2. QED
  BY <1>1, InitFresh, TypeCorrect, LeaseInvariant, PTL DEF Spec

\* A server that ran one handler at a time would implement the abstract
\* lifecycle: a job ends once, and its terminal status is final.
THEOREM SerialLifecycle ==
  ASSUME NEW r, Request = {r}
  PROVE  Spec => LifecycleSpec
<1>1. Init => Lifecycle!Init
  BY DEF Init, Lifecycle!Init, StatusOf, NoJob
<1>2. TypeOK /\ LeaseInv /\ Fresh /\ [Next]_vars => [Lifecycle!Next]_StatusOf
  <2> SUFFICES ASSUME TypeOK, LeaseInv, Fresh, [Next]_vars
               PROVE  Lifecycle!Next
    OBVIOUS
  <2>1. ASSUME NEW j \in Job
        PROVE  \/ jobs'[j].status = jobs[j].status
               \/ <<jobs[j].status, jobs'[j].status>> \in Lifecycle!Moves
    BY SerialStep, TickStep DEF RowStep
  <2>2. QED
    BY <2>1 DEF Lifecycle!Next, StatusOf
<1>3. QED
  BY <1>1, <1>2, SerialInvariant, PTL DEF Spec, LifecycleSpec, Lifecycle!Spec

\* ... the progress of a running job would never go backwards ...
THEOREM SerialProgress ==
  ASSUME NEW r, Request = {r}
  PROVE  Spec => ProgressNeverRegresses
<1>1. TypeOK /\ LeaseInv /\ Fresh /\ [Next]_vars =>
        [\A j \in Job :
           jobs[j].status = "in_progress" /\ jobs'[j].status = "in_progress"
             => jobs'[j].seq >= jobs[j].seq]_vars
  <2> SUFFICES ASSUME TypeOK, LeaseInv, Fresh, [Next]_vars, NEW j \in Job,
                      jobs[j].status = "in_progress",
                      jobs'[j].status = "in_progress"
               PROVE  jobs'[j].seq >= jobs[j].seq
    OBVIOUS
  <2>1. jobs[j].seq \in Int /\ jobs'[j].seq \in Int
    BY NextTypeOK DEF TypeOK, JobRecord, NoJob
  <2>2. CASE Tick
    BY <2>1, <2>2, TickStep
  <2>3. CASE ~Tick
    BY <2>3, SerialStep DEF RowStep
  <2>4. QED
    BY <2>2, <2>3
<1>2. QED
  BY <1>1, SerialInvariant, PTL DEF Spec, ProgressNeverRegresses

\* ... and only time would shorten the lease of a running job.
THEOREM SerialRenewal ==
  ASSUME NEW r, Request = {r}
  PROVE  Spec => RenewalIsNotUndone
<1>1. TypeOK /\ LeaseInv /\ Fresh /\ [Next]_vars =>
        [\A j \in Job :
           (/\ jobs[j].status = "in_progress" /\ jobs'[j].status = "in_progress"
            /\ jobs'[j].ttl < jobs[j].ttl)
             => Tick]_vars
  <2> SUFFICES ASSUME TypeOK, LeaseInv, Fresh, [Next]_vars, ~Tick,
                      NEW j \in Job, jobs[j].status = "in_progress",
                      jobs'[j].status = "in_progress"
               PROVE  ~(jobs'[j].ttl < jobs[j].ttl)
    OBVIOUS
  <2>1. jobs'[j].ttl >= jobs[j].ttl
    BY SerialStep DEF RowStep
  <2>2. jobs[j].ttl \in Int /\ jobs'[j].ttl \in Int
    BY NextTypeOK DEF TypeOK, JobRecord, NoJob, NoExpiry
  <2>3. QED
    BY <2>1, <2>2
<1>2. QED
  BY <1>1, SerialInvariant, PTL DEF Spec, RenewalIsNotUndone

\* So what the source says of two handlers, and what fails where handlers
\* overlap, would hold: a canceled job could not be completed ...
THEOREM SerialCancellation ==
  ASSUME NEW r, Request = {r}
  PROVE  Spec => CanceledJobIsNotCompleted
<1>1. TypeOK /\ LeaseInv /\ Fresh /\ [Next]_vars =>
        [\A j \in Job : jobs[j].status = "canceled" =>
           jobs'[j].status \notin Completed]_vars
  <2> SUFFICES ASSUME TypeOK, LeaseInv, Fresh, [Next]_vars, NEW j \in Job,
                      jobs[j].status = "canceled"
               PROVE  jobs'[j].status \notin Completed
    OBVIOUS
  <2>1. \/ jobs'[j].status = jobs[j].status
        \/ <<jobs[j].status, jobs'[j].status>> \in Lifecycle!Moves
    BY SerialStep, TickStep DEF RowStep
  <2>2. QED
    BY <2>1 DEF Lifecycle!Moves, Completed
<1>2. QED
  BY <1>1, SerialInvariant, PTL DEF Spec, CanceledJobIsNotCompleted

\* ... and a lease diagnostic would leave ownership and status alone.
THEOREM SerialDiagnostic ==
  ASSUME NEW only, Request = {only}
  PROVE  Spec => DiagnosticKeepsOwnershipAndStatus
<1>1. TypeOK /\ LeaseInv /\ Fresh /\ [Next]_vars =>
        [\A r \in Request : DiagnosticWrite(r) =>
           /\ jobs'[req[r].job].status = jobs[req[r].job].status
           /\ jobs'[req[r].job].owner = jobs[req[r].job].owner]_vars
  <2> SUFFICES ASSUME TypeOK, Fresh, NEW q \in Request, DiagnosticWrite(q)
               PROVE  jobs'[req[q].job] = jobs[req[q].job]
    OBVIOUS
  <2>1. /\ req[q].snap = jobs[req[q].job]
        /\ jobs' = [jobs EXCEPT ![req[q].job] = req[q].snap]
    BY DEF DiagnosticWrite, Fresh, HoldsSnapshot, SnapshotOp, Save
  <2>2. req[q].job \in Job
    BY HandlerFields DEF DiagnosticWrite
  <2>3. QED
    BY <2>1, <2>2 DEF TypeOK
<1>2. Spec => [](TypeOK /\ LeaseInv /\ Fresh)
  BY SerialInvariant
<1>3. QED
  BY <1>1, <1>2, PTL DEF Spec, DiagnosticKeepsOwnershipAndStatus
=============================================================================
