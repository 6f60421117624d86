--------------------------- MODULE KubernetesRun ---------------------------
(***************************************************************************)
(* The runs of the Kubernetes runtime of a worker.  A run asks for zero    *)
(* replicas of the workloads that match the target's claims, creates a     *)
(* Job, polls it, and asks for the replicas again.  The API server may     *)
(* refuse a call, or carry it out and lose the answer; the worker may die  *)
(* at any point and, when it is back, sweeps the Jobs it owns.             *)
(*                                                                         *)
(* What is modelled of a workload is the number it is asked to have: no    *)
(* step of a run waits for a pod to end or to start.                       *)
(*                                                                         *)
(* One worker runs one job at a time, and nobody else scales the           *)
(* workloads or touches the Jobs.                                          *)
(***************************************************************************)
EXTENDS Naturals, FiniteSets, Sequences, SequencesExt

CONSTANTS
  Workload,      \* the Deployments and StatefulSets of the namespace
  Mounting,      \* those that _workload_pvcs matches with the target's claims
  ClusterJob,    \* the Jobs, named after the job of the control plane
  MaxReplicas    \* bound on the replicas a workload starts with

ASSUME KubernetesAssumption ==
  /\ IsFiniteSet(Workload) /\ Mounting \subseteq Workload
  /\ ClusterJob # {}
  /\ MaxReplicas \in Nat \ {0}

VARIABLES
  replicas,     \* spec.replicas of each workload
  clusterJob,   \* what the API server says of each Job
  podRun,       \* the run in progress, and the result of the last one
  endedWell     \* history: Jobs that succeeded since a run of theirs began

kubernetesVars == <<replicas, clusterJob, podRun, endedWell>>

-----------------------------------------------------------------------------
RunStep == {"idle", "listing", "quiescing", "polling", "resuming", "dead"}
JobPhase == {"absent", "pending", "active", "succeeded", "failed", "stopping"}

(* What _quiesce remembers: a workload and the replicas it is owed.        *)
Owed == [workload : Workload, replicas : 0..MaxReplicas]

(* What run_runtime_job knows of itself: the workloads it listed, how many  *)
(* of them, from the first, it has changed, and what it returned.          *)
NoRun == [at |-> "idle", job |-> CHOOSE j \in ClusterJob : TRUE, found |-> <<>>,
          changed |-> 0, ok |-> FALSE, result |-> "none"]

(* The API server's answers: it did it, it refused, or it did it and the   *)
(* answer was lost.                                                        *)
ApiAnswer == {"done", "refused", "lost"}
TakesEffect(answer) == answer # "refused"

(* A Job with a pod: a foreground deletion leaves the Job until its pod is *)
(* gone.                                                                   *)
PodUp(phase) == phase \in {"active", "stopping"}
Deleted(phase) == IF PodUp(phase) THEN "stopping" ELSE "absent"

(* _matching_workloads returns the deployments and then the statefulsets   *)
(* with a volume of one of the claims or a claim template of its name, in  *)
(* any order of each.  Other kinds are not listed.                         *)
MatchingWorkloads == SetToSeqs(Mounting)

(* The API server is asked for these replicas. *)
Scale(scale) == replicas' = scale /\ UNCHANGED <<clusterJob, endedWell>>

KubernetesInit ==
  /\ replicas \in [Workload -> 1..MaxReplicas]
  /\ clusterJob = [j \in ClusterJob |-> "absent"]
  /\ podRun = NoRun
  /\ endedWell = {}

-----------------------------------------------------------------------------
(* run_runtime_job up to the quiesce: canceled already, out of scope, or   *)
(* an inventory that cannot be read end it before anything is changed.     *)
RunJob(j) ==
  /\ podRun.at = "idle"
  /\ \/ podRun' = [NoRun EXCEPT !.at = "listing", !.job = j]
     \/ podRun' = [NoRun EXCEPT !.job = j, !.result = "failure"]
  /\ endedWell' = endedWell \ {j}
  /\ UNCHANGED <<replicas, clusterJob>>

(* _quiesce lists the workloads; a listing that fails changes nothing. *)
ListWorkloads ==
  /\ podRun.at = "listing"
  /\ \/ \E order \in MatchingWorkloads :
          podRun' = [podRun EXCEPT !.at = "quiescing",
                       !.found = [i \in 1..Len(order) |->
                                   [workload |-> order[i],
                                    replicas |-> replicas[order[i]]]]]
     \/ podRun' = [podRun EXCEPT !.at = "resuming", !.ok = FALSE]
  /\ UNCHANGED <<replicas, clusterJob, endedWell>>

(* One patch of _quiesce.  The workload is remembered when the call comes  *)
(* back, so that one whose answer was lost stays at zero.                  *)
Quiesce(answer) ==
  /\ podRun.at = "quiescing" /\ podRun.changed < Len(podRun.found)
  /\ Scale(IF TakesEffect(answer)
           THEN [replicas EXCEPT ![podRun.found[podRun.changed + 1].workload] = 0]
           ELSE replicas)
  /\ podRun' = IF answer = "done" THEN [podRun EXCEPT !.changed = @ + 1]
               ELSE [podRun EXCEPT !.at = "resuming"]

(* Zero was asked for everywhere: create the Job, unless the run is        *)
(* canceled.  A Job of that name that still exists is a conflict.          *)
CreateJob(answer) ==
  /\ podRun.at = "quiescing" /\ podRun.changed = Len(podRun.found)
  /\ TakesEffect(answer) => clusterJob[podRun.job] = "absent"
  /\ clusterJob' = IF TakesEffect(answer)
                   THEN [clusterJob EXCEPT ![podRun.job] = "pending"]
                   ELSE clusterJob
  /\ podRun' = [podRun EXCEPT !.at = IF answer = "done" THEN "polling"
                                     ELSE "resuming"]
  /\ UNCHANGED <<replicas, endedWell>>

(* _delete_owned: a call that fails leaves the Job where it is. *)
DeleteOwned(j) ==
  \/ clusterJob' = [clusterJob EXCEPT ![j] = Deleted(@)]
  \/ UNCHANGED clusterJob

(* A round of _poll_job that ends it: succeeded, failed or a status that   *)
(* cannot be read; canceled or out of time, which delete the Job.  A Job   *)
(* that is gone cannot be read.                                            *)
PollEnds ==
  /\ podRun.at = "polling"
  /\ \/ /\ clusterJob[podRun.job] = "succeeded"
        /\ podRun' = [podRun EXCEPT !.at = "resuming", !.ok = TRUE]
        /\ UNCHANGED clusterJob
     \/ /\ podRun' = [podRun EXCEPT !.at = "resuming"]
        /\ DeleteOwned(podRun.job)
  /\ UNCHANGED <<replicas, endedWell>>

(* The patches of _resume, last changed first. *)
ScaleBack(answer) ==
  /\ podRun.at = "resuming" /\ podRun.changed > 0
  /\ LET item == podRun.found[podRun.changed] IN
       Scale(IF TakesEffect(answer)
             THEN [replicas EXCEPT ![item.workload] = item.replicas] ELSE replicas)

(* A resume whose errors are logged and forgotten. *)
ResumeQuietly(answer) ==
  /\ ScaleBack(answer)
  /\ podRun' = [podRun EXCEPT !.changed = @ - 1]

(* A resume that ends at the first error. *)
ResumeUntilError(answer) ==
  /\ ScaleBack(answer)
  /\ podRun' = [podRun EXCEPT !.changed = IF answer = "done" THEN @ - 1 ELSE 0,
                              !.ok = @ /\ answer = "done"]

(* One patch of _resume; its errors make the run fail. *)
Resume(answer) ==
  /\ ScaleBack(answer)
  /\ podRun' = [podRun EXCEPT !.changed = @ - 1, !.ok = @ /\ answer = "done"]

(* The workloads are back as far as they come back: the run returns. *)
RunReturns ==
  /\ podRun.at = "resuming" /\ podRun.changed = 0
  /\ podRun' = [podRun EXCEPT !.at = "idle",
                  !.result = IF podRun.ok THEN "success" ELSE "failure"]
  /\ UNCHANGED <<replicas, clusterJob, endedWell>>

-----------------------------------------------------------------------------
(* The cluster: it starts the pod, ends it, ends a deletion, and removes a *)
(* finished Job after its time (ttlSecondsAfterFinished).                  *)
ClusterStep(j) ==
  /\ \E phase \in JobPhase :
       /\ <<clusterJob[j], phase>> \in
            {<<"pending", "active">>, <<"pending", "failed">>, <<"active", "failed">>,
             <<"active", "succeeded">>, <<"stopping", "absent">>,
             <<"succeeded", "absent">>, <<"failed", "absent">>}
       /\ clusterJob' = [clusterJob EXCEPT ![j] = phase]
       /\ endedWell' = IF phase = "succeeded" THEN endedWell \cup {j} ELSE endedWell
  /\ UNCHANGED <<replicas, podRun>>

(* The worker dies in the middle of a run: nothing remembers changed. *)
WorkerDies ==
  /\ podRun.at # "dead"
  /\ podRun' = [NoRun EXCEPT !.at = "dead", !.job = podRun.job]
  /\ UNCHANGED <<replicas, clusterJob, endedWell>>

(* cleanup_orphaned_runtime_jobs at the next start: the Jobs it owns that  *)
(* are not running are handed to the recovery, which removes or retains    *)
(* each; a Job that is running is left to run.                             *)
SweepJobs ==
  /\ podRun.at = "dead"
  /\ \E gone \in SUBSET {j \in ClusterJob :
                           clusterJob[j] \in {"pending", "succeeded", "failed"}} :
       clusterJob' = [j \in ClusterJob |->
                        IF j \in gone THEN Deleted(clusterJob[j]) ELSE clusterJob[j]]
  /\ podRun' = [podRun EXCEPT !.at = "idle"]
  /\ UNCHANGED <<replicas, endedWell>>

KubernetesNext ==
  \/ \E j \in ClusterJob : RunJob(j) \/ ClusterStep(j)
  \/ \E answer \in ApiAnswer : Quiesce(answer) \/ CreateJob(answer) \/ Resume(answer)
  \/ ListWorkloads \/ PollEnds \/ RunReturns
  \/ WorkerDies \/ SweepJobs

KubernetesSpec == KubernetesInit /\ [][KubernetesNext]_kubernetesVars

-----------------------------------------------------------------------------
KubernetesTypeOK ==
  /\ replicas \in [Workload -> 0..MaxReplicas]
  /\ clusterJob \in [ClusterJob -> JobPhase]
  /\ podRun \in [at : RunStep, job : ClusterJob, found : Seq(Owed),
                 changed : 0..Cardinality(Workload), ok : BOOLEAN,
                 result : {"none", "success", "failure"}]
  /\ endedWell \subseteq ClusterJob

(* A run that reports success had its Job succeed since it began, and each *)
(* workload it scaled down is asked for the replicas again that it had     *)
(* when the run listed it.  A Job that is still there from an earlier run  *)
(* of that job, a patch, a creation or a poll whose answer was lost, a     *)
(* resume that was refused and a worker that died in between must all show *)
(* as a failure (run_runtime_job, _quiesce, _resume, _poll_job).           *)
SuccessIsRealAndUndone ==
  podRun.at = "idle" /\ podRun.result = "success" =>
    /\ podRun.job \in endedWell
    /\ \A i \in DOMAIN podRun.found :
         replicas[podRun.found[i].workload] = podRun.found[i].replicas

(* The workloads at zero that no run means to bring back. *)
Remembered ==
  {podRun.found[i].workload :
     i \in {k \in 1..podRun.changed : podRun.found[k].replicas > 0}}
LeftAtZero == {w \in Workload : replicas[w] = 0} \ Remembered

(* A workload that ran is left at zero in three ways only: the worker dies *)
(* during the run, the answer to the workload's own scaling down is lost,  *)
(* or its own scaling up is refused.  What goes wrong with one workload,   *)
(* with the Job or with its poll leaves no other workload at zero          *)
(* (_quiesce, _resume and the finally of run_runtime_job).                 *)
OnlyLossLeavesAtZero ==
  [][\A w \in LeftAtZero' \ LeftAtZero :
       \/ WorkerDies
       \/ Quiesce("lost") /\ podRun.found[podRun.changed + 1].workload = w
       \/ Resume("refused") /\ podRun.found[podRun.changed].workload = w]_kubernetesVars

=============================================================================
