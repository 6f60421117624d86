----------------------------- MODULE MCServices -----------------------------
(***************************************************************************)
(* Small instances, for TLC, of six components of the Control Plane, side  *)
(* by side.  A behaviour is one of one component; the others stay in an    *)
(* initial state of theirs, so that the states of the run are the sum of   *)
(* the components' states and not their product, and the fairness of a     *)
(* component counts in its own behaviours only.  The components share no   *)
(* variable here; where they depend on each other in the code is said in   *)
(* each module.                                                            *)
(***************************************************************************)
EXTENDS JobEvents, WorkerRegistry, SnapshotCatalog, Scheduler, UserAccounts

CONSTANTS Job, Worker, NoWorker, Request, LeaseDuration, MaxSeq \* of JobLease

VARIABLES
  part,                       \* the component of this behaviour
  jobs, req, grants, horizon  \* of JobLease

Lease == INSTANCE JobLease

leaseVars == <<jobs, req, grants, horizon>>
servicesVars ==
  <<part, eventVars, registryVars, leaseVars, catalogVars, schedulerVars,
    accountVars>>

Plays(p) == part = p

(* Without Redis and with a patient or impatient worker, and with both.    *)
Deployments == {[redis |-> FALSE, patient |-> TRUE],
                [redis |-> FALSE, patient |-> FALSE],
                [redis |-> TRUE, patient |-> TRUE]}

ServicesInit ==
  /\ part \in {"events", "registry", "lease", "catalogue", "scheduler",
               "accounts"}
  /\ EventsInit
  /\ RegistryInit
  /\ Lease!Init
  /\ IF Plays("catalogue") THEN TRUE
     ELSE deployment = [redis |-> FALSE, patient |-> TRUE]
  /\ CatalogInit
  /\ IF Plays("scheduler") THEN TRUE
     ELSE day = "plain" /\ schedule = {0} /\ interval = Earliest(Intervals)
  /\ SchedulerInit
  /\ AccountsInit

ServicesNext ==
  \/ /\ Plays("events") /\ EventsNext
     /\ UNCHANGED <<part, registryVars, leaseVars, catalogVars,
                       schedulerVars, accountVars>>
  \/ /\ Plays("registry") /\ RegistryNext
     /\ UNCHANGED <<part, eventVars, leaseVars, catalogVars, schedulerVars,
                       accountVars>>
  \/ /\ Plays("lease") /\ Lease!Next
     /\ UNCHANGED <<part, eventVars, registryVars, catalogVars,
                       schedulerVars, accountVars>>
  \/ /\ Plays("catalogue") /\ CatalogNext
     /\ UNCHANGED <<part, eventVars, registryVars, leaseVars, schedulerVars,
                       accountVars>>
  \/ /\ Plays("scheduler") /\ SchedulerNext
     /\ UNCHANGED <<part, eventVars, registryVars, leaseVars, catalogVars,
                       accountVars>>
  \/ /\ Plays("accounts") /\ AccountsNext
     /\ UNCHANGED <<part, eventVars, registryVars, leaseVars, catalogVars,
                       schedulerVars>>

(* EventsFairness, RegistryFairness and the Fairness of JobLease.          *)
ServicesFairness ==
  /\ \A t \in Thread : WF_eventVars(Plays("events") /\ PublisherStep(t))
  /\ \A v \in Stream : WF_eventVars(Plays("events") /\ StreamStep(v))
  /\ \A t \in Caller : WF_registryVars(Plays("registry") /\ Goon(t))
  /\ WF_registryVars(Plays("registry") /\ RegistryTick)
  /\ \A r \in Request : WF_leaseVars(Plays("lease") /\ Lease!HandlerStep(r))
  /\ WF_leaseVars(Plays("lease") /\ Lease!Tick)
  /\ SF_leaseVars(Plays("lease") /\ \E r \in Request : Lease!ListJobs(r))

ServicesSpec ==
  ServicesInit /\ [][ServicesNext]_servicesVars /\ ServicesFairness

(* The type invariants of those that have no run of their own. *)
ServicesTypeOK ==
  /\ EventsTypeOK
  /\ RegistryTypeOK
  /\ CatalogTypeOK
  /\ SchedulerTypeOK
  /\ AccountsTypeOK

(* What an abandoned job comes to. *)
AbandonedJobEnds == Lease!AbandonedJobEnds

=============================================================================
