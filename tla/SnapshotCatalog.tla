-------------------------- MODULE SnapshotCatalog --------------------------
(***************************************************************************)
(* How the catalogue of a target follows its repository.  A backup or a    *)
(* retention run changes the repository; when its success is reported, the *)
(* Control Plane bumps the target's cache generation, saves the job and    *)
(* schedules a snapshot sync, unless one is active already.  A sync is a   *)
(* job like any other: its payload carries the generation of the moment it *)
(* was built, the worker answers it from the Redis entry of that           *)
(* generation or lists the repository, and the answer replaces the         *)
(* catalogue.                                                              *)
(*                                                                         *)
(* The worker executes one job at a time.  The handlers of the Control     *)
(* Plane are threads, a repository call is one step, and a worker whose    *)
(* report timed out goes on while the handler is still at it.              *)
(*                                                                         *)
(* The repository is the number of changes it has seen, and a listing or   *)
(* the catalogue is the number of changes it shows.                        *)
(***************************************************************************)
EXTENDS Integers, FiniteSets

CONSTANTS
  Sync,          \* snapshots.list jobs
  Responder,     \* handler threads of the Control Plane
  MaxChange,     \* bound on the changes of the repository
  Deployment     \* the deployments to look at: is Redis configured, and is
                 \* the worker patient, waiting for every report's answer

ASSUME CatalogAssumption ==
  /\ MaxChange \in Nat
  /\ Deployment \subseteq [redis : BOOLEAN, patient : BOOLEAN]

VARIABLES
  deployment,   \* the deployment of this behaviour
  repository,   \* changes the repository has seen
  reported,     \* changes whose success the Control Plane has saved
  generation,   \* the target's cache generation
  cached,       \* the Redis entry of each generation that has one
  sync,         \* the rows of the sync jobs
  catalogue,    \* changes the catalogue shows
  agent,        \* what the worker is doing
  desk,         \* what each handler is doing
  gaveUp        \* a sync was refused, failed or canceled and none came after

catalogVars == <<deployment, repository, reported, generation, cached, sync,
                 catalogue, agent, desk, gaveUp>>

Change == 0 .. MaxChange

NoSync == [status |-> "none"]   \* no such job, or one that has ended
SyncRow == [status : {"pending", "claimed"}, gen : Change, must : Change]
Quit == [at |-> "idle"]
Agent ==
  {Quit} \union [at : {"changing"}]
    \union [at : {"changed", "waiting"}, change : Change]
    \union [at : {"listing"}, job : Sync]
    \union [at : {"listed", "waitingSync"}, job : Sync, seen : Change]
Desk ==
  {Quit}
    \union [at : {"bump", "save"}, change : Change]
    \union [at : {"schedule", "look", "build"}]
    \union [at : {"insert"}, gen : Change, must : Change]
    \union [at : {"replace", "close"}, job : Sync, seen : Change]

ActiveSync == {j \in Sync : sync[j] # NoSync}

\* A new row has an identifier of its own.
Unused(j) ==
  /\ j \notin ActiveSync
  /\ agent.at \in {"listing", "listed", "waitingSync"} => agent.job # j
  /\ \A h \in Responder : desk[h].at \in {"replace", "close"} => desk[h].job # j

CatalogInit ==
  /\ deployment \in Deployment
  /\ repository = 0 /\ reported = 0 /\ generation = 0 /\ catalogue = 0
  /\ cached = [g \in {} |-> 0]
  /\ sync = [j \in Sync |-> NoSync]
  /\ agent = Quit
  /\ desk = [h \in Responder |-> Quit]
  /\ gaveUp = FALSE

AtDesk(h, d) == desk' = [desk EXCEPT ![h] = d]

-----------------------------------------------------------------------------
(* The worker.                                                             *)

StartChange ==
  /\ agent = Quit /\ repository < MaxChange
  /\ agent' = [at |-> "changing"]
  /\ UNCHANGED <<deployment, repository, reported, generation, cached, sync,
                 catalogue, desk, gaveUp>>

\* restic changes the repository; the run may still fail, or lose its lease,
\* and then nothing is reported.
ChangeRepository ==
  /\ agent.at = "changing"
  /\ repository' = repository + 1
  /\ agent' \in {[at |-> "changed", change |-> repository'], Quit}
  /\ UNCHANGED <<deployment, reported, generation, cached, sync, catalogue,
                 desk, gaveUp>>

StartSync(j) ==
  /\ agent = Quit /\ sync[j].status = "pending"
  /\ sync' = [sync EXCEPT ![j].status = "claimed"]
  /\ agent' = [at |-> "listing", job |-> j]
  /\ UNCHANGED <<deployment, repository, reported, generation, cached,
                 catalogue, desk, gaveUp>>

\* get_or_compute: the entry of the payload's generation, or a listing that
\* is stored for it; a Redis that does not answer is left out.
ListFromCache ==
  /\ agent.at = "listing" /\ deployment.redis
  /\ sync[agent.job].gen \in DOMAIN cached
  /\ agent' = [at |-> "listed", job |-> agent.job,
               seen |-> cached[sync[agent.job].gen]]
  /\ UNCHANGED <<deployment, repository, reported, generation, cached, sync,
                 catalogue, desk, gaveUp>>

ListRepository ==
  /\ agent.at = "listing"
  /\ agent' = [at |-> "listed", job |-> agent.job, seen |-> repository]
  /\ \/ UNCHANGED cached
     \/ /\ deployment.redis
        /\ LET gen == sync[agent.job].gen
           IN cached' = [g \in DOMAIN cached \union {gen} |->
                           IF g = gen THEN repository ELSE cached[g]]
  /\ UNCHANGED <<deployment, repository, reported, generation, sync,
                 catalogue, desk, gaveUp>>

CacheExpires ==
  /\ \E g \in DOMAIN cached :
       cached' = [f \in DOMAIN cached \ {g} |-> cached[f]]
  /\ UNCHANGED <<deployment, repository, reported, generation, sync,
                 catalogue, agent, desk, gaveUp>>

\* A sync fails at the worker, or is canceled, or its lease runs out.
SyncFails(j) ==
  /\ j \in ActiveSync
  /\ \A h \in Responder : desk[h].at \in {"replace", "close"} => desk[h].job # j
  /\ sync' = [sync EXCEPT ![j] = NoSync]
  /\ agent' = IF agent.at \in {"listing", "listed"} /\ agent.job = j
              THEN Quit ELSE agent
  /\ gaveUp' = TRUE
  /\ UNCHANGED <<deployment, repository, reported, generation, cached,
                 catalogue, desk>>

\* A report reaches a handler, and the worker waits for the answer.
ReportChange(h) ==
  /\ agent.at = "changed" /\ desk[h] = Quit
  /\ AtDesk(h, [at |-> "bump", change |-> agent.change])
  /\ agent' = [agent EXCEPT !.at = "waiting"]
  /\ UNCHANGED <<deployment, repository, reported, generation, cached, sync,
                 catalogue, gaveUp>>

ReportSync(h) ==
  /\ agent.at = "listed" /\ desk[h] = Quit
  /\ AtDesk(h, [at |-> "replace", job |-> agent.job, seen |-> agent.seen])
  /\ agent' = [agent EXCEPT !.at = "waitingSync"]
  /\ UNCHANGED <<deployment, repository, reported, generation, cached, sync,
                 catalogue, gaveUp>>

\* The answer, or the end of the worker's patience.  (A handler that is still
\* looking for a sync may be another request's; the worker does not wait for
\* it.)
GoOn ==
  /\ agent.at \in {"waiting", "waitingSync"}
  /\ \/ ~deployment.patient
     \/ \A h \in Responder : \/ desk[h] = Quit
                             \/ desk[h].at \in {"look", "build", "insert"}
  /\ agent' = Quit
  /\ UNCHANGED <<deployment, repository, reported, generation, cached, sync,
                 catalogue, desk, gaveUp>>

-----------------------------------------------------------------------------
(* Handlers: completions and requests for a sync.                          *)

\* _invalidate_explorer_metadata_after_success, before the job is saved.
Bump(h) ==
  /\ desk[h].at = "bump"
  /\ generation' = generation + 1
  /\ AtDesk(h, [desk[h] EXCEPT !.at = "save"])
  /\ UNCHANGED <<deployment, repository, reported, cached, sync, catalogue,
                 agent, gaveUp>>

\* Faulty: the generation is bumped once more with the save.
SaveAndBump(h) ==
  /\ desk[h].at = "save"
  /\ reported' = IF desk[h].change > reported THEN desk[h].change ELSE reported
  /\ generation' = generation + 1
  /\ AtDesk(h, [at |-> "schedule"])
  /\ UNCHANGED <<deployment, repository, cached, sync, catalogue, agent,
                 gaveUp>>

SaveSuccess(h) ==
  /\ desk[h].at = "save"
  /\ reported' = IF desk[h].change > reported THEN desk[h].change ELSE reported
  /\ AtDesk(h, [at |-> "schedule"])
  /\ UNCHANGED <<deployment, repository, generation, cached, sync, catalogue,
                 agent, gaveUp>>

\* Faulty: one of the mutating commands is not known as one.
ScheduleForSome(h) ==
  /\ desk[h].at = "schedule"
  /\ \/ AtDesk(h, Quit)
     \/ AtDesk(h, IF ActiveSync # {} THEN Quit ELSE [at |-> "look"])
  /\ UNCHANGED <<deployment, repository, reported, generation, cached, sync,
                 catalogue, agent, gaveUp>>

\* _schedule_snapshot_sync_after_mutation: nothing when a sync is active; a
\* refusal is only logged (SyncRefused).
Schedule(h) ==
  /\ desk[h].at = "schedule"
  /\ AtDesk(h, IF ActiveSync # {} THEN Quit ELSE [at |-> "look"])
  /\ UNCHANGED <<deployment, repository, reported, generation, cached, sync,
                 catalogue, agent, gaveUp>>

\* An operator asks for a sync.
RequestSync(h) ==
  /\ desk[h] = Quit
  /\ AtDesk(h, [at |-> "look"])
  /\ UNCHANGED <<deployment, repository, reported, generation, cached, sync,
                 catalogue, agent, gaveUp>>

\* dispatch_snapshot_sync_for_target: an active sync is returned as it is.
LookForSync(h) ==
  /\ desk[h].at = "look"
  /\ AtDesk(h, IF ActiveSync # {} THEN Quit ELSE [at |-> "build"])
  /\ UNCHANGED <<deployment, repository, reported, generation, cached, sync,
                 catalogue, agent, gaveUp>>

SyncRefused(h) ==
  /\ desk[h].at \in {"schedule", "look", "insert"}
  /\ AtDesk(h, Quit)
  /\ gaveUp' = TRUE
  /\ UNCHANGED <<deployment, repository, reported, generation, cached, sync,
                 catalogue, agent>>

\* The payload takes the generation of this moment.
BuildPayload(h) ==
  /\ desk[h].at = "build"
  /\ AtDesk(h, [at |-> "insert", gen |-> generation, must |-> reported])
  /\ UNCHANGED <<deployment, repository, reported, generation, cached, sync,
                 catalogue, agent, gaveUp>>

InsertSync(h) ==
  /\ desk[h].at = "insert"
  /\ \E j \in Sync :
       /\ Unused(j)
       /\ sync' = [sync EXCEPT ![j] = [status |-> "pending",
                                       gen |-> desk[h].gen,
                                       must |-> desk[h].must]]
  /\ AtDesk(h, Quit)
  /\ gaveUp' = FALSE
  /\ UNCHANGED <<deployment, repository, reported, generation, cached,
                 catalogue, agent>>

\* _sync_snapshots_from_result, before the sync job is saved.
ReplaceCatalogue(h) ==
  /\ desk[h].at = "replace"
  /\ catalogue' = desk[h].seen
  /\ AtDesk(h, [desk[h] EXCEPT !.at = "close"])
  /\ UNCHANGED <<deployment, repository, reported, generation, cached, sync,
                 agent, gaveUp>>

CloseSync(h) ==
  /\ desk[h].at = "close"
  /\ sync' = [sync EXCEPT ![desk[h].job] = NoSync]
  /\ AtDesk(h, Quit)
  /\ UNCHANGED <<deployment, repository, reported, generation, cached,
                 catalogue, agent, gaveUp>>

CatalogNext ==
  \/ StartChange \/ ChangeRepository \/ ListFromCache \/ ListRepository
  \/ CacheExpires \/ GoOn
  \/ \E j \in Sync : StartSync(j) \/ SyncFails(j)
  \/ \E h \in Responder :
       \/ ReportChange(h) \/ ReportSync(h) \/ Bump(h) \/ SaveSuccess(h)
       \/ Schedule(h) \/ RequestSync(h) \/ LookForSync(h) \/ SyncRefused(h)
       \/ BuildPayload(h) \/ InsertSync(h) \/ ReplaceCatalogue(h)
       \/ CloseSync(h)

CatalogSpec == CatalogInit /\ [][CatalogNext]_catalogVars

-----------------------------------------------------------------------------
(* Properties.                                                             *)

CatalogTypeOK ==
  /\ deployment \in Deployment
  /\ repository \in Change /\ reported \in Change /\ generation \in Change
  /\ \E G \in SUBSET Change : cached \in [G -> Change]
  /\ sync \in [Sync -> SyncRow \union {NoSync}]
  /\ catalogue \in Change
  /\ agent \in Agent
  /\ desk \in [Responder -> Desk]
  /\ gaveUp \in BOOLEAN

\* A sync whose payload was built after a success was saved shows that
\* change, whether its listing comes from Redis or from the repository:
\* entries of the generations before the success are never served to it.
SyncShowsReportedChanges ==
  agent.at \in {"listed", "waitingSync"} /\ agent.job \in ActiveSync
    => agent.seen >= sync[agent.job].must

\* Nothing that would bring the catalogue up to date is under way.
Settled ==
  /\ ActiveSync = {} /\ ~gaveUp
  /\ \A h \in Responder : desk[h] = Quit
  /\ agent = Quit

\* A successful backup schedules a sync of the current generation, and when
\* nothing is left to do the catalogue shows every reported change: without
\* Redis and with a worker that waits for its answers one sync for several
\* successes, requests that race each other and a catalogue that is replaced
\* before the sync is saved leave the catalogue complete.  With Redis they
\* need not: a sync that was built before the success counts as active,
\* carries the old generation and may be answered with the listing of before
\* the backup.
CatalogCompleteWithoutCache ==
  ~deployment.redis /\ deployment.patient /\ Settled => catalogue >= reported

\* Both: what a sync shows of the changes before it, and what the catalogue
\* shows when nothing is under way.
CatalogFollows == SyncShowsReportedChanges /\ CatalogCompleteWithoutCache

=============================================================================
