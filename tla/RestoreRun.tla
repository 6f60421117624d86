----------------------------- MODULE RestoreRun -----------------------------
(***************************************************************************)
(* One restore: the engine in its runtime container, the containers it     *)
(* stops and starts again, the target it overwrites, the evidence it       *)
(* leaves in a file, and the worker that turns exit and evidence into the  *)
(* job's result.                                                           *)
(*                                                                         *)
(* Every call that reaches outside the engine is a step and may fail.  A   *)
(* stop may fail after the daemon has carried it out.  The worker removes  *)
(* the runtime container when the job is canceled or its time is up, at    *)
(* any point, and then no finally clause of the engine runs.               *)
(*                                                                         *)
(* The target has entries.  A direct restore clears them all and extracts  *)
(* over them; in the backup-dir layout the archive is extracted to a       *)
(* temporary directory first and then entry after entry is replaced.       *)
(***************************************************************************)
EXTENDS FiniteSets

CONSTANTS
  App,       \* containers of the host, other than the runtime container
  Runtime,   \* the runtime container of the engine
  Entry      \* entries of the target

ASSUME RestoreAssumption == Runtime \notin App /\ Entry # {}

VARIABLES
  asked,      \* what the job asks for and what it meets
  container,  \* the state of each container
  content,    \* what each entry holds
  engine,     \* where the engine is and what it still has to go through
  stopped,    \* stopped_containers
  held,       \* a downloaded archive lies in the temporary directory
  outcome,    \* the RestoreResult under construction
  evidence,   \* the result file
  verdict     \* what the worker reports

restoreVars == <<asked, container, content, engine, stopped, held, outcome,
                 evidence, verdict>>

Container == App \union {Runtime}
Asked == [mode : {"dryRun", "unforced", "forced"},
          layout : {"direct", "backupDir"}, cold : BOOLEAN, map : BOOLEAN,
          remote : BOOLEAN, mounts : SUBSET App, labelled : SUBSET App,
          archive : SUBSET Entry, readOnly : SUBSET Entry]

\* A container that mounts the volumes and runs is found by them, so that the
\* label matters for the others; and neither matters when nothing is stopped.
Meaningful(a) ==
  /\ a.mounts \cap a.labelled = {}
  /\ ~a.cold => a.mounts = {} /\ a.labelled = {}

Phase == {"stop", "walk", "copy", "clear", "unpack", "start"}
Point == {"plan", "gate", "download", "check", "extract", "chown", "cleanup",
          "restarted", "write", "exited", "killed"}
Outcome == [ok : BOOLEAN, destroyed : {"none", "partial", "complete"},
            restart : {"notRequested", "succeeded", "failed"}]
NoEvidence == [ok |-> FALSE, destroyed |-> "unknown", restart |-> "unknown"]
Pending == [ok |-> FALSE, destroyed |-> "pending", restart |-> "pending"]

Here(p) == engine.at = p
Enters(p) == engine' = [at |-> p, todo |-> {}]
EntersWith(p, todo) == engine' = [at |-> p, todo |-> todo]
Done(x) == engine' = [engine EXCEPT !.todo = @ \ {x}]

RestoreInit ==
  /\ asked \in Asked /\ Meaningful(asked)
  /\ container \in [Container -> {"running", "stopped"}]
  /\ container[Runtime] = "running"
  /\ content = [e \in Entry |-> "old"]
  /\ engine = [at |-> "plan", todo |-> {}]
  /\ stopped = {} /\ held = FALSE
  /\ outcome = [ok |-> TRUE, destroyed |-> "none", restart |-> "notRequested"]
  /\ evidence = NoEvidence
  /\ verdict = Pending

-----------------------------------------------------------------------------
(* The engine: plan and gates.                                             *)

Running(S) == {c \in S : container[c] = "running"}

\* _find_affected_containers: running containers that share the volumes, else
\* running ones with the stop label, else any container, running or not and
\* the runtime container too, that knows the target path as a mount.
Affected ==
  LET shared == Running(asked.mounts)
      byLabel == Running(asked.labelled)
  IN CASE shared # {} -> {shared}
       [] shared = {} /\ byLabel # {} -> {byLabel}
       [] OTHER -> IF asked.layout = "direct"
                   THEN {S \union {Runtime} : S \in SUBSET asked.mounts}
                   ELSE {{}}

Refuse ==
  /\ outcome' = [outcome EXCEPT !.ok = FALSE]
  /\ Enters("write")

\* plan_restore; a dry run ends here with its plan.
PlanRestore ==
  /\ Here("plan")
  /\ \/ Refuse
     \/ /\ asked.mode = "dryRun" /\ Enters("write")
        /\ UNCHANGED outcome
     \/ /\ asked.mode = "unforced" /\ Refuse
     \/ /\ asked.mode = "forced"
        /\ \E S \in Affected : EntersWith("gate", IF asked.cold THEN S ELSE {})
        /\ UNCHANGED outcome
  /\ UNCHANGED <<asked, container, content, stopped, held, evidence, verdict>>

\* _capability_gate, asked only for a mapping.
Gate ==
  /\ Here("gate")
  /\ \/ /\ EntersWith("stop", engine.todo) /\ UNCHANGED outcome
     \/ asked.map /\ Refuse
  /\ UNCHANGED <<asked, container, content, stopped, held, evidence, verdict>>

-----------------------------------------------------------------------------
(* The engine: containers.                                                 *)

\* stop_containers: an error is logged, and the container is not recorded.
\* Stopping the runtime container ends the engine.
StopOne(c) ==
  /\ Here("stop") /\ c \in engine.todo
  /\ \/ /\ container' = [container EXCEPT ![c] = "stopped"]
        /\ stopped' = stopped \union {c}
     \/ UNCHANGED <<container, stopped>>
     \/ /\ container' = [container EXCEPT ![c] = "stopped"]
        /\ UNCHANGED stopped
  /\ IF container'[Runtime] = "stopped" THEN Enters("exited") ELSE Done(c)
  /\ UNCHANGED <<asked, content, held, outcome, evidence, verdict>>

StopsDone ==
  /\ Here("stop") /\ engine.todo = {}
  /\ Enters("download")
  /\ UNCHANGED <<asked, container, content, stopped, held, outcome, evidence,
                 verdict>>

\* start_containers tries each one and raises in the end.
StartOne(c) ==
  /\ Here("start") /\ c \in engine.todo
  /\ \/ /\ container' = [container EXCEPT ![c] = "running"]
        /\ UNCHANGED outcome
     \/ /\ outcome' = [outcome EXCEPT !.ok = FALSE, !.restart = "failed"]
        /\ UNCHANGED container
  /\ Done(c)
  /\ UNCHANGED <<asked, content, stopped, held, evidence, verdict>>

StartsDone ==
  /\ Here("start") /\ engine.todo = {}
  /\ outcome' = [outcome EXCEPT !.restart =
                   IF @ = "failed" THEN @
                   ELSE IF stopped # {} THEN "succeeded" ELSE "notRequested"]
  /\ Enters("write")
  /\ UNCHANGED <<asked, container, content, stopped, held, evidence, verdict>>

-----------------------------------------------------------------------------
(* The engine: the archive and the target.                                 *)

\* The error leaves destructive_state as it is.
Raise ==
  /\ outcome' = [outcome EXCEPT !.ok = FALSE]
  /\ Enters("cleanup")

FetchArchive ==
  /\ Here("download")
  /\ \/ /\ held' = asked.remote /\ Enters("check") /\ UNCHANGED outcome
     \/ asked.remote /\ Raise /\ UNCHANGED held
  /\ UNCHANGED <<asked, container, content, stopped, evidence, verdict>>

Covered == asked.readOnly = Entry

\* A direct restore into a read-only mount is refused before the clearing, and
\* an archive that cannot be decrypted as well.
Check ==
  /\ Here("check")
  /\ \/ Raise
     \/ /\ asked.layout = "direct" /\ ~Covered
        /\ EntersWith("clear", Entry)
        /\ outcome' = [outcome EXCEPT !.destroyed = "partial"]
     \/ /\ asked.layout = "backupDir"
        /\ Enters("extract") /\ UNCHANGED outcome
  /\ UNCHANGED <<asked, container, content, stopped, held, evidence, verdict>>

\* Faulty: the state is noted when the entries have been gone through.
ExtractQuietly ==
  /\ Here("extract")
  /\ \/ EntersWith("walk", Entry) /\ UNCHANGED outcome
     \/ Raise
  /\ UNCHANGED <<asked, container, content, stopped, held, evidence, verdict>>

Extract ==
  /\ Here("extract")
  /\ \/ /\ EntersWith("walk", Entry)
        /\ outcome' = [outcome EXCEPT !.destroyed = "partial"]
     \/ Raise
  /\ UNCHANGED <<asked, container, content, stopped, held, evidence, verdict>>

\* Clearing may fail half way, and does so on a read-only mount below a
\* direct target; the backup-dir layout passes over such a mount.
ClearEntry(e) ==
  /\ engine.at \in {"walk", "clear"} /\ e \in engine.todo
  /\ \/ /\ e \in asked.readOnly /\ Here("walk")
        /\ Done(e) /\ UNCHANGED <<content, outcome>>
     \/ /\ e \notin asked.readOnly
        /\ content' = [content EXCEPT ![e] = "empty"]
        /\ IF Here("walk") /\ e \in asked.archive
           THEN engine' = [engine EXCEPT !.at = "copy"] ELSE Done(e)
        /\ UNCHANGED outcome
     \/ /\ e \notin asked.readOnly
        /\ content' = [content EXCEPT ![e] = "damaged"] /\ Raise
     \/ /\ e \in asked.readOnly /\ Here("clear")
        /\ Raise /\ UNCHANGED content
  /\ UNCHANGED <<asked, container, stopped, held, evidence, verdict>>

CopyEntry(e) ==
  /\ Here("copy") /\ e \in engine.todo /\ content[e] = "empty"
  /\ e \in asked.archive
  /\ \/ /\ content' = [content EXCEPT ![e] = "new"]
        /\ EntersWith("walk", engine.todo \ {e})
        /\ UNCHANGED outcome
     \/ content' = [content EXCEPT ![e] = "damaged"] /\ Raise
  /\ UNCHANGED <<asked, container, stopped, held, evidence, verdict>>

\* tar -x or restic restore over the cleared target.
UnpackEntry(e) ==
  /\ Here("unpack") /\ e \in engine.todo
  /\ \/ /\ content' = [content EXCEPT ![e] = "new"]
        /\ Done(e) /\ UNCHANGED outcome
     \/ content' = [content EXCEPT ![e] = "damaged"] /\ Raise
  /\ UNCHANGED <<asked, container, stopped, held, evidence, verdict>>

EntriesDone ==
  /\ engine.at \in {"walk", "clear", "unpack"} /\ engine.todo = {}
  /\ IF Here("clear") THEN EntersWith("unpack", asked.archive)
     ELSE Enters("chown")
  /\ UNCHANGED <<asked, container, content, stopped, held, outcome, evidence,
                 verdict>>

\* normalize_ownership changes owners only when a mapping was asked for.
Chown ==
  /\ Here("chown")
  /\ \/ /\ Enters("cleanup")
        /\ outcome' = [outcome EXCEPT !.destroyed = "complete"]
     \/ asked.map /\ Raise
  /\ UNCHANGED <<asked, container, content, stopped, held, evidence, verdict>>

\* finally: the download is removed, the containers are started.
Cleanup ==
  /\ Here("cleanup")
  /\ \/ held' = FALSE /\ UNCHANGED outcome
     \/ held /\ outcome' = [outcome EXCEPT !.ok = FALSE] /\ UNCHANGED held
  /\ EntersWith("start", stopped)
  /\ UNCHANGED <<asked, container, content, stopped, evidence, verdict>>

\* _write_restore_result replaces the file in one rename, or fails.
WriteResult ==
  /\ Here("write")
  /\ evidence' \in {outcome, NoEvidence}
  /\ Enters("exited")
  /\ UNCHANGED <<asked, container, content, stopped, held, outcome, verdict>>

-----------------------------------------------------------------------------
(* The worker.                                                             *)

\* Time out or cancellation, which is noticed also when the engine has just
\* ended: the failure carries no evidence.
Kill ==
  /\ verdict = Pending
  /\ Enters(IF Here("exited") THEN "exited" ELSE "killed")
  /\ container' = [container EXCEPT ![Runtime] = "stopped"]
  /\ verdict' = NoEvidence
  /\ UNCHANGED <<asked, content, stopped, held, outcome, evidence>>

\* _read_restore_result; logs beyond the limit turn a success into a failure
\* that keeps the evidence.
ReadResult ==
  /\ verdict = Pending /\ Here("exited")
  /\ \/ verdict' = evidence
     \/ verdict' = [evidence EXCEPT !.ok = FALSE]
  /\ UNCHANGED <<asked, container, content, engine, stopped, held, outcome,
                 evidence>>

RestoreNext ==
  \/ PlanRestore \/ Gate \/ StopsDone \/ StartsDone \/ FetchArchive \/ Check \/ Extract
  \/ EntriesDone \/ Chown \/ Cleanup \/ WriteResult \/ Kill \/ ReadResult
  \/ \E c \in Container : StopOne(c) \/ StartOne(c)
  \/ \E e \in Entry : ClearEntry(e) \/ CopyEntry(e) \/ UnpackEntry(e)

RestoreSpec == RestoreInit /\ [][RestoreNext]_restoreVars

-----------------------------------------------------------------------------
(* Properties.                                                             *)

RestoreTypeOK ==
  /\ asked \in Asked
  /\ container \in [Container -> {"running", "stopped"}]
  /\ content \in [Entry -> {"old", "empty", "new", "damaged"}]
  /\ engine \in [at : Phase \union Point, todo : SUBSET (Container \union Entry)]
  /\ stopped \subseteq Container
  /\ held \in BOOLEAN
  /\ outcome \in Outcome
  /\ evidence \in Outcome \union {NoEvidence}
  /\ verdict \in Outcome \union {NoEvidence, Pending}

Untouched == \A e \in Entry : content[e] = "old"

Restored(e) ==
  content[e] = IF asked.layout = "backupDir" /\ e \in asked.readOnly THEN "old"
               ELSE IF e \in asked.archive THEN "new" ELSE "empty"

\* What the job reports of the target is what became of it: "none" is said
\* only of a target that still is as it was, and a success only of one whose
\* every writable entry was replaced, with read-only mounts left alone and a
\* dry run that touched nothing.  This relates the target to a report that
\* went through the strategy, the service, the result file and the worker,
\* each with failures of its own.
ReportedTargetIsReal ==
  /\ verdict.destroyed = "none" => Untouched
  /\ verdict.ok => IF asked.mode = "dryRun" THEN Untouched
                   ELSE \A e \in Entry : Restored(e)

\* A restore that reports success, or a restart that succeeded, has every
\* container that it recorded as stopped running again, whatever failed
\* between the stop and the end.
RestartReportIsReal ==
  verdict.ok \/ verdict.restart = "succeeded"
    => \A c \in stopped : container[c] = "running"

\* The two together: the job's result tells of the target and of the
\* containers what became of them.
RestoreReportIsReal == ReportedTargetIsReal /\ RestartReportIsReal

=============================================================================
