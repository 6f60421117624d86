---------------------------- MODULE MCComponents ----------------------------
(***************************************************************************)
(* Small instances, for TLC, of the modules of the engine and of what the  *)
(* worker and the operators do around it, side by side.  A behaviour is    *)
(* one of one component; the others stay in an initial state of theirs, so *)
(* that the states of the run are the sum of the components' states and    *)
(* not their product.  The components share no variable here; where they   *)
(* depend on each other in the code is said in each module.                *)
(***************************************************************************)
EXTENDS RestoreRun, BackupRun, LiveFile, LiveWatch, LogStream, KubernetesRun,
        Configuration, SnapshotCache

VARIABLE part   \* the component of this behaviour

Plays(p) == part = p

(* Where the components that do not play stay.                             *)
DryRun == [mode |-> "dryRun", layout |-> "direct", cold |-> FALSE,
           map |-> FALSE, remote |-> FALSE, mounts |-> {}, labelled |-> {},
           archive |-> {}, readOnly |-> {}]
HotBackup == [strategy |-> "tar", cold |-> FALSE, gpg |-> FALSE,
              command |-> FALSE, uploads |-> {}]
Word == CHOOSE w \in Words : TRUE

ComponentsInit ==
  /\ part \in {"restore", "backup", "file", "watch", "log", "kubernetes",
               "configuration", "cache"}
  /\ IF Plays("restore") THEN TRUE
     ELSE asked = DryRun /\ container = [c \in Container |-> "running"]
  /\ RestoreInit   \* with containers at rest when none is to be stopped
  /\ asked.cold \/ container = [c \in Container |-> "running"]
  /\ IF Plays("backup") THEN TRUE
     ELSE plan = HotBackup /\ service = [s \in Service |-> "running"]
  /\ BackupInit
  /\ FileInit
  /\ WatchInit
  /\ IF Plays("log") THEN TRUE
     ELSE secrets = <<Word, Word>>
  /\ LogInit
  /\ IF Plays("kubernetes") THEN TRUE
     ELSE replicas = [w \in Workload |-> 1]
  /\ KubernetesInit
  /\ ConfigurationInit
  /\ CacheInit

ComponentsNext ==
  \/ /\ Plays("restore") /\ RestoreNext
     /\ UNCHANGED <<part, backupVars, fileVars, watchVars, logVars,
                    kubernetesVars, configurationVars, cacheVars>>
  \/ /\ Plays("backup") /\ BackupNext
     /\ UNCHANGED <<part, restoreVars, fileVars, watchVars, logVars,
                    kubernetesVars, configurationVars, cacheVars>>
  \/ /\ Plays("file") /\ FileNext
     /\ UNCHANGED <<part, restoreVars, backupVars, watchVars, logVars,
                    kubernetesVars, configurationVars, cacheVars>>
  \/ /\ Plays("watch") /\ WatchNext
     /\ UNCHANGED <<part, restoreVars, backupVars, fileVars, logVars,
                    kubernetesVars, configurationVars, cacheVars>>
  \/ /\ Plays("log") /\ LogNext
     /\ UNCHANGED <<part, restoreVars, backupVars, fileVars, watchVars,
                    kubernetesVars, configurationVars, cacheVars>>
  \/ /\ Plays("kubernetes") /\ KubernetesNext
     /\ UNCHANGED <<part, restoreVars, backupVars, fileVars, watchVars,
                    logVars, configurationVars, cacheVars>>
  \/ /\ Plays("configuration") /\ ConfigurationNext
     /\ UNCHANGED <<part, restoreVars, backupVars, fileVars, watchVars,
                    logVars, kubernetesVars, cacheVars>>
  \/ /\ Plays("cache") /\ CacheNext
     /\ UNCHANGED <<part, restoreVars, backupVars, fileVars, watchVars,
                    logVars, kubernetesVars, configurationVars>>

componentsVars ==
  <<part, restoreVars, backupVars, fileVars, watchVars, logVars,
    kubernetesVars, configurationVars, cacheVars>>

ComponentsSpec == ComponentsInit /\ [][ComponentsNext]_componentsVars

(* The type invariants of all of them. *)
ComponentsTypeOK ==
  /\ RestoreTypeOK
  /\ BackupTypeOK
  /\ FileTypeOK
  /\ WatchTypeOK
  /\ LogTypeOK
  /\ KubernetesTypeOK
  /\ ConfigurationTypeOK
  /\ CacheTypeOK

=============================================================================
