\* Two jobs in a batch, one of them a probe, any number of crashes, lost and
\* late reports; no symmetry, because of the liveness properties.
CONSTANTS
  Job = {j1, j2}
  NoJob = NoJob
  Probe = {j2}
SPECIFICATION Spec
INVARIANTS
  TypeOK
PROPERTIES
  ExecutionSpec
  JournalKeptUntilSettled
  EndedContainersAreRemoved
  EveryClaimEnds
