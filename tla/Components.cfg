\* Each component on a small instance of its own; some of them may stop.
CONSTANTS
  App = {a1, a2}
  Runtime = rt
  Entry = {e1, e2}
  Service = {v1, v2}
  Destination = {d1, d2}
  Download = {f1, f2}
  Chunks = 2
  MaxQueue = 1
  MaxStreams = 1
  MaxRevision = 2
  MaxDisk = 2
  QueueLimit = 1
  LogLimit = 1
  Letter = {la, lb}
  Wide = {lb}
  Broken = Broken
  MaxSecret = 3
  ChunkSize = 2
  LogBytes = 6
  Workload = {w1, w2, w3}
  Mounting = {w1, w2}
  ClusterJob = {j1, j2}
  MaxReplicas = 2
  Secret = {x1}
  Profile = {p1}
  Remote = {ra}
  Clerk = {k1, k2}
  OneOverlap = TRUE
  Reader = {c1, c2}
  Context = {q1, q2}
  MaxEntries = 1
SPECIFICATION ComponentsSpec
CHECK_DEADLOCK FALSE
INVARIANTS
  ComponentsTypeOK
  RestoreReportIsReal
  ReportedBackupIsReal
  SlotsAreInUse
  ServedBodyIsPrefix
  NoChangeIsMissed
  NoSecretIsShown
  SuccessIsRealAndUndone
  ContextNamesTheRepository
  CacheStaysInOrder
PROPERTIES
  ReferencedSecretsExist
  LastCopyIsKept
  OnlyLossLeavesAtZero
