\* Each component on a small instance of its own; some of them may stop.
CONSTANTS
  Publisher = {p1, p2}
  Stream = {v1}
  QueueSize = 1
  MaxVersion = 3
  Caller = {t1, t2}
  OfflineAfter = 1
  Job = {j1}
  Worker = {w1}
  NoWorker = NoWorker
  Request = {r1, r2}
  LeaseDuration = 2
  MaxSeq = 1
  Sync = {s1, s2}
  Responder = {h1, h2}
  MaxChange = 2
  Deployment <- Deployments
  LastInstant = 6
  ChangeAt = 2
  Shift = 2
  Pace = 2
  Intervals = {1, 2, 3}
  User = {u1, u2}
  Admin = u1
  Password = {y1}
  Scribe = {g1, g2}
SPECIFICATION ServicesSpec
CHECK_DEADLOCK FALSE
INVARIANTS
  ServicesTypeOK
  EndedStreamShowedOutcome
  CatalogFollows
  PreviewExactOutsideFirstPass
  RestartFindsTheUsers
PROPERTIES
  StreamCatchesUp
  RevokedWorkerFadesOut
  AbandonedJobEnds
  OneRunPerReading
