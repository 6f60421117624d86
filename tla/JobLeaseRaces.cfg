\* Two handlers at a time over two jobs and two workers.
CONSTANTS
  Job = {j1, j2}
  Worker = {w1, w2}
  NoWorker = NoWorker
  Request = {r1, r2}
  LeaseDuration = 2
  MaxSeq = 2
SPECIFICATION Spec
SYMMETRY Symmetry
INVARIANTS
  TypeOK
  GrantedAtMostOnce
  RunningJobIsLeased
  NoLeaseOutlivesItsGrant
  CancelReachesWorker
PROPERTIES
  OnlyStaleSavesUndo
