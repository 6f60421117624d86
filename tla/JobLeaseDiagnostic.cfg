\* Two handlers at a time on one job: what the source says fails.
CONSTANTS
  Job = {j1}
  Worker = {w1}
  NoWorker = NoWorker
  Request = {r1, r2}
  LeaseDuration = 2
  MaxSeq = 1
SPECIFICATION Spec

PROPERTY DiagnosticKeepsOwnershipAndStatus
