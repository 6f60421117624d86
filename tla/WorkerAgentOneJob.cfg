\* The next job begins while the container of another one still runs.
CONSTANTS
  Job = {j1, j2}
  NoJob = NoJob
  Probe = {j2}
SPECIFICATION Spec
INVARIANT OneJobAtATime
