SPECIFICATION SchedulerSpec
CONSTANTS
  LastInstant = 6
  ChangeAt = 2
  Shift = 2
  Pace = 2
  Intervals = {1, 2, 3}
INVARIANT PreviewIsNextMatch
CHECK_DEADLOCK FALSE
