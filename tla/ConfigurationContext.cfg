\* An rclone profile without a file of its own; the code is known to err.
CONSTANTS
  Secret = {x1}
  Profile = {p1}
  Remote = {ra}
  Clerk = {k1}
  OneOverlap = FALSE
SPECIFICATION ConfigurationSpec
INVARIANT RepositoryIsExact
