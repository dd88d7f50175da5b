\* Three courses for a queue of two, a failure and a restart.
CONSTANTS
  Course = {c1, c2, c3}
  QueueSize = 2
  MaxEdits = 4
  MaxFailures = 1
  MaxRestarts = 1
  None = None
SPECIFICATION Spec
INVARIANTS
  TypeOK
  PendingExact
PROPERTIES
  PendingEnds
  QueuedIsServed
CHECK_DEADLOCK FALSE
