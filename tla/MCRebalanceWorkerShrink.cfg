\* One course, nothing fails: a trigger is lost between the rebalance and the
\* clearing of the pending mark.
CONSTANTS
  Course = {c1}
  QueueSize = 2
  MaxEdits = 2
  MaxFailures = 0
  MaxRestarts = 0
  None = None
SPECIFICATION Spec
PROPERTIES
  EventuallyShrunk
CHECK_DEADLOCK FALSE
