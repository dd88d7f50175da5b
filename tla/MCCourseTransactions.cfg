\* Two transactions at a time, on a task block alone or beside another block.
CONSTANTS
  Teacher = {ann, bob}
  Block = {intro, lab}
  TaskBlock = {lab}
  Data = {x, y}
  Group = {g}
  TaskName = {n}
  MaxPosition = 2
  MaxVersion = 3
  MaxCheckpoints = 3
  Absent = Absent
  None = None
  Kept = Kept
  Connection = {c1, c2}
SPECIFICATION TxSpec
SYMMETRY Symmetry
CONSTRAINT Explored
INVARIANTS
  OneDraftPerAuthor
  LatestCheckpointIsPublished
  PublishedHasTask
PROPERTIES
  CommitsImplementCourse
  ExclusiveUndisturbed
  ExclusiveAtomic
  ExclusiveKeepsGroups
  PublishAllOrNothing
  OthersDraftsKept
CHECK_DEADLOCK FALSE
