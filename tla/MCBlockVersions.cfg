\* One task block, edited in drafts and directly, as the users see it.
CONSTANTS
  Teacher = {ann, bob}
  Block = {lab}
  TaskBlock = {lab}
  Data = {x, y}
  Group = {g}
  TaskName = {n}
  MaxPosition = 2
  MaxVersion = 4
  MaxCheckpoints = 3
  Absent = Absent
SPECIFICATION Spec
SYMMETRY Symmetry
CONSTRAINT BeforeLastCheckpoint
INVARIANTS
  TypeOK
  OneDraftPerAuthor
  DraftsAnchored
  LatestCheckpointIsPublished
  CheckpointsRestorable
PROPERTIES
  PublishedKept
  PublishedOnTop
  NoBlindDelete
  DeletedUntilRestored
  RestoreYieldsCheckpoint
  RebalanceKeepsConflicts
  ImplementsCourse
  NoLostUpdate
CHECK_DEADLOCK FALSE
