\* Two task blocks of one group, and two transactions at a time.
CONSTANTS
  Teacher = {ann, bob}
  Block = {quiz, lab}
  TaskBlock = {quiz, lab}
  Data = {x}
  Group = {g}
  TaskName = {n}
  MaxPosition = 1
  MaxVersion = 2
  MaxCheckpoints = 1
  Absent = Absent
  None = None
  Kept = Kept
  Connection = {c1, c2}
SPECIFICATION TxSpec
SYMMETRY Symmetry
INVARIANTS
  GroupsFollowTasks
CHECK_DEADLOCK FALSE
