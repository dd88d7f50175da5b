\* Two teachers draft tasks of one name in one group and publish them.
CONSTANTS
  Teacher = {ann, bob}
  Block = {quiz, lab}
  TaskBlock = {quiz, lab}
  Data = {x}
  Group = {g}
  TaskName = {n}
  MaxPosition = 1
  MaxVersion = 3
  MaxCheckpoints = 3
  Absent = Absent
SPECIFICATION Spec
SYMMETRY Symmetry
INVARIANTS
  TaskNamesUnique
CHECK_DEADLOCK FALSE
