\* Two teachers and three blocks over a small alphabet.
CONSTANTS
  ann = ann
  bob = bob
  Teacher = {ann, bob}
  Block = {1, 2, 3}
  Base = 4
  Digits = 2
  MaxLength = 4
  MaxEdits = 4
  MaxCheckpoints = 2
  MaxRebalances = 1
SPECIFICATION Spec
SYMMETRY Symmetry
INVARIANTS
  TypeOK
PROPERTIES
  PutsRightAfter
  RebalanceKeepsOrder
CHECK_DEADLOCK FALSE
