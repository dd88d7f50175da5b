\* Three users who invite each other and join at once, or list the courses.
CONSTANTS
  User = {ann, bob, eve}
  Course = {1, 2, 3}
  Name = {1, 2}
  Discipline = {d, e}
  Invite = {i, j}
  Call = {k, l}
  PageSize = 1
  None = None
SPECIFICATION Spec
SYMMETRY Symmetry
CONSTRAINT Explored
INVARIANTS
  RolesAgree
  InvitersTeach
  ActorsEntitled
  PagesGapless
CHECK_DEADLOCK FALSE
