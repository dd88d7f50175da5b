\* One task, two uploads at once, two tags, a failure and a crash.
CONSTANTS
  t1 = t1
  own1 = own1
  own2 = own2
  Request = {r1, r2}
  Task = {t1}
  File = {own1}
  Pattern <- OnePattern
  Limit <- LimitTwo
  Branch = {master}
  Tag = {v1, v2}
  Master = master
  Session = Session
  None = None
  MaxCommits = 3
  MaxFailures = 1
  MaxCrashes = 1
SPECIFICATION Spec
SYMMETRY Symmetry
INVARIANTS
  TypeOK
  AttemptsReachable
  OneAttemptEach
PROPERTIES
  PushWithinLimit
CHECK_DEADLOCK FALSE
