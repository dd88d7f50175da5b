\* One task with one attempt left: an upload is counted before it is locked.
CONSTANTS
  t1 = t1
  own1 = own1
  own2 = own2
  Request = {r1, r2}
  Task = {t1}
  File = {own1}
  Pattern <- OnePattern
  Limit <- LimitOne
  Branch = {master}
  Tag = {v1}
  Master = master
  Session = Session
  None = None
  MaxCommits = 3
  MaxFailures = 0
  MaxCrashes = 0
SPECIFICATION Spec
INVARIANTS
  LimitRespected
CHECK_DEADLOCK FALSE
