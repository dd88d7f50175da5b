\* A task of two files: uploads and git sessions contend for the lock, with a
\* crash.
CONSTANTS
  t1 = t1
  own1 = own1
  own2 = own2
  Request = {r1, r2}
  Task = {t1}
  File = {own1, own2}
  Pattern <- BothFiles
  Limit <- LimitTwo
  Branch = {master}
  Tag = {v1}
  Master = master
  Session = Session
  None = None
  MaxCommits = 2
  MaxFailures = 0
  MaxCrashes = 1
SPECIFICATION FairSpec
INVARIANTS
  WebAttemptsReplace
PROPERTIES
  UploadsEnd
CHECK_DEADLOCK FALSE
