SPECIFICATION FairSpec
CONSTANTS
  r1 = r1
  r2 = r2
  r3 = r3
  t1 = t1
  t2 = t2
  Requests = {r1, r2, r3}
  Ids = {t1, t2}
INVARIANTS
  HistoryLegal
  WorkingIsHandled
PROPERTIES
  OnlyStaleWritesLose
  WorkEnds
\* every request is served once
CHECK_DEADLOCK FALSE
