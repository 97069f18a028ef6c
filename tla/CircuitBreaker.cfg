SPECIFICATION FairSpec
CONSTANTS
  r1 = r1
  r2 = r2
  r3 = r3
  Requests = {r1, r2, r3}
  FailureThreshold = 2
  SuccessThreshold = 2
  RecoveryTimeout = 2
  Admin = 1
INVARIANTS
  ClosedIsHealthy
  OpenCanRecover
PROPERTIES
  Recovers
  CutsOff
