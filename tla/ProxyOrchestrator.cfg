SPECIFICATION FairSpec
CONSTANTS
  c1 = c1
  c2 = c2
  i1 = i1
  i2 = i2
  p1 = p1
  p2 = p2
  NoId = NoId
  Callers = {c1, c2}
  Ids = {i1, i2}
  Proxies = {p1, p2}
  Setup <- MCSetup
  Group <- MCGroup
  Tools = {"list", "push"}
  RuleBook <- MCRules
  Threshold = 2
  Cooldown = 1
  Admin = 1
INVARIANTS
  ClosedBelowThreshold
  OpenHasDeadline
PROPERTY
  RoundRobinFinds
