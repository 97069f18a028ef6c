SPECIFICATION FairSpec
CONSTANTS
  spec = spec
  code = code
  test = test
  review = review
  spec2 = spec2
  extra = extra
  twin = twin
  loop = loop
  other = other
  NoTask = NoTask
  Tasks = {spec, code, spec2}
  Deps <- DepsOf
  RoleOf <- RoleNames
  Profiled <- WithoutCoder
  Panicking = {spec2}
  Reviewer = "Reviewer"
  Planner = "Orchestrator"
  MaxRuns = 2
  Batch <- TwoShort
CHECK_DEADLOCK FALSE
INVARIANTS
  ContextComplete
  MonitorNeverStale
PROPERTIES
  RunReturns
  DispatchedOnce
  OkRunIsComplete
