SPECIFICATION FairSpec
CONSTANTS
  spec = spec
  code = code
  test = test
  review = review
  spec2 = spec2
  extra = extra
  twin = twin
  loop = loop
  other = other
  NoTask = NoTask
  Tasks = {spec, code, test, review, extra, other, loop}
  Deps <- DepsOf
  RoleOf <- RoleNames
  Profiled <- WithoutCustom
  Panicking = {extra}
  Reviewer = "Reviewer"
  Planner = "Orchestrator"
  MaxRuns = 1
  Batch <- OneRun
CHECK_DEADLOCK FALSE
INVARIANTS
  CompletedLogExact
PROPERTIES
  ImplementsTaskGraph
  RunReturns
