SPECIFICATION FairSpec
CONSTANTS
  loop = loop
  single = single
  Loops = {loop}
  Singles = {single}
  Workflows <- Definitions
  MaxIterations = 6
  MaxResults = 12
INVARIANTS
  PathLegal
  RetriesBounded
  OkHasEnded
PROPERTIES
  OnlyStaleUndo
  CallsReturn
CHECK_DEADLOCK FALSE
