SPECIFICATION Spec
CONSTANTS
  r1 = r1
  r2 = r2
  s1 = s1
  plain = plain
  docker = docker
  NoCall = NoCall
  Runs = {r1, r2}
  Sessions = {s1}
  SessionOf <- OneSession
  MaxTurns = 2
  MaxCalls = 1
  Guarded = {docker}
  ToolUses <- UseGuarded
  Ids <- Positions
  TaskId <- PositionId
  Budget = 2
INVARIANTS
  OnlyApprovedRun
CHECK_DEADLOCK FALSE
