SPECIFICATION FairSpec
CONSTANTS
  r1 = r1
  r2 = r2
  s1 = s1
  plain = plain
  docker = docker
  NoCall = NoCall
  Runs = {r1, r2}
  Sessions = {s1}
  SessionOf <- OneSession
  MaxTurns = 2
  MaxCalls = 2
  Guarded = {docker}
  ToolUses <- UseBoth
  Ids <- Calls
  TaskId <- OwnId
  Budget = 2
INVARIANTS
  OnlyApprovedRun
  SenderKept
  PendingAccounted
  OverdrawnOnce
  SequentialHistory
PROPERTIES
  OnlyForward
  ImplementsGate
  MessagesEnd
CHECK_DEADLOCK FALSE
