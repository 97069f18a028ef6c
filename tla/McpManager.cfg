SPECIFICATION FairSpec
CONSTANTS
  Configs = {fs}
  Keys = {npx}
  Callers = {c1}
  Manager = Manager
  Nobody = Nobody
  AutoReconnect = {fs}
  Clients = {k1, k2, k3}
  Room = 1
  MaxAttempts = 2
  MaxTroubles = 2
INVARIANTS
  OwnAnswer
  AnswerOnTheWay
PROPERTIES
  RoundAdvances
  CallsEnd
  Heals
CHECK_DEADLOCK FALSE
