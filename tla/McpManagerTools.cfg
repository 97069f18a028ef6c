SPECIFICATION FairSpec
CONSTANTS
  Configs = {fs}
  Keys = {npx}
  Callers = {c1}
  Manager = Manager
  Nobody = Nobody
  AutoReconnect = {fs}
  Clients = {k1, k2, k3}
  Room = 1
  MaxAttempts = 2
  MaxTroubles = 1
PROPERTIES
  ToolsRecover
CHECK_DEADLOCK FALSE
