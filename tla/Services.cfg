SPECIFICATION Spec
CONSTANTS
  Agents = {a1, a2}
  MaxConcurrent = 1
  MaxTurns = 1
  MaxShutdowns = 1
  MaxDisturbances = 2
  Calls = {c1, c2, c3}
  Disconnects = {d1, d2}
  MaxClients = 3
  ProcNames = {dev, web}
  MaxProcs = 4
  Capacity = 3
  MaxLines = 8
  PiProcs = {p1, p2}
  MaxTokens = 2
  Languages = {"ts", "js", "py"}
  ServerName <- ServerProgram
  MaxManagers = 2
  MaxServers = 4
  TaskScopes <- MCTaskScopes
CHECK_DEADLOCK FALSE
INVARIANTS
  ServicesTypeOK
  SubagentsSafe
  PoolCoherent
  BackgroundKept
  LockProtects
  SharedServer
  TasksKept
