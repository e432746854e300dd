SPECIFICATION MCSpec
CONSTANTS
  None = None
  Declared <- MCDeclared
  Restartable = {"nginx"}
  TempIn <- MCTempIn
  Request = {1, 2, 3}
  Queries <- MCAsks
  Answer <- MCAnswer
  Misshapen <- MCMisshapen
  Pids = {1, 8}
  PidClass <- MCPidClass
  PathClass <- MCPathClass
  Cwd = "cwd"
  MaxRounds = 2
INVARIANT LiteralTargets
CHECK_DEADLOCK FALSE
