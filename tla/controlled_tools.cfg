SPECIFICATION ToolsSpec
CONSTANTS
  Call = {"c1", "c2"}
  Request <- MCRequest
  Pid = {"q1", "qs"}
  NoPid = "none"
  ReservedPid = {"qs"}
  Process = {"self", "worker", "crond", "rootd"}
  NoProcess = "nobody"
  Self = "self"
  Owner <- MCOwner
  Name = {"worker", "crond", "uvicorn", "mysqld"}
  NoName = "any"
  NameOf <- MCNameOf
  ProtectedUser = {"root"}
  ProtectedName = {"crond"}
  Service = {"nginx", "sshd", "software-cup-ops"}
  NoService = "none"
  Allowlist = {"nginx", "software-cup-ops"}
  OwnService = "software-cup-ops"
  User = {"root", "agent"}
  AgentUser = "agent"
  Host <- MCHost
  Cleaner = {c}
  Item = {i1, i2}
  Limit = {1, 2}
  MaxTouches = 2
INVARIANTS ProtectedSafe ReportTrue AgentSurvives CleanReportTrue
PROPERTIES  RemovesJudged
CHECK_DEADLOCK FALSE
