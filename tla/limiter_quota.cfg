SPECIFICATION Spec
CONSTANTS
  op = op
  fake = fake
  h1 = h1
  h2 = h2
  Token = {op, fake}
  Known = {op}
  Host = {h1, h2}
  NoToken = NoToken
  Client <- Clients
  Limit = 2
  Window = 1
  MaxKeys = 2
  MaxConcurrent = 1
  Scale = 2
  MaxNow = 4
  MaxSent = 4
INVARIANTS MemoryBound Quota GateExact
PROPERTIES RetryHonest
CHECK_DEADLOCK FALSE
