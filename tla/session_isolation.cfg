SPECIFICATION Spec
CONSTANTS
  r1 = r1
  r2 = r2
  r3 = r3
  anon = anon
  operator = operator
  Request <- Requests
  Owner = {anon, operator}
  OwnerOf <- Principals
  Chosen = {made_up}
  NoId = NoId
  MaxSessions = 2
  Ttl = 2
  MaxNow = 5
INVARIANTS Isolation OneOwner
PROPERTIES FreshContext
CHECK_DEADLOCK FALSE
