\* One item, two principals, two requests in flight at once.
CONSTANTS
  i1 = i1  i2 = i2  u1 = u1  u2 = u2  r1 = r1  r2 = r2  r3 = r3
  SYSTEM = SYSTEM  None = None
  Items = {i1}
  Users = {u1, u2}
  Requests = {r1, r2}
  Payloads = {1, 2}
  Categories <- Letters
  TwoPerson <- Sensitive
  Overrides = {}
  MaxFaults = 0
SPECIFICATION Spec
PROPERTIES RejectionIsTerminal
CHECK_DEADLOCK FALSE
