\* Two items in one batch, one request at a time beside the sweep; liveness.
CONSTANTS
  i1 = i1  i2 = i2  u1 = u1  u2 = u2  r1 = r1  r2 = r2  r3 = r3
  SYSTEM = SYSTEM  None = None
  Items = {i1, i2}
  Users = {u1, u2}
  Requests = {r1, r2}
  Payloads = {1}
  Categories <- Emails
  TwoPerson = {}
  Overrides = {}
  MaxFaults = 1
SPECIFICATION FairSpec
PROPERTIES ApprovedReachesOutlook
CHECK_DEADLOCK FALSE
