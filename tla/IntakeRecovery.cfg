\* A message and a draft, one update and one fault.
CONSTANTS
  m1 = m1  d1 = d1  e1 = e1
  Items = {m1, d1}
  FolderOf <- Places
  Folders = {"inbox"}
  Never = Never  None = None
  ClaimTTL = 2
  Top = 2
  MaxTime = 3  MaxUpdates = 1  MaxFaults = 1
SPECIFICATION FairSpec
INVARIANTS BackfillKeepsWindow
PROPERTIES MarkedMailRuns ClearedAfterCatchUp
CHECK_DEADLOCK FALSE
