\* A message, an event and their two folders: a renewal before the backfill.
CONSTANTS
  m1 = m1  d1 = d1  e1 = e1
  Items = {m1, e1}
  FolderOf <- Places
  Folders = {"inbox", "calendar"}
  Never = Never  None = None
  ClaimTTL = 2
  Top = 2
  MaxTime = 2  MaxUpdates = 0  MaxFaults = 0
SPECIFICATION Spec
INVARIANTS MissedMailRecoverable
CHECK_DEADLOCK FALSE
