\* Three firms, two of them with one lock key, three sessions, up to three entries.
CONSTANTS
  f1 = f1  f2 = f2  f3 = f3  s1 = s1  s2 = s2  s3 = s3
  Firms = {f1, f2, f3}
  Sessions = {s1, s2, s3}
  Contents = {1}
  Keys = {1, 2}
  KeyOf <- SharedKey
  Hash <- Digest
  GENESIS = GENESIS
  None = None
  MaxId = 3
SPECIFICATION FairSpec
INVARIANTS ChainIntact VerifyAccepts
PROPERTIES HistoryClosed WaiterServed
CHECK_DEADLOCK FALSE
