\* Two users with a box each, three faults.
CONSTANTS
  b1 = b1  b2 = b2  u1 = u1  u2 = u2  s1 = s1  s2 = s2  s3 = s3  s4 = s4  s5 = s5  s6 = s6  s7 = s7  s8 = s8
  Boxes = {b1, b2}
  Users = {u1, u2}
  OwnerOf <- OwnBoxes
  Subs = {s1, s2, s3, s4, s5, s6, s7, s8}
  Nothing = Nothing  Same = Same  Deleted = Deleted
  TTL = 3
  Buffer = 1
  MaxFaults = 3
SPECIFICATION FairSubSpec
INVARIANTS StraysExplained NoGaps
PROPERTIES EveryBoxCovered DeactivatedFallSilent
CHECK_DEADLOCK FALSE
