\* Two workers, a message announced twice and a manual event; fault and expiry.
CONSTANTS
  p1 = p1  p2 = p2  w1 = w1  w2 = w2
  created = created  updated = updated  manual = manual  m1 = m1
  Plugins = {p1, p2}
  Events = {created, updated, manual}
  Listeners <- Registered
  Keys = {m1}
  KeyOf <- Tokens
  NoKey = NoKey
  Workers = {w1, w2}
  NoEvent = NoEvent
  MaxSent = 3
  MaxFaults = 1
  MaxExpiries = 1
SPECIFICATION FairSpec
INVARIANTS OneRunPerClaim OneResultPerRun NothingLostSilently
PROPERTIES EveryPluginGetsItsTurn
CHECK_DEADLOCK FALSE
