\* Two sessions and one slot; a user's Graph tokens, the firm's Xero tokens or
\* a key; three refresh tokens, two sign-ins, one fault, one switch of a flag.
CONSTANTS
  s1 = s1  s2 = s2
  Sessions = {s1, s2}
  None = None
  Vias = {"graph", "xero", "key"}
  MaxIssued = 2  MaxStarts = 2  MaxFaults = 1
  Slots = 1  MaxPages = 2  MaxToggles = 1
SPECIFICATION Spec
INVARIANTS ActsAudited DeadTokenExplained StateUsedOnce SlotsNeverInCircle
PROPERTIES ModeRespected
CHECK_DEADLOCK FALSE
