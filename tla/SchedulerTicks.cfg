\* Two plugins, two toggles, one crash.
CONSTANTS
  p1 = p1  p2 = p2
  Plugins = {p1, p2}
  Fires <- Crons
  None = None
  MaxTime = 3  MaxToggles = 2  MaxFaults = 1
SPECIFICATION FairSpec
INVARIANTS NoTickSkipped DuplicatesExplained OneRunPerTick
PROPERTIES EveryTickFires
CHECK_DEADLOCK FALSE
