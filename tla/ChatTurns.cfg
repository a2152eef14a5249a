\* One turn of up to two rounds with up to two calls each; two editors
\* through the route and one seed command; the prompt has a version or not;
\* one fault.
CONSTANTS
  t1 = t1  e1 = e1  e2 = e2  e3 = e3  seed = seed
  Turns = {t1}
  Editors = {e1, e2, e3}
  Commands = {e3}
  Seed = seed
  None = None
  MaxRounds = 2  MaxCalls = 2  MaxFaults = 1
SPECIFICATION FairSpec
INVARIANTS OneActiveVersion TurnRecorded ConsultedWasActive DoneIsStored
PROPERTIES EditsEnd
CHECK_DEADLOCK FALSE
