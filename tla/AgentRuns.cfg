\* Two replies of up to two tool uses each, one switch by the operator.
CONSTANTS
  Classes <- BuiltIn
  MaxIterations = 2
  MaxCost = 2
  MaxUses = 2
  None = None
  MaxToggles = 1
SPECIFICATION FairSpec
INVARIANTS FinalTraceComplete WritesTraced SpendBounded
PROPERTIES WritesAllowed RunEnds
CHECK_DEADLOCK FALSE
