CONSTANTS
  MaxMsg = 2
  MaxHistory = 2
  PageSize = 1
  MaxRemovals = 1
  MaxLoads = 2
  MaxDrops = 0
SPECIFICATION Spec
INVARIANTS DeletedGone
\* Messages, removals, loads and drops are bounded.
CHECK_DEADLOCK FALSE
