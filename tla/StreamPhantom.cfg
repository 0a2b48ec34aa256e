CONSTANTS
  MaxSources = 3
  MaxFaults = 2
  MaxEvents = 2
  MaxLogins = 1
SPECIFICATION Spec
INVARIANTS NoPhantom
\* Nothing happens any more once the bounds are used up.
CHECK_DEADLOCK FALSE
