CONSTANTS
  MaxSources = 3
  MaxFaults = 2
  MaxEvents = 0
  MaxLogins = 1
SPECIFICATION FairSpec
PROPERTIES Reconnects
\* Nothing happens any more once the bounds are used up.
CHECK_DEADLOCK FALSE
