CONSTANTS
  MaxSources = 4
  MaxFaults = 2
  MaxEvents = 0
  MaxLogins = 1
SPECIFICATION FairSpec
PROPERTIES RefreshRetried
\* Nothing happens any more once the bounds are used up.
CHECK_DEADLOCK FALSE
