CONSTANTS
  MaxMsg = 2
  Attachment = {}
  MaxLosses = 0
  MaxDrops = 2
  MaxRetries = 0
  MaxLoads = 0
SPECIFICATION FairSpec
PROPERTIES PromiseKept
\* Everything is written and confirmed, and the bounds are used up.
CHECK_DEADLOCK FALSE
