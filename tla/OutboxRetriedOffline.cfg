CONSTANTS
  MaxMsg = 1
  Attachment = {}
  MaxLosses = 1
  MaxDrops = 1
  MaxRetries = 1
  MaxLoads = 0
SPECIFICATION FairSpec
PROPERTIES PromiseKept
\* Everything is written and confirmed, and the bounds are used up.
CHECK_DEADLOCK FALSE
