CONSTANTS
  MaxMsg = 1
  Attachment = {1}
  MaxLosses = 1
  MaxDrops = 0
  MaxRetries = 1
  MaxLoads = 0
SPECIFICATION Spec
INVARIANTS FailedIsRetryable
\* Everything is written and confirmed, and the bounds are used up.
CHECK_DEADLOCK FALSE
