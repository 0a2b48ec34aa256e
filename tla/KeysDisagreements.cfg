CONSTANTS
  d1 = d1
  d2 = d2
  Device = {d1, d2}
  MaxPasswords = 2
  MaxKeys = 2
  MaxLogins = 3
  MaxReloads = 0
SPECIFICATION Spec
INVARIANTS OldPasswordIsOut ReloginRestores KeyIsKept
\* Nothing happens any more once the bounds are used up.
CHECK_DEADLOCK FALSE
