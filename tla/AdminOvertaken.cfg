CONSTANTS
  admin = admin
  root = root
  r1 = r1
  r2 = r2
  Name = {admin, root}
  DefaultName = admin
  Request = {r1, r2}
  MaxPasswords = 2
  MaxEdits = 0
  MaxStops = 0
SPECIFICATION Spec
INVARIANTS SessionsAreCurrent
\* Nothing happens any more once the bounds are used up.
CHECK_DEADLOCK FALSE
