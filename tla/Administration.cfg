CONSTANTS
  Worker = {s1, s2}
  Window = 1
  WindowLimit = 3
  FailWindow = 3
  LockSpan = 2
  MaxFailures = 1
  Hashing = 1
  MaxRefused = 1
  MaxTime = 5
  Name = {admin, root}
  DefaultName = admin
  Request = {s1, s2}
  AccountPasswords = 4
  AccountEdits = 1
  AccountStops = 2
  AuditPassword = {first, second}
  AuditEntries = 5
  AuditStops = 2
  AuditHarm = 2
  User = {u1, u2}
  ConsoleSlot = {s1}
  MaxAsks = 2
  PagerSlot = {s1, s2, s3}
  MaxPage = 3
  ListFilter = {{1, 2, 3, 4, 5, 6}, {1, 3, 5}, {4, 5, 6}}
  ListLimit = 2
  ListStored = 6
SPECIFICATION Spec
INVARIANTS TypeOK LimitsHold CredentialsSurvive PageTellsTruth
PROPERTY AuditIsTrusted
\* The parts are bounded, and stop when their bounds are used up.
CHECK_DEADLOCK FALSE
