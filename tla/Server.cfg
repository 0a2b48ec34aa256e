CONSTANTS
  x = x
  y = y
  z = z
  u = u
  v = v
  s1 = s1
  s2 = s2
  Account = {x, y, z}
  First = {x, y}
  Name = {"none", "a", "b", "c"}
  FirstNames = {"a", "b"}
  NamesRenames = 2
  NamesStops = 2
  User = {u, v}
  Slot = {s1, s2}
  LogRows = 2
  LogQueue = 3
  LogBatch = 2
  LogCache = 1
  LogMetas = 2
  LogRenames = 2
  LogFailures = 1
  LogCrashes = 1
  Session = {s1, s2}
  Ttl = 5
  Absolute = 6
  Activity = 2
  Debounce = 1
  MaxTime = 6
  SessionsFails = 1
  SessionsStops = 1
SPECIFICATION Spec
INVARIANTS TypeOK NamesBelong BlocksAreRespected LogIsComplete SessionsSurviveRestarts
SYMMETRY Symmetry
\* The parts are bounded, and stop when their bounds are used up.
CHECK_DEADLOCK FALSE
