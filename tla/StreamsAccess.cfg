CONSTANTS
  Account = {a1, a2}
  Name = {n1, n2, n3}
  Session = {s1, s2, s3}
  Ticket = {t1, t2}
  Conn = {k1, k2, k3}
  None = None
  MaxConnections = 2
SPECIFICATION Spec
INVARIANTS TypeOK StreamsAuthorized TicketsLive BannedCutOff BucketsSound LimitRespected NamesOwned
SYMMETRY Symmetry
