CONSTANTS
  Account = {a1, a2}
  Name = {n1, n2, n3}
  Session = {s1, s2}
  Ticket = {t1}
  Conn = {k1, k2}
  None = None
  MaxConnections = 2
SPECIFICATION Spec
INVARIANTS NoGhosts
SYMMETRY Symmetry
