CONSTANTS
  alice = alice
  bob = bob
  c1 = c1
  c2 = c2
  c3 = c3
  n1 = n1
  n2 = n2
  n3 = n3
  i1 = i1
  i2 = i2
  i3 = i3
  Empty = Empty
  User = {alice, bob}
  ClientId = {c1, c2}
  Nonce = {n1, n2}
  Id = {i1, i2}
  InitialLog <- NoRows
  InitialJson <- OneRow
  MaxMarks = 1
  MaySend = {alice}
  MayBlock <- NoBlocks
  MayConnect = {}
  MayReply = FALSE
SPECIFICATION Spec
PROPERTIES DurableNeverForgets
CONSTRAINT Bounded
SYMMETRY Symmetry
\* The instance has a bounded number of messages and marks.
CHECK_DEADLOCK FALSE
