CONSTANTS
  Name = {n1, n2, n3, n4}
  MaxRenames = 3
  MaxReloads = 1
  MaxSent = 1
  MaxLoads = 1
SYMMETRY NamesAreAlike
SPECIFICATION Spec
INVARIANTS PinsMove HistoryOpens ListIsCurrent
