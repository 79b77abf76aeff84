CONSTANTS
  Session = {s1, s2}
  MaxKey = 2
  MaxTxn = 2
  Isolation = {"REPEATABLE_READ"}
  StoreRaces = FALSE
SPECIFICATION Spec
SYMMETRY Symmetry
INVARIANTS TypeOK WritesAreLocked ReadsAreCurrent StoreIsReplay NoLeakedLock
CHECK_DEADLOCK FALSE
