CONSTANTS
  Client = {c1, c2}
  MaxLSN = 2
  LogOpens = {TRUE}
SPECIFICATION Spec
SYMMETRY Symmetry
INVARIANTS AckedIsDurable
CHECK_DEADLOCK FALSE
