CONSTANTS
  Client = {c1}
  MaxLSN = 2
  LogOpens = {TRUE}
SPECIFICATION FairSpec
PROPERTIES CommitReturns
CHECK_DEADLOCK FALSE
