CONSTANTS
  Session = {s1, s2}
  MaxKey = 1
  MaxTxn = 2
  Isolation = {"REPEATABLE_READ", "READ_COMMITTED"}
  StoreRaces = TRUE
SPECIFICATION FairSpec
INVARIANTS LockLostByReadBack FlushedBeforeVisible
 
CHECK_DEADLOCK FALSE
