CONSTANTS
  LenMod = 4
  KeyLength = {1}
  ValueLength = {1, 4}
  MaxRecord = 3
  MaxTruncate = 1
  MaxCrash = 1
  MaxEntry = 2
SPECIFICATION Spec
INVARIANTS RecoverReadsBack NothingInvented TruncatedAsAbstracted SnapshotLoads
CHECK_DEADLOCK FALSE
