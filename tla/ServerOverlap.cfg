\* The files as RecoveryManager's parameters name them; ServerWired.cfg has
\* them as Server::start passes them.
CONSTANTS
  Session = {s1, s2}
  Requester = {r1}
  MaxKey = 1
  MaxBegin = 2
  MaxCheckpoint = 1
  MaxCrash = 1
  data_file = "data/data.db"
  wal_file = "wal/wal.log"
  Overlap = TRUE
  MisreadFits = FALSE
SPECIFICATION Spec
SYMMETRY Symmetry
PROPERTY RestartRestores
CHECK_DEADLOCK FALSE
