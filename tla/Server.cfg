\* The files as RecoveryManager's parameters name them; ServerWired.cfg has
\* them as Server::start passes them.
CONSTANTS
  Session = {s1, s2}
  Requester = {r1, r2}
  MaxKey = 2
  MaxBegin = 2
  MaxCheckpoint = 2
  MaxCrash = 1
  data_file = "data/data.db"
  wal_file = "wal/wal.log"
  Overlap = FALSE
  MisreadFits = FALSE
SPECIFICATION Spec
SYMMETRY Symmetry
PROPERTIES  SnapshotIsWhole
CHECK_DEADLOCK FALSE
