\* The files as Server::start passes them (server.cpp:38).
CONSTANTS
  Session = {s1, s2}
  Requester = {r1}
  MaxKey = 1
  MaxBegin = 1
  MaxCheckpoint = 0
  MaxCrash = 1
  data_file = "wal/wal.log"
  wal_file = "data/data.db"
  Overlap = FALSE
  MisreadFits = FALSE
SPECIFICATION Spec
SYMMETRY Symmetry
PROPERTY RestartRestores
CHECK_DEADLOCK FALSE
