CONSTANTS
  Session = {s1, s2}
  MaxKey = 2
  MaxTxn = 3
  Isolation = {"REPEATABLE_READ", "READ_COMMITTED"}
  StoreRaces = FALSE
  Scenario = {"counter", "rmw", "deadlock", "crash", "writer", "reader", "setter", "reader_rc", "reader_rr"}
  Connected = {TRUE, FALSE}
SPECIFICATION ChaosSpec
SYMMETRY Symmetry
INVARIANTS ProgramsAreSerial  ReadersPass UnconnectedVerdict
CHECK_DEADLOCK FALSE
