CONSTANTS
  Session = {s1, s2}
  Line = {"", "BEGIN", "COMMIT", "CHECKPOINT", "LOCKS", "CR", "QUIT ;"}
  MaxLine = 3
  RecvMax = 2
SPECIFICATION Spec
INVARIANTS ExecutesInOrder InStep ServerSurvives
   
CHECK_DEADLOCK FALSE
