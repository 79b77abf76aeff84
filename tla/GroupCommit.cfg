\* Two committers, and records enough for two batches of two.
CONSTANTS
  Client = {c1, c2}
  MaxLSN = 4
  LogOpens = {TRUE, FALSE}
SPECIFICATION FairSpec
INVARIANTS TypeOK AckWindowIsOneBatch StopIsClean CommitComesLast
PROPERTIES ImplementsCommitLog LoggedIsSynced PredicateComesTrue
\* After Stop, and once all records are logged, everything may be over.
CHECK_DEADLOCK FALSE
