\* Three transactions: a holder, and two waiters that can overtake each other.
CONSTANTS
  Txn = {t1, t2, t3}
  Key = {k1, k2}
  NoKey = NoKey
SPECIFICATION FairSpec
INVARIANTS TypeOK MutualExclusion WaitersMatchCalls GrantIsHeld EntriesAreLocks
PROPERTIES NoPreemption NoOvertaking  BlockedCallReturns
