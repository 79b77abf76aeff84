------------------------ MODULE SerializabilityProofs ------------------------
(* Proofs about TransactionManager, for any number of sessions, keys and   *)
(* transactions: under REPEATABLE_READ two-phase locking makes the         *)
(* transactions serializable, in the order of their COMMIT records.        *)
EXTENDS TransactionManagerProofs, ReplayProofs

\* What the table tab says: t holds k, in whatever mode.
holds(tab, t, k) == k \in DOMAIN tab /\ t \in tab[k].holders

\* The keys that a transaction in the call o, with the history r, has read or
\* has locked to read.
reading(o, r) == DOMAIN r \cup IF o.kind = "read" THEN {o.key} ELSE {}

\* It holds them all.
ReadOK(x, o, r, tab) == \A k \in reading(o, r) : holds(tab, x.id, k)

RInv ==
  \A s \in Session :
    /\ txn[s].state = "ACTIVE" => ReadOK(txn[s], op[s], reads[s], lock_table)
    /\ txn[s].state # "ACTIVE" => reads[s] = NoMap

-----------------------------------------------------------------------------
(* No lock on what was read is lost.                                       *)

\* Holding a key is having at least a SHARED lock on it.
LEMMA HoldsIsHasLock ==
  ASSUME NEW t, NEW k
  PROVE  /\ LM!hasLock(t, k, "SHARED") <=> holds(lock_table, t, k)
         /\ LM!hasLock(t, k, "SHARED")' <=> holds(lock_table', t, k)
  BY DEF holds, LM!hasLock, LM!entryOf, LM!NewEntry

\* A step of one transaction takes nothing from another.
LEMMA HoldsKept ==
  ASSUME LM!IInv, NEW t \in TxnId, NEW w \in TxnId, w # t, LM!StepOf(t),
         NEW k, holds(lock_table, w, k)
  PROVE  holds(lock_table', w, k)
<1>1. \A j, m : LM!hasLock(w, j, m) => LM!hasLock(w, j, m)'
  BY NoKeyOK, LM!StepKeepsOthers
<1>2. LM!hasLock(w, k, "SHARED")
  BY HoldsIsHasLock
<1>3. LM!hasLock(w, k, "SHARED")'
  BY <1>1, <1>2
<1> QED BY <1>3, HoldsIsHasLock

\* acquireLock takes nothing from its caller, and gives it what it asks for.
LEMMA AcquireHolds ==
  ASSUME LM!IInv, NEW t \in TxnId, NEW k \in Key, NEW m \in {"SHARED", "EXCLUSIVE"}
  PROVE  /\ (\/ Locks!AcquireHeld(t, k, m) \/ Locks!AcquireUpgrade(t, k, m)
             \/ Locks!AcquireGrant(t, k, m) \/ Locks!AcquireWait(t, k, m)) =>
               \A j : holds(lock_table, t, j) => holds(lock_table', t, j)
         /\ (\/ Locks!AcquireHeld(t, k, m) \/ Locks!AcquireUpgrade(t, k, m)
             \/ Locks!AcquireGrant(t, k, m)) =>
               (m = "SHARED" => holds(lock_table', t, k))
<1>1. m \in LM!RequestMode
  BY DEF LM!RequestMode
<1>2. ASSUME NEW j, holds(lock_table, t, j),
             \/ Locks!AcquireHeld(t, k, m) \/ Locks!AcquireUpgrade(t, k, m)
             \/ Locks!AcquireGrant(t, k, m) \/ Locks!AcquireWait(t, k, m)
      PROVE  holds(lock_table', t, j)
  <2>1. LM!hasLock(t, j, "SHARED")
    BY <1>2, HoldsIsHasLock
  <2>2. \/ LM!AcquireHeld(t, k, m) \/ LM!AcquireUpgrade(t, k, m)
        \/ LM!AcquireGrant(t, k, m) \/ LM!AcquireWait(t, k, m)
    BY <1>2, SameAcquire
  <2>3. LM!hasLock(t, j, "SHARED")'
    BY <2>1, <2>2, NoKeyOK, LM!AcquireKeeps
  <2> QED BY <2>3, HoldsIsHasLock
<1>3. ASSUME m = "SHARED",
             \/ Locks!AcquireHeld(t, k, m) \/ Locks!AcquireUpgrade(t, k, m)
             \/ Locks!AcquireGrant(t, k, m)
      PROVE  holds(lock_table', t, k)
  <2>1. LM!AcquireHeld(t, k, m) \/ LM!AcquireUpgrade(t, k, m) \/ LM!AcquireGrant(t, k, m)
    BY <1>3, SameAcquire
  <2>2. LM!hasLock(t, k, m)'
    BY <1>1, <2>1, NoKeyOK, LM!AcquireGives
  <2>3. LM!hasLock(t, k, "SHARED")'
    BY <1>3, <2>2
  <2> QED BY <2>3, HoldsIsHasLock
<1> QED BY <1>2, <1>3

\* A time-out takes nothing from the transaction either.
LEMMA TimeoutHolds ==
  ASSUME LM!IInv, NEW t \in TxnId, Locks!Timeout(t), NEW j, holds(lock_table, t, j)
  PROVE  holds(lock_table', t, j)
<1>1. LM!hasLock(t, j, "SHARED") /\ LM!Timeout(t)
  BY HoldsIsHasLock, SameReturn
<1>2. LM!hasLock(t, j, "SHARED")'
  BY <1>1, NoKeyOK, LM!TimeoutKeeps
<1> QED BY <1>2, HoldsIsHasLock

\* A step of one session: what is left to show of the session itself.
LEMMA RMoves ==
  ASSUME DInv, LM!IInv, KInv, RInv, NEW s \in Session,
         \/ lock_table' = lock_table /\ call' = call
         \/ txn[s].state = "ACTIVE" /\ txn[s].id \in TxnId /\ LM!StepOf(txn[s].id),
         \A u \in Session \ {s} : txn'[u] = txn[u] /\ op'[u] = op[u] /\ reads'[u] = reads[u],
         txn'[s].state = "ACTIVE" => ReadOK(txn'[s], op'[s], reads'[s], lock_table'),
         txn'[s].state # "ACTIVE" => reads'[s] = NoMap
  PROVE  RInv'
<1>1. ASSUME NEW u \in Session \ {s}, txn[u].state = "ACTIVE"
      PROVE  ReadOK(txn[u], op[u], reads[u], lock_table')
  <2>1. ReadOK(txn[u], op[u], reads[u], lock_table)
    BY <1>1 DEF RInv
  <2>2. CASE lock_table' = lock_table
    BY <2>1, <2>2
  <2>3. CASE txn[s].state = "ACTIVE" /\ txn[s].id \in TxnId /\ LM!StepOf(txn[s].id)
    <3> DEFINE t == txn[s].id
               w == txn[u].id
    <3>1. w \in TxnId /\ w # t /\ t \in TxnId /\ LM!StepOf(t)
      BY <1>1, <2>3, InCall DEF KInv
    <3> HIDE DEF t, w
    <3>2. \A k : holds(lock_table, w, k) => holds(lock_table', w, k)
      BY <3>1, HoldsKept
    <3> QED BY <2>1, <3>2 DEF w, ReadOK
  <2> QED BY <2>2, <2>3
<1>2. ASSUME NEW u \in Session
      PROVE  /\ txn'[u].state = "ACTIVE" => ReadOK(txn'[u], op'[u], reads'[u], lock_table')
             /\ txn'[u].state # "ACTIVE" => reads'[u] = NoMap
  <2>1. CASE u = s
    BY <2>1
  <2>2. CASE u # s
    BY <1>1, <2>2 DEF RInv
  <2> QED BY <2>1, <2>2
<1> QED BY <1>2 DEF RInv

\* Begin, and the two ways for a transaction to end: nothing is read.
LEMMA EdgeR ==
  ASSUME DInv, LM!IInv, KInv, RInv, reads \in [Session -> partial(Key, Value)], NEW s \in Session,
         (\E iso \in Isolation : Begin(s, iso)) \/ Abort(s) \/ Finish(s)
  PROVE  RInv'
<1>1. \/ lock_table' = lock_table /\ call' = call
      \/ txn[s].state = "ACTIVE" /\ txn[s].id \in TxnId /\ LM!StepOf(txn[s].id)
  BY SessionStep DEF Command, Continue
<1>2. /\ \E x : txn' = [txn EXCEPT ![s] = x]
      /\ op' = [op EXCEPT ![s] = NoOp] \/ (UNCHANGED op /\ op[s] = NoOp)
      /\ reads' = [reads EXCEPT ![s] = NoMap]
  <2>1. CASE Abort(s) \/ Finish(s)
    BY <2>1 DEF Abort, Finish
  <2>2. ASSUME NEW iso \in Isolation, Begin(s, iso)
        PROVE  /\ \E x : txn' = [txn EXCEPT ![s] = x]
               /\ UNCHANGED op /\ op[s] = NoOp /\ reads' = [reads EXCEPT ![s] = NoMap]
    BY <2>2, Facts, Zenon DEF Begin, SessionOK
  <2> QED BY <2>1, <2>2
<1>3. /\ \A u \in Session \ {s} : txn'[u] = txn[u] /\ op'[u] = op[u] /\ reads'[u] = reads[u]
      /\ op'[s] = NoOp /\ reads'[s] = NoMap
  BY <1>2, Facts
<1>4. reading(NoOp, NoMap) = {}
  BY EmptyPartial DEF reading, NoOp, within
<1>5. ReadOK(txn'[s], op'[s], reads'[s], lock_table')
  BY <1>3, <1>4 DEF ReadOK
<1> QED BY <1>1, <1>3, <1>5, RMoves

\* The steps of put, delete_key and get up to the lock: s keeps what it holds,
\* and holds what it is going to read.
LEMMA EarlyR ==
  ASSUME DInv, LM!IInv, KInv, RInv, NEW s \in Session,
         \/ \E k \in Key, v \in {txn[s].id, Absent} : Put(s, k, v)
         \/ \E k \in Key : Get(s, k)
         \/ Resume(s) \/ GiveUp(s),
         \A j : holds(lock_table, txn[s].id, j) => holds(lock_table', txn[s].id, j),
         op'[s].kind = "read" => holds(lock_table', txn[s].id, op'[s].key)
  PROVE  RInv'
<1>1. \/ lock_table' = lock_table /\ call' = call
      \/ txn[s].state = "ACTIVE" /\ txn[s].id \in TxnId /\ LM!StepOf(txn[s].id)
  <2>1. \A k \in Key, v \in {txn[s].id, Absent} : Put(s, k, v) => Command(s)
    BY DEF Command
  <2> QED BY <2>1, SessionStep DEF Command, Continue
<1>2. PICK x, o : /\ txn' = [txn EXCEPT ![s] = x] /\ op' = [op EXCEPT ![s] = o]
                  /\ x.id = txn[s].id /\ x.state = "ACTIVE"
  BY EarlyStep
<1>3. /\ \A u \in Session \ {s} : txn'[u] = txn[u] /\ op'[u] = op[u]
      /\ txn'[s] = x
  BY <1>2, Facts
<1>4. reads' = reads /\ ReadOK(txn[s], op[s], reads[s], lock_table)
  BY EarlyStep DEF Put, Get, Resume, GiveUp, RInv
<1>5. ReadOK(txn'[s], op'[s], reads'[s], lock_table')
  BY <1>2, <1>3, <1>4 DEF ReadOK, reading
<1> QED BY <1>1, <1>2, <1>3, <1>4, <1>5, RMoves

\* put and delete_key lock more and lose nothing.
LEMMA PutR ==
  ASSUME DInv, LM!IInv, KInv, RInv, NEW s \in Session, NEW k \in Key, NEW v \in {txn[s].id, Absent}, Put(s, k, v)
  PROVE  RInv'
<1>1. txn[s].id \in TxnId /\ op[s] = NoOp
  BY InCall DEF Put, ready
<1>2. \A j : holds(lock_table, txn[s].id, j) => holds(lock_table', txn[s].id, j)
  BY <1>1, AcquireHolds DEF Put, acquiredAtOnce
<1>3. op'[s].kind # "read"
  BY <1>1, Facts DEF Put, NoOp, within
<1> QED BY <1>2, <1>3, EarlyR

\* get that need not wait holds the key it is going to read.
LEMMA GetR ==
  ASSUME DInv, LM!IInv, KInv, RInv, NEW s \in Session, NEW k \in Key, Get(s, k)
  PROVE  RInv'
<1>1. txn[s].id \in TxnId
  BY InCall DEF Get, ready
<1>2. \A j : holds(lock_table, txn[s].id, j) => holds(lock_table', txn[s].id, j)
  BY <1>1, AcquireHolds DEF Get, acquiredAtOnce
<1>3. CASE acquiredAtOnce(s, k, "SHARED") /\ op' = [op EXCEPT ![s] = within("read", k, Absent)]
  <2>1. holds(lock_table', txn[s].id, k)
    BY <1>1, <1>3, AcquireHolds DEF acquiredAtOnce
  <2>2. op'[s].key = k
    BY <1>3, Facts DEF within
  <2> QED BY <1>2, <2>1, <2>2, EarlyR
<1>4. CASE op' = [op EXCEPT ![s] = within("get", k, Absent)]
  <2>1. op'[s].kind # "read"
    BY <1>4, Facts DEF within
  <2> QED BY <1>2, <2>1, EarlyR
<1> QED BY <1>3, <1>4 DEF Get

\* A blocked get that is granted holds the key (GrantIsHeld).
LEMMA ResumeR ==
  ASSUME DInv, LM!IInv, KInv, RInv, NEW s \in Session, Resume(s) \/ GiveUp(s)
  PROVE  RInv'
<1>1. txn[s].id \in TxnId
  BY InCall DEF Resume, GiveUp
<1>2. CASE GiveUp(s)
  <2>1. \A j : holds(lock_table, txn[s].id, j) => holds(lock_table', txn[s].id, j)
    BY <1>1, <1>2, TimeoutHolds DEF GiveUp
  <2>2. op'[s].kind # "read"
    BY <1>2, Facts DEF GiveUp, within
  <2> QED BY <1>2, <2>1, <2>2, EarlyR
<1>3. CASE Resume(s)
  <2>1. LM!WakeGranted(txn[s].id) /\ op[s].kind \in {"put", "get"}
    BY <1>3, SameReturn DEF Resume
  <2>2. lock_table' = lock_table /\ call[txn[s].id].granted
    BY <2>1 DEF LM!WakeGranted
  <2>3. call[txn[s].id].key = op[s].key
    BY <2>1 DEF KInv, LockOK
  <2>4. PICK m : LM!hasLock(txn[s].id, op[s].key, m)
    BY <1>1, <2>2, <2>3 DEF LM!IInv, LM!GrantIsHeld
  <2>5. LM!hasLock(txn[s].id, op[s].key, "SHARED")
    BY <2>4 DEF LM!hasLock
  <2>6. holds(lock_table', txn[s].id, op[s].key)
    BY <2>2, <2>5, HoldsIsHasLock
  <2>7. op'[s].kind = "read" => op'[s].key = op[s].key
    BY <1>3, Facts DEF Resume, NoOp, within, Ops
  <2> QED BY <1>3, <2>2, <2>6, <2>7, EarlyR
<1> QED BY <1>2, <1>3

\* Under REPEATABLE_READ get keeps the lock.
LEMMA ReadR ==
  ASSUME DInv, LM!IInv, KInv, RInv, reads \in [Session -> partial(Key, Value)], NEW s \in Session, Read(s),
         txn[s].iso # "READ_COMMITTED"
  PROVE  RInv'
<1>1. /\ op[s].kind = "read" /\ op' = [op EXCEPT ![s] = NoOp]
      /\ lock_table' = lock_table /\ call' = call /\ txn' = txn
  BY DEF Read, releasesAfterRead, lockVars
<1>2. txn[s].state = "ACTIVE"
  BY <1>1, InCall
<1>3. \E r : reads' = [reads EXCEPT ![s] = r] /\ DOMAIN r \subseteq DOMAIN reads[s] \cup {op[s].key}
  <2> DEFINE p == put(reads[s], op[s].key, visible(s, op[s].key))
  <2>1. DOMAIN p = DOMAIN reads[s] \cup {op[s].key}
    BY DEF put
  <2> HIDE DEF p
  <2>2. reads' = [reads EXCEPT ![s] = reads[s]] \/ reads' = [reads EXCEPT ![s] = p]
    BY ZenonT(30) DEF Read, p
  <2> QED BY <2>1, <2>2
<1>4. /\ \A u \in Session \ {s} : txn'[u] = txn[u] /\ op'[u] = op[u] /\ reads'[u] = reads[u]
      /\ op'[s].kind = "none" /\ DOMAIN reads'[s] \subseteq DOMAIN reads[s] \cup {op[s].key}
  BY <1>1, <1>3, Facts DEF NoOp, within
<1>5. ReadOK(txn[s], op[s], reads[s], lock_table)
  BY <1>2 DEF RInv
<1>6. ReadOK(txn'[s], op'[s], reads'[s], lock_table')
  BY <1>1, <1>4, <1>5 DEF ReadOK, reading
<1> QED BY <1>1, <1>2, <1>4, <1>6, RMoves

\* commit() keeps every lock until it has applied the last write.
LEMMA QuietR ==
  ASSUME DInv, LM!IInv, KInv, RInv, NEW s \in Session,
         Commit(s) \/ LogWrite(s) \/ LogCommit(s) \/ Synced(s) \/ Apply(s)
  PROVE  RInv'
<1>1. lock_table' = lock_table /\ call' = call /\ txn' = txn /\ reads' = reads /\ txn[s].state = "ACTIVE"
  <2>1. op[s].kind # "none" \/ txn[s].state = "ACTIVE"
    BY DEF Commit, LogWrite, LogCommit, Synced, Apply, ready
  <2> QED BY <2>1, InCall DEF Commit, LogWrite, LogCommit, Synced, Apply, lockVars
<1>2. PICK o : op' = [op EXCEPT ![s] = o] /\ o.kind \in {"log", "sync", "apply"}
  BY QuietOp
<1>3. op'[s] = o /\ \A u \in Session \ {s} : op'[u] = op[u]
  BY <1>2, Facts
<1>4. ReadOK(txn'[s], op'[s], reads'[s], lock_table')
  BY <1>1, <1>2, <1>3 DEF RInv, ReadOK, reading
<1> QED BY <1>1, <1>3, <1>4, RMoves

\* Under REPEATABLE_READ no step loses the lock on what was read.
LEMMA RInvNext ==
  ASSUME DInv, LM!IInv, KInv, RInv, reads \in [Session -> partial(Key, Value)],
         Isolation \subseteq {"REPEATABLE_READ"}, [Next]_vars
  PROVE  RInv'
<1>1. ASSUME NEW s \in Session, Command(s)
      PROVE  RInv'
  BY <1>1, EdgeR, PutR, GetR, QuietR DEF Command
<1>2. ASSUME NEW s \in Session, Read(s)
      PROVE  RInv'
  <2>1. txn[s].iso # "READ_COMMITTED"
    BY <1>2, InCall DEF Read, KInv
  <2> QED BY <1>2, <2>1, ReadR
<1>3. ASSUME NEW s \in Session, Abort(s) \/ Continue(s)
      PROVE  RInv'
  BY <1>2, <1>3, EdgeR, ResumeR, QuietR DEF Continue
<1>4. CASE Flush \/ UNCHANGED vars
  BY <1>4 DEF Flush, vars, tmVars, lockVars, RInv
<1> QED BY <1>1, <1>3, <1>4 DEF Next

-----------------------------------------------------------------------------
(* Serializability.                                                        *)

\* Locks that exclude each other keep the transactions apart.
LEMMA LocksSeparate ==
  ASSUME DInv, LM!IInv, KInv, RInv, Isolation \subseteq {"REPEATABLE_READ"}
  PROVE  Ids /\ Separate
<1>1. Ids
  BY DEF KInv, Ids
<1>2. ASSUME NEW s \in Session, NEW k \in DOMAIN txn[s].pending
      PROVE  txn[s].state = "ACTIVE" /\ owns(lock_table, txn[s].id, k)
  <2>1. txn[s].state = "ACTIVE"
    BY <1>2, Facts, EmptyPartial DEF SessionOK, IdleTxn
  <2>2. txn[s].iso # "READ_COMMITTED"
    BY <2>1 DEF KInv
  <2> QED BY <2>1, <2>2 DEF KInv, LockOK
<1>3. ASSUME NEW u \in Session, NEW k \in reading(op[u], reads[u])
      PROVE  txn[u].state = "ACTIVE" /\ holds(lock_table, txn[u].id, k)
  <2>1. CASE txn[u].state = "ACTIVE"
    BY <1>3, <2>1 DEF RInv, ReadOK
  <2>2. CASE txn[u].state # "ACTIVE"
    <3>1. op[u] = NoOp /\ reads[u] = NoMap
      BY <2>2, Facts DEF RInv, SessionOK
    <3> QED BY <1>3, <3>1, EmptyPartial DEF reading, NoOp, within
  <2> QED BY <2>1, <2>2
<1>4. ASSUME NEW t, NEW w, NEW k, owns(lock_table, t, k), holds(lock_table, w, k)
      PROVE  t = w
  BY <1>4 DEF owns, holds, LM!IInv, LM!MutualExclusion
<1>5. ASSUME NEW s \in Session, NEW u \in Session, s # u, NEW k \in DOMAIN txn[s].pending
      PROVE  k \notin DOMAIN txn[u].pending /\ k \notin reading(op[u], reads[u])
  <2>1. ASSUME k \in DOMAIN txn[u].pending PROVE FALSE
    <3>1. owns(lock_table, txn[s].id, k) /\ owns(lock_table, txn[u].id, k)
      BY <1>2, <2>1
    <3>2. txn[s].id = txn[u].id
      BY <1>4, <3>1 DEF owns, holds
    <3> QED BY <1>1, <1>2, <1>5, <2>1, <3>2 DEF Ids
  <2>2. ASSUME k \in reading(op[u], reads[u]) PROVE FALSE
    <3>1. txn[s].id = txn[u].id
      BY <1>2, <1>3, <1>4, <2>2
    <3> QED BY <1>1, <1>2, <1>3, <1>5, <2>2, <3>1 DEF Ids
  <2> QED BY <2>1, <2>2
<1>6. Separate
  BY <1>5 DEF Separate, reading
<1> QED BY <1>1, <1>6

\* A session without a transaction has read nothing.
LEMMA RInvInit ==
  ASSUME Init
  PROVE  RInv
<1>1. txn = [s \in Session |-> IdleTxn] /\ reads = [s \in Session |-> NoMap] /\ IdleTxn.state # "ACTIVE"
  BY DEF Init, IdleTxn
<1> QED BY <1>1 DEF RInv

\* What the log says, what the store holds, what was read and what is locked
\* agree in every reachable state, under REPEATABLE_READ and if Store calls do
\* not disturb each other.
THEOREM ReplayInvariant ==
  ASSUME Isolation \subseteq {"REPEATABLE_READ"}, ~StoreRaces
  PROVE  Spec => [](DInv /\ RInv /\ WInv /\ VInv)
<1>1. Init => RInv /\ WInv /\ VInv
  BY RInvInit, ReplayInit
<1>2. DInv /\ LM!IInv /\ KInv /\ RInv /\ WInv /\ VInv /\ [Next]_vars => (RInv /\ WInv /\ VInv)'
  <2> SUFFICES ASSUME DInv, LM!IInv, KInv, RInv, WInv, VInv, [Next]_vars
               PROVE  RInv' /\ WInv' /\ VInv'
    OBVIOUS
  <2>1. reads \in [Session -> partial(Key, Value)]
    BY DEF VInv
  <2>2. RInv'
    BY <2>1, RInvNext
  <2>3. Ids /\ Separate
    BY LocksSeparate
  <2> QED BY <2>2, <2>3, ReplayNext
<1> QED BY <1>1, <1>2, SessionInvariant, PTL DEF Spec

\* Serializability in the order of the COMMIT records: until commit logs its
\* COMMIT, everything a transaction has read (get) is still the committed
\* value.
THEOREM Serializable ==
  ASSUME Isolation \subseteq {"REPEATABLE_READ"}, ~StoreRaces
  PROVE  Spec => []ReadsAreCurrent
<1>1. DInv /\ WInv /\ VInv => ReadsAreCurrent
  BY ReplayHolds
<1> QED BY <1>1, ReplayInvariant, PTL

\* The store is what a replay of the log in commit order gives, but for what a
\* committing session has yet to apply (applyPendingBuffer), so the running
\* server and RecoveryManager::recover agree on the database.
THEOREM StoreAgreesWithLog ==
  ASSUME Isolation \subseteq {"REPEATABLE_READ"}, ~StoreRaces
  PROVE  Spec => []StoreIsReplay
<1>1. DInv /\ WInv /\ VInv => StoreIsReplay
  BY ReplayHolds
<1> QED BY <1>1, ReplayInvariant, PTL
=============================================================================
