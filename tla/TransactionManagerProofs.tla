----------------------- MODULE TransactionManagerProofs -----------------------
(* Proofs about TransactionManager and its locks, for any number of        *)
(* sessions, keys and transactions.                                        *)
EXTENDS TransactionLogProofs

LM == INSTANCE LockManagerProofs WITH Txn <- TxnId

\* The lock manager's assumption on its constants.
LEMMA NoKeyOK == NoKey \notin Key
  BY DEF NoKey, Key

-----------------------------------------------------------------------------
(* The sessions use the lock manager only through its operations, so what  *)
(* LockManagerProofs shows of it holds here.                               *)

\* The two instances of LockManager are the same.
LEMMA SameAcquire ==
  ASSUME NEW t, NEW k, NEW m
  PROVE  /\ Locks!AcquireHeld(t, k, m) <=> LM!AcquireHeld(t, k, m)
         /\ Locks!AcquireUpgrade(t, k, m) <=> LM!AcquireUpgrade(t, k, m)
         /\ Locks!AcquireGrant(t, k, m) <=> LM!AcquireGrant(t, k, m)
         /\ Locks!AcquireWait(t, k, m) <=> LM!AcquireWait(t, k, m)
<1> USE DEF Locks!entryOf, LM!entryOf, Locks!setEntry, LM!setEntry, Locks!NewEntry, LM!NewEntry,
            Locks!Idle, LM!Idle, Locks!lockVars, LM!lockVars, Locks!AlreadyHeld, LM!AlreadyHeld,
            Locks!CanUpgrade, LM!CanUpgrade, Locks!CanGrant, LM!CanGrant,
            Locks!isCompatible, LM!isCompatible
<1>1. Locks!AcquireHeld(t, k, m) <=> LM!AcquireHeld(t, k, m)
  BY DEF Locks!AcquireHeld, LM!AcquireHeld
<1>2. Locks!AcquireUpgrade(t, k, m) <=> LM!AcquireUpgrade(t, k, m)
  BY DEF Locks!AcquireUpgrade, LM!AcquireUpgrade
<1>3. Locks!AcquireGrant(t, k, m) <=> LM!AcquireGrant(t, k, m)
  BY DEF Locks!AcquireGrant, LM!AcquireGrant
<1>4. Locks!AcquireWait(t, k, m) <=> LM!AcquireWait(t, k, m)
  BY DEF Locks!AcquireWait, LM!AcquireWait
<1> QED BY <1>1, <1>2, <1>3, <1>4

LEMMA SameReturn ==
  ASSUME NEW t, NEW k, NEW m
  PROVE  /\ Locks!WakeGranted(t) <=> LM!WakeGranted(t)
         /\ Locks!Timeout(t) <=> LM!Timeout(t)
         /\ Locks!hasLock(t, k, m) <=> LM!hasLock(t, k, m)
         /\ Locks!Init <=> LM!Init
  BY DEF Locks!WakeGranted, LM!WakeGranted, Locks!Timeout, LM!Timeout, Locks!removeWaiter,
         LM!removeWaiter, Locks!Idle, LM!Idle, Locks!hasLock, LM!hasLock, Locks!entryOf,
         LM!entryOf, Locks!NewEntry, LM!NewEntry, Locks!Init, LM!Init

LEMMA SameRelease ==
  ASSUME NEW t, NEW k
  PROVE  /\ Locks!ReleaseLock(t, k) <=> LM!ReleaseLock(t, k)
         /\ Locks!ReleaseAllLocks(t) <=> LM!ReleaseAllLocks(t)
<1>1. ASSUME NEW K
      PROVE  Locks!release(t, K) <=> LM!release(t, K)
  BY DEF Locks!release, LM!release, Locks!released, LM!released, Locks!wokenBy, LM!wokenBy,
         Locks!withoutHolder, LM!withoutHolder, Locks!grantees, LM!grantees,
         Locks!processWaiters, LM!processWaiters, Locks!grantCount, LM!grantCount,
         Locks!compatibleAt, LM!compatibleAt, Locks!modeBefore, LM!modeBefore,
         Locks!isCompatible, LM!isCompatible
<1> QED BY <1>1 DEF Locks!ReleaseLock, LM!ReleaseLock, Locks!ReleaseAllLocks, LM!ReleaseAllLocks,
                    Locks!Idle, LM!Idle

\* acquireLock, as a step of the lock manager.
LEMMA AcquireStep ==
  ASSUME NEW t, NEW k \in Key, NEW m \in {"SHARED", "EXCLUSIVE"},
         \/ Locks!AcquireHeld(t, k, m) \/ Locks!AcquireUpgrade(t, k, m)
         \/ Locks!AcquireGrant(t, k, m) \/ Locks!AcquireWait(t, k, m)
  PROVE  LM!StepOf(t)
<1>1. m \in LM!RequestMode
  BY DEF LM!RequestMode
<1>2. \/ LM!AcquireHeld(t, k, m) \/ LM!AcquireUpgrade(t, k, m)
      \/ LM!AcquireGrant(t, k, m) \/ LM!AcquireWait(t, k, m)
  BY SameAcquire
<1> QED BY <1>1, <1>2 DEF LM!StepOf

\* Whatever a session does, the lock manager takes a step of that session's
\* transaction or none.
LEMMA SessionStep ==
  ASSUME DInv, NEW s \in Session, Command(s) \/ Abort(s) \/ Continue(s)
  PROVE  \/ lock_table' = lock_table /\ call' = call
         \/ txn[s].state = "ACTIVE" /\ txn[s].id \in TxnId /\ LM!StepOf(txn[s].id)
<1> DEFINE G == \/ lock_table' = lock_table /\ call' = call
                \/ txn[s].state = "ACTIVE" /\ txn[s].id \in TxnId /\ LM!StepOf(txn[s].id)
<1>1. ASSUME NEW k \in Key, NEW v, Put(s, k, v) PROVE G
  <2>1. \/ Locks!AcquireHeld(txn[s].id, k, "EXCLUSIVE") \/ Locks!AcquireUpgrade(txn[s].id, k, "EXCLUSIVE")
        \/ Locks!AcquireGrant(txn[s].id, k, "EXCLUSIVE") \/ Locks!AcquireWait(txn[s].id, k, "EXCLUSIVE")
    BY <1>1 DEF Put, acquiredAtOnce
  <2>2. txn[s].state = "ACTIVE" /\ txn[s].id \in TxnId
    BY <1>1, InCall DEF Put, ready
  <2>3. LM!StepOf(txn[s].id)
    BY <2>1, AcquireStep
  <2> QED BY <2>2, <2>3
<1>2. ASSUME NEW k \in Key, Get(s, k) PROVE G
  <2>1. \/ Locks!AcquireHeld(txn[s].id, k, "SHARED") \/ Locks!AcquireUpgrade(txn[s].id, k, "SHARED")
        \/ Locks!AcquireGrant(txn[s].id, k, "SHARED") \/ Locks!AcquireWait(txn[s].id, k, "SHARED")
    BY <1>2 DEF Get, acquiredAtOnce
  <2>2. txn[s].state = "ACTIVE" /\ txn[s].id \in TxnId
    BY <1>2, InCall DEF Get, ready
  <2>3. LM!StepOf(txn[s].id)
    BY <2>1, AcquireStep
  <2> QED BY <2>2, <2>3
<1>3. ASSUME Resume(s) \/ GiveUp(s) PROVE G
  <2>1. LM!WakeGranted(txn[s].id) \/ LM!Timeout(txn[s].id)
    BY <1>3, SameReturn DEF Resume, GiveUp
  <2>2. txn[s].state = "ACTIVE" /\ txn[s].id \in TxnId
    BY <1>3, InCall DEF Resume, GiveUp
  <2> QED BY <2>1, <2>2 DEF LM!StepOf
<1>4. ASSUME Read(s) PROVE G
  <2>1. txn[s].state = "ACTIVE" /\ txn[s].id \in TxnId
    BY <1>4, InCall DEF Read
  <2>2. op[s].key \in Key
    BY <1>4, Facts DEF Read, SessionOK
  <2>3. CASE Locks!ReleaseLock(txn[s].id, op[s].key)
    BY <2>1, <2>2, <2>3, SameRelease DEF LM!StepOf
  <2> QED BY <1>4, <2>3 DEF Read, lockVars
<1>5. ASSUME Abort(s) \/ Finish(s) PROVE G
  <2>1. LM!ReleaseAllLocks(txn[s].id)
    BY <1>5, SameRelease DEF Abort, Finish
  <2>2. txn[s].state = "ACTIVE" /\ txn[s].id \in TxnId
    BY <1>5, InCall DEF Abort, Finish, ready
  <2> QED BY <2>1, <2>2 DEF LM!StepOf
<1>6. ASSUME \/ \E iso \in Isolation : Begin(s, iso)
             \/ Commit(s) \/ LogWrite(s) \/ LogCommit(s) \/ Synced(s) \/ Apply(s)
      PROVE  G
  BY <1>6 DEF Begin, Commit, LogWrite, LogCommit, Synced, Apply, lockVars
<1> QED BY <1>1, <1>2, <1>3, <1>4, <1>5, <1>6 DEF Command, Continue

\* The lock manager sees nothing of the sessions but calls of its operations,
\* one at a time for each transaction.
THEOREM UsesLocks == Spec => LM!Spec
<1>1. Init => LM!Init
  BY SameReturn DEF Init
<1>2. DInv /\ [Next]_vars => [LM!Next]_<<lock_table, call>>
  <2> SUFFICES ASSUME DInv, [Next]_vars
               PROVE  (lock_table' = lock_table /\ call' = call) \/ LM!Next
    OBVIOUS
  <2>1. ASSUME NEW s \in Session, Command(s) \/ Abort(s) \/ Continue(s)
        PROVE  (lock_table' = lock_table /\ call' = call) \/ LM!Next
    <3>1. ASSUME NEW t \in TxnId, LM!StepOf(t)
          PROVE  LM!Next
      BY <3>1 DEF LM!StepOf, LM!Next
    <3> QED BY <2>1, <3>1, SessionStep
  <2>2. CASE Flush \/ UNCHANGED vars
    BY <2>2 DEF Flush, vars, lockVars
  <2> QED BY <2>1, <2>2 DEF Next
<1>3. LM!lockVars = <<lock_table, call>>
  BY DEF LM!lockVars
<1> QED BY <1>1, <1>2, <1>3, LogInvariant, PTL DEF Spec, LM!Spec, LM!lockVars

\* So its invariant holds of the locks that the sessions take.
THEOREM LockInvariant == Spec => []LM!IInv
  BY UsesLocks, NoKeyOK, LM!Invariance, PTL

-----------------------------------------------------------------------------
(* What the sessions and the lock table know of each other.                *)

\* What the table tab says: t holds k EXCLUSIVE.
owns(tab, t, k) == k \in DOMAIN tab /\ t \in tab[k].holders /\ tab[k].mode = "EXCLUSIVE"

\* A session with transaction x in the call o, the lock table tab and the
\* blocked calls c: a blocked put or get waits for its own key, and a buffered
\* write is locked, unless a read under READ_COMMITTED has given the lock up.
LockOK(x, o, tab, c) ==
  /\ o.kind \in {"put", "get"} =>
       c[x.id].key = o.key /\ c[x.id].mode = IF o.kind = "put" THEN "EXCLUSIVE" ELSE "SHARED"
  /\ \A k \in DOMAIN x.pending :
       \/ owns(tab, x.id, k)
       \/ x.iso = "READ_COMMITTED" /\ (k \in DOMAIN x.held => x.held[k] = "SHARED")

\* Transaction ids are never shared.
KInv ==
  /\ \A s \in Session : txn[s].state = "ACTIVE" =>
       txn[s].id < next_txn_id /\ txn[s].iso \in Isolation
  /\ \A s, u \in Session : s # u /\ txn[s].state = "ACTIVE" /\ txn[u].state = "ACTIVE" =>
       txn[s].id # txn[u].id
  /\ \A s \in Session : LockOK(txn[s], op[s], lock_table, call)

LEMMA OwnsIsHasLock ==
  ASSUME NEW t, NEW k
  PROVE  /\ LM!hasLock(t, k, "EXCLUSIVE") <=> owns(lock_table, t, k)
         /\ LM!hasLock(t, k, "EXCLUSIVE")' <=> owns(lock_table', t, k)
  BY DEF owns, LM!hasLock, LM!entryOf, LM!NewEntry

LEMMA OwnsKept ==
  ASSUME LM!IInv, NEW t \in TxnId, NEW w \in TxnId, w # t, LM!StepOf(t)
  PROVE  /\ call'[w].key = call[w].key /\ call'[w].mode = call[w].mode
         /\ \A k : owns(lock_table, w, k) => owns(lock_table', w, k)
<1>1. /\ call'[w].key = call[w].key /\ call'[w].mode = call[w].mode
      /\ \A k, m : LM!hasLock(w, k, m) => LM!hasLock(w, k, m)'
  BY NoKeyOK, LM!StepKeepsOthers
<1>2. ASSUME NEW k, owns(lock_table, w, k)
      PROVE  owns(lock_table', w, k)
  <2>1. LM!hasLock(w, k, "EXCLUSIVE")
    BY <1>2, OwnsIsHasLock
  <2>2. LM!hasLock(w, k, "EXCLUSIVE")'
    BY <1>1, <2>1
  <2> QED BY <2>2, OwnsIsHasLock
<1> QED BY <1>1, <1>2

\* The step of one session leaves to the others what they know of the locks.
LEMMA OthersKeepLocks ==
  ASSUME DInv, LM!IInv, KInv, NEW s \in Session, NEW u \in Session \ {s},
         \/ lock_table' = lock_table /\ call' = call
         \/ txn[s].state = "ACTIVE" /\ txn[s].id \in TxnId /\ LM!StepOf(txn[s].id)
  PROVE  LockOK(txn[u], op[u], lock_table', call')
<1>1. LockOK(txn[u], op[u], lock_table, call)
  BY DEF KInv
<1>2. CASE lock_table' = lock_table /\ call' = call
  BY <1>1, <1>2
<1>3. CASE txn[u].state # "ACTIVE"
  BY <1>3, Facts, EmptyPartial DEF SessionOK, LockOK, IdleTxn, NoOp, within
<1>4. CASE txn[u].state = "ACTIVE" /\ txn[s].state = "ACTIVE" /\ txn[s].id \in TxnId /\ LM!StepOf(txn[s].id)
  <2> DEFINE t == txn[s].id
             w == txn[u].id
  <2>1. w \in TxnId /\ w # t
    BY <1>4, InCall DEF KInv
  <2>2. t \in TxnId /\ LM!StepOf(t)
    BY <1>4
  <2> HIDE DEF t, w
  <2>3. /\ call'[w].key = call[w].key /\ call'[w].mode = call[w].mode
        /\ \A k : owns(lock_table, w, k) => owns(lock_table', w, k)
    BY <2>1, <2>2, OwnsKept
  <2> QED BY <1>1, <2>3 DEF w, LockOK
<1> QED BY <1>2, <1>3, <1>4

\* A step of one session: what is left to show of the session itself.
LEMMA KMoves ==
  ASSUME DInv, LM!IInv, KInv, NEW s \in Session,
         \/ lock_table' = lock_table /\ call' = call
         \/ txn[s].state = "ACTIVE" /\ txn[s].id \in TxnId /\ LM!StepOf(txn[s].id),
         NEW x, NEW o, txn' = [txn EXCEPT ![s] = x], op' = [op EXCEPT ![s] = o],
         \/ next_txn_id' = next_txn_id
            /\ (x.state = "ACTIVE" => txn[s].state = "ACTIVE" /\ x.id = txn[s].id /\ x.iso = txn[s].iso)
         \/ next_txn_id' = next_txn_id + 1 /\ x.id = next_txn_id /\ x.iso \in Isolation,
         LockOK(x, o, lock_table', call')
  PROVE  KInv'
<1>1. /\ txn'[s] = x /\ op'[s] = o
      /\ \A u \in Session \ {s} : txn'[u] = txn[u] /\ op'[u] = op[u]
  BY Facts
<1>2. next_txn_id \in Nat /\ \A u \in Session : txn[u].state = "ACTIVE" => txn[u].id \in Nat
  <2>1. next_txn_id \in Nat
    BY MaxAssumption DEF DInv
  <2>2. TxnId \subseteq Nat
    BY DEF TxnId
  <2> QED BY <2>1, <2>2, InCall
<1>3. ASSUME NEW u \in Session
      PROVE  LockOK(txn'[u], op'[u], lock_table', call')
  BY <1>1, OthersKeepLocks
<1>4. ASSUME NEW u \in Session, txn'[u].state = "ACTIVE"
      PROVE  txn'[u].id < next_txn_id' /\ txn'[u].iso \in Isolation
  BY <1>1, <1>2, <1>4 DEF KInv
<1>5. ASSUME NEW u \in Session, NEW w \in Session, u # w, txn'[u].state = "ACTIVE", txn'[w].state = "ACTIVE"
      PROVE  txn'[u].id # txn'[w].id
  <2>1. \A z \in Session : txn[z].state = "ACTIVE" => txn[z].id # next_txn_id
    BY <1>2 DEF KInv
  <2> QED BY <1>1, <1>5, <2>1 DEF KInv
<1> QED BY <1>3, <1>4, <1>5 DEF KInv

\* A write buffered under its lock.
LEMMA LockedWrite ==
  ASSUME DInv, KInv, NEW s \in Session, NEW k \in Key, NEW v \in {txn[s].id, Absent},
         txn[s].state = "ACTIVE", bufferWrite(s, k, v), NEW tab, NEW c,
         \A j \in Key : owns(lock_table, txn[s].id, j) => owns(tab, txn[s].id, j),
         owns(tab, txn[s].id, k)
  PROVE  \E x : /\ txn' = [txn EXCEPT ![s] = x]
                /\ x.id = txn[s].id /\ x.iso = txn[s].iso
                /\ LockOK(x, NoOp, tab, c)
<1>1. PICK x : /\ txn' = [txn EXCEPT ![s] = x]
               /\ x.id = txn[s].id /\ x.iso = txn[s].iso
               /\ x.held = put(txn[s].held, k, "EXCLUSIVE") /\ x.pending = put(txn[s].pending, k, v)
  BY BufferWriteOK
<1>2. LockOK(txn[s], op[s], lock_table, call) /\ DOMAIN txn[s].pending \subseteq Key
  BY Facts, DomainPartial DEF KInv, Txns
<1>3. NoOp.kind = "none"
  BY DEF NoOp, within
<1>4. ASSUME NEW j \in DOMAIN x.pending
      PROVE  \/ owns(tab, x.id, j)
             \/ x.iso = "READ_COMMITTED" /\ (j \in DOMAIN x.held => x.held[j] = "SHARED")
  <2>1. CASE j = k
    BY <1>1, <2>1
  <2>2. CASE j # k
    <3>1. j \in DOMAIN txn[s].pending /\ j \in Key
      BY <1>1, <1>2, <2>2 DEF put
    <3>2. j \in DOMAIN x.held => j \in DOMAIN txn[s].held /\ x.held[j] = txn[s].held[j]
      BY <1>1, <2>2 DEF put
    <3> QED BY <1>1, <1>2, <3>1, <3>2 DEF LockOK
  <2> QED BY <2>1, <2>2
<1>5. LockOK(x, NoOp, tab, c)
  BY <1>3, <1>4 DEF LockOK
<1> QED BY <1>1, <1>5

\* get notes a SHARED lock, whatever lock it found.
LEMMA LockedRead ==
  ASSUME DInv, KInv, NEW s \in Session, NEW k \in Key, txn[s].state = "ACTIVE",
         txn' = [txn EXCEPT ![s].held = put(@, k, "SHARED")], NEW tab, NEW c,
         \A j \in Key : owns(lock_table, txn[s].id, j) => owns(tab, txn[s].id, j),
         NEW o, o.kind = "read"
  PROVE  \E x : /\ txn' = [txn EXCEPT ![s] = x]
                /\ x.id = txn[s].id /\ x.iso = txn[s].iso
                /\ LockOK(x, o, tab, c)
<1> DEFINE h == put(txn[s].held, k, "SHARED")
           x == [id |-> txn[s].id, state |-> txn[s].state, iso |-> txn[s].iso,
                 pending |-> txn[s].pending, held |-> h]
<1>1. txn' = [txn EXCEPT ![s] = x]
  <2>1. [txn[s] EXCEPT !.held = h] = x
    BY Facts DEF Txns
  <2>2. txn' = [txn EXCEPT ![s].held = h]
    OBVIOUS
  <2> HIDE DEF h, x
  <2> QED BY <2>1, <2>2
<1>2. LockOK(txn[s], op[s], lock_table, call) /\ DOMAIN txn[s].pending \subseteq Key
  BY Facts, DomainPartial DEF KInv, Txns
<1>3. x.id = txn[s].id /\ x.iso = txn[s].iso /\ x.pending = txn[s].pending /\ x.held = h
  OBVIOUS
<1>4. \A j \in DOMAIN h : h[j] = "SHARED" \/ (j \in DOMAIN txn[s].held /\ h[j] = txn[s].held[j])
  BY DEF put
<1> HIDE DEF h, x
<1>5. LockOK(x, o, tab, c)
  BY <1>2, <1>3, <1>4 DEF LockOK
<1> QED BY <1>1, <1>3, <1>5

\* The caller's own locks: no operation but a release takes one.
LEMMA OwnLocks ==
  ASSUME LM!IInv, NEW t \in TxnId, NEW k \in Key, NEW m \in {"SHARED", "EXCLUSIVE"}
  PROVE  /\ (\/ Locks!AcquireHeld(t, k, m) \/ Locks!AcquireUpgrade(t, k, m)
             \/ Locks!AcquireGrant(t, k, m) \/ Locks!AcquireWait(t, k, m)) =>
               \A j : owns(lock_table, t, j) => owns(lock_table', t, j)
         /\ (\/ Locks!AcquireHeld(t, k, m) \/ Locks!AcquireUpgrade(t, k, m)
             \/ Locks!AcquireGrant(t, k, m)) =>
               (m = "EXCLUSIVE" => owns(lock_table', t, k))
<1>1. m \in LM!RequestMode
  BY DEF LM!RequestMode
<1>2. ASSUME NEW j, owns(lock_table, t, j),
             \/ Locks!AcquireHeld(t, k, m) \/ Locks!AcquireUpgrade(t, k, m)
             \/ Locks!AcquireGrant(t, k, m) \/ Locks!AcquireWait(t, k, m)
      PROVE  owns(lock_table', t, j)
  <2>1. LM!hasLock(t, j, "EXCLUSIVE")
    BY <1>2, OwnsIsHasLock
  <2>2. \/ LM!AcquireHeld(t, k, m) \/ LM!AcquireUpgrade(t, k, m)
        \/ LM!AcquireGrant(t, k, m) \/ LM!AcquireWait(t, k, m)
    BY <1>2, SameAcquire
  <2>3. LM!hasLock(t, j, "EXCLUSIVE")'
    BY <2>1, <2>2, NoKeyOK, LM!AcquireKeeps
  <2> QED BY <2>3, OwnsIsHasLock
<1>3. ASSUME m = "EXCLUSIVE",
             \/ Locks!AcquireHeld(t, k, m) \/ Locks!AcquireUpgrade(t, k, m)
             \/ Locks!AcquireGrant(t, k, m)
      PROVE  owns(lock_table', t, k)
  <2>1. LM!AcquireHeld(t, k, m) \/ LM!AcquireUpgrade(t, k, m) \/ LM!AcquireGrant(t, k, m)
    BY <1>3, SameAcquire
  <2>2. LM!hasLock(t, k, m)'
    BY <1>1, <2>1, NoKeyOK, LM!AcquireGives
  <2>3. LM!hasLock(t, k, "EXCLUSIVE")'
    BY <1>3, <2>2
  <2> QED BY <2>3, OwnsIsHasLock
<1> QED BY <1>2, <1>3

LEMMA TimeoutOwn ==
  ASSUME LM!IInv, NEW t \in TxnId, Locks!Timeout(t), NEW j, owns(lock_table, t, j)
  PROVE  owns(lock_table', t, j)
<1>1. LM!hasLock(t, j, "EXCLUSIVE") /\ LM!Timeout(t)
  BY OwnsIsHasLock, SameReturn
<1>2. LM!hasLock(t, j, "EXCLUSIVE")'
  BY <1>1, NoKeyOK, LM!TimeoutKeeps
<1> QED BY <1>2, OwnsIsHasLock

LEMMA ReleaseOwn ==
  ASSUME LM!IInv, NEW t \in TxnId, NEW k, Locks!ReleaseLock(t, k), NEW j, j # k, owns(lock_table, t, j)
  PROVE  owns(lock_table', t, j)
<1> DEFINE K == {k} \cap DOMAIN lock_table
<1>1. LM!hasLock(t, j, "EXCLUSIVE") /\ LM!release(t, K)
  BY OwnsIsHasLock, SameRelease DEF LM!ReleaseLock
<1>2. K \subseteq DOMAIN lock_table /\ j \notin K
  OBVIOUS
<1> HIDE DEF K
<1>3. LM!hasLock(t, j, "EXCLUSIVE")'
  BY <1>1, <1>2, NoKeyOK, LM!ReleaseKeeps
<1> QED BY <1>3, OwnsIsHasLock

LEMMA PutK ==
  ASSUME DInv, LM!IInv, KInv, NEW s \in Session, NEW k \in Key, NEW v \in {txn[s].id, Absent}, Put(s, k, v)
  PROVE  KInv'
<1>1. /\ txn[s].state = "ACTIVE" /\ txn[s].id \in TxnId /\ op[s] = NoOp
      /\ next_txn_id' = next_txn_id /\ LM!StepOf(txn[s].id)
  <2>1. txn[s].state = "ACTIVE" /\ txn[s].id \in TxnId /\ op[s] = NoOp /\ next_txn_id' = next_txn_id
    BY InCall DEF Put, ready
  <2>2. LM!StepOf(txn[s].id)
    BY AcquireStep DEF Put, acquiredAtOnce
  <2> QED BY <2>1, <2>2
<1>2. CASE acquiredAtOnce(s, k, "EXCLUSIVE") /\ bufferWrite(s, k, v) /\ UNCHANGED op
  <2>1. /\ \A j : owns(lock_table, txn[s].id, j) => owns(lock_table', txn[s].id, j)
        /\ owns(lock_table', txn[s].id, k)
    BY <1>1, <1>2, OwnLocks DEF acquiredAtOnce
  <2>2. PICK x : /\ txn' = [txn EXCEPT ![s] = x]
                 /\ x.id = txn[s].id /\ x.iso = txn[s].iso
                 /\ LockOK(x, NoOp, lock_table', call')
    BY <1>1, <1>2, <2>1, LockedWrite
  <2>3. op' = [op EXCEPT ![s] = NoOp]
    BY <1>1, <1>2, SameOp
  <2> QED BY <1>1, <2>2, <2>3, KMoves
<1>3. CASE /\ Locks!AcquireWait(txn[s].id, k, "EXCLUSIVE")
           /\ op' = [op EXCEPT ![s] = within("put", k, v)] /\ UNCHANGED txn
  <2>1. \A j : owns(lock_table, txn[s].id, j) => owns(lock_table', txn[s].id, j)
    BY <1>1, <1>3, OwnLocks
  <2>2. call'[txn[s].id].key = k /\ call'[txn[s].id].mode = "EXCLUSIVE"
    <3>1. DOMAIN call = TxnId
      BY DEF LM!IInv, LM!TypeOK
    <3> QED BY <1>1, <1>3, <3>1 DEF Locks!AcquireWait
  <2>3. within("put", k, v).kind = "put" /\ within("put", k, v).key = k
    BY DEF within
  <2>4. LockOK(txn[s], within("put", k, v), lock_table', call')
    BY <2>1, <2>2, <2>3 DEF KInv, LockOK
  <2> QED BY <1>1, <1>3, <2>4, SameTxn, KMoves
<1> QED BY <1>2, <1>3 DEF Put

LEMMA GetK ==
  ASSUME DInv, LM!IInv, KInv, NEW s \in Session, NEW k \in Key, Get(s, k)
  PROVE  KInv'
<1>1. /\ txn[s].state = "ACTIVE" /\ txn[s].id \in TxnId /\ op[s] = NoOp
      /\ next_txn_id' = next_txn_id /\ LM!StepOf(txn[s].id)
  <2>1. txn[s].state = "ACTIVE" /\ txn[s].id \in TxnId /\ op[s] = NoOp /\ next_txn_id' = next_txn_id
    BY InCall DEF Get, ready
  <2>2. LM!StepOf(txn[s].id)
    BY AcquireStep DEF Get, acquiredAtOnce
  <2> QED BY <2>1, <2>2
<1>2. \A j : owns(lock_table, txn[s].id, j) => owns(lock_table', txn[s].id, j)
  BY <1>1, OwnLocks DEF Get, acquiredAtOnce
<1>3. CASE /\ op' = [op EXCEPT ![s] = within("read", k, Absent)]
           /\ txn' = [txn EXCEPT ![s].held = put(@, k, "SHARED")]
  <2>1. within("read", k, Absent).kind = "read"
    BY DEF within
  <2>2. PICK x : /\ txn' = [txn EXCEPT ![s] = x]
                 /\ x.id = txn[s].id /\ x.iso = txn[s].iso
                 /\ LockOK(x, within("read", k, Absent), lock_table', call')
    BY <1>1, <1>2, <1>3, <2>1, LockedRead
  <2> QED BY <1>1, <1>3, <2>2, KMoves
<1>4. CASE /\ Locks!AcquireWait(txn[s].id, k, "SHARED")
           /\ op' = [op EXCEPT ![s] = within("get", k, Absent)] /\ UNCHANGED txn
  <2>1. call'[txn[s].id].key = k /\ call'[txn[s].id].mode = "SHARED"
    <3>1. DOMAIN call = TxnId
      BY DEF LM!IInv, LM!TypeOK
    <3> QED BY <1>1, <1>4, <3>1 DEF Locks!AcquireWait
  <2>2. within("get", k, Absent).kind = "get" /\ within("get", k, Absent).key = k
    BY DEF within
  <2>3. LockOK(txn[s], within("get", k, Absent), lock_table', call')
    BY <1>2, <2>1, <2>2 DEF KInv, LockOK
  <2> QED BY <1>1, <1>4, <2>3, SameTxn, KMoves
<1> QED BY <1>3, <1>4 DEF Get

\* A blocked acquireLock that returns true has been given what it asked for
\* (GrantIsHeld), and it asked for what put or get wants.
LEMMA ResumeK ==
  ASSUME DInv, LM!IInv, KInv, NEW s \in Session, Resume(s)
  PROVE  KInv'
<1>1. /\ txn[s].state = "ACTIVE" /\ txn[s].id \in TxnId /\ op[s].kind \in {"put", "get"}
      /\ next_txn_id' = next_txn_id /\ LM!WakeGranted(txn[s].id) /\ lock_table' = lock_table
      /\ op[s].key \in Key /\ (op[s].kind = "put" => op[s].value \in {txn[s].id, Absent})
  <2>1. op[s].kind \in {"put", "get"} /\ LM!WakeGranted(txn[s].id) /\ next_txn_id' = next_txn_id
    BY SameReturn DEF Resume
  <2>2. txn[s].state = "ACTIVE" /\ txn[s].id \in TxnId
    BY <2>1, InCall
  <2>3. op[s].key \in Key /\ (op[s].kind = "put" => op[s].value \in {txn[s].id, Absent})
    BY <2>1, Facts DEF SessionOK
  <2> QED BY <2>1, <2>2, <2>3 DEF LM!WakeGranted
<1>2. LM!StepOf(txn[s].id)
  BY <1>1 DEF LM!StepOf
<1>3. CASE /\ op[s].kind = "put" /\ bufferWrite(s, op[s].key, op[s].value)
           /\ op' = [op EXCEPT ![s] = NoOp]
  <2>1. call[txn[s].id].granted /\ call[txn[s].id].key = op[s].key /\ call[txn[s].id].mode = "EXCLUSIVE"
    BY <1>1, <1>3 DEF LM!WakeGranted, KInv, LockOK
  <2>2. LM!hasLock(txn[s].id, op[s].key, "EXCLUSIVE")
    BY <1>1, <2>1 DEF LM!IInv, LM!GrantIsHeld
  <2>3. owns(lock_table', txn[s].id, op[s].key)
    BY <1>1, <2>2, OwnsIsHasLock
  <2>4. PICK x : /\ txn' = [txn EXCEPT ![s] = x]
                 /\ x.id = txn[s].id /\ x.iso = txn[s].iso
                 /\ LockOK(x, NoOp, lock_table', call')
    BY <1>1, <1>3, <2>3, LockedWrite
  <2> QED BY <1>1, <1>2, <1>3, <2>4, KMoves
<1>4. CASE /\ op[s].kind = "get" /\ txn' = [txn EXCEPT ![s].held = put(@, op[s].key, "SHARED")]
           /\ op' = [op EXCEPT ![s].kind = "read"]
  <2> DEFINE o == [op[s] EXCEPT !.kind = "read"]
  <2>1. o.kind = "read" /\ op' = [op EXCEPT ![s] = o]
    BY <1>4, Facts DEF Ops
  <2> HIDE DEF o
  <2>2. PICK x : /\ txn' = [txn EXCEPT ![s] = x]
                 /\ x.id = txn[s].id /\ x.iso = txn[s].iso
                 /\ LockOK(x, o, lock_table', call')
    BY <1>1, <1>4, <2>1, LockedRead
  <2> QED BY <1>1, <1>2, <2>1, <2>2, KMoves
<1> QED BY <1>3, <1>4 DEF Resume

LEMMA GiveUpK ==
  ASSUME DInv, LM!IInv, KInv, NEW s \in Session, GiveUp(s)
  PROVE  KInv'
<1> DEFINE o == within("abort", NoKey, Absent)
<1>1. /\ op[s].kind \in {"put", "get"} /\ Locks!Timeout(txn[s].id) /\ next_txn_id' = next_txn_id
      /\ op' = [op EXCEPT ![s] = o] /\ UNCHANGED txn
  BY DEF GiveUp
<1>2. txn[s].state = "ACTIVE" /\ txn[s].id \in TxnId
  BY <1>1, InCall
<1>3. LM!StepOf(txn[s].id)
  BY <1>1, SameReturn DEF LM!StepOf
<1>4. \A j : owns(lock_table, txn[s].id, j) => owns(lock_table', txn[s].id, j)
  BY <1>1, <1>2, TimeoutOwn
<1>5. o.kind = "abort"
  BY DEF within
<1> HIDE DEF o
<1>6. LockOK(txn[s], o, lock_table', call')
  BY <1>4, <1>5 DEF KInv, LockOK
<1> QED BY <1>1, <1>2, <1>3, <1>6, SameTxn, KMoves

\* The read that gives its lock up: only under READ_COMMITTED, and of no other
\* key.
LEMMA ReadK ==
  ASSUME DInv, LM!IInv, KInv, NEW s \in Session, Read(s)
  PROVE  KInv'
<1>1. op[s].kind = "read" /\ op' = [op EXCEPT ![s] = NoOp] /\ next_txn_id' = next_txn_id
  BY DEF Read
<1>2. txn[s].state = "ACTIVE" /\ txn[s].id \in TxnId /\ NoOp.kind = "none"
  BY <1>1, InCall DEF NoOp, within
<1>3. CASE ~releasesAfterRead(s)
  <2>1. lock_table' = lock_table /\ call' = call /\ UNCHANGED txn
    BY <1>3 DEF Read, lockVars
  <2>2. LockOK(txn[s], NoOp, lock_table', call')
    BY <1>2, <2>1 DEF KInv, LockOK
  <2> QED BY <1>1, <1>2, <2>1, <2>2, SameTxn, KMoves
<1>4. CASE releasesAfterRead(s)
  <2> DEFINE k == op[s].key
             h == erase(txn[s].held, k)
             x == [id |-> txn[s].id, state |-> txn[s].state, iso |-> txn[s].iso,
                   pending |-> txn[s].pending, held |-> h]
  <2>1. Locks!ReleaseLock(txn[s].id, k) /\ txn' = [txn EXCEPT ![s].held = h] /\ k \in Key
    BY <1>1, <1>4, Facts DEF Read, SessionOK
  <2>2. LM!StepOf(txn[s].id)
    BY <2>1, SameRelease DEF LM!StepOf
  <2>3. txn' = [txn EXCEPT ![s] = x]
    <3>1. [txn[s] EXCEPT !.held = h] = x
      BY Facts DEF Txns
    <3> HIDE DEF h, x
    <3> QED BY <2>1, <3>1
  <2>4. x.id = txn[s].id /\ x.iso = txn[s].iso /\ x.pending = txn[s].pending /\ x.held = h
    OBVIOUS
  <2>5. \A j \in DOMAIN h : j # k /\ j \in DOMAIN txn[s].held /\ h[j] = txn[s].held[j]
    BY DEF erase
  <2>6. \A j : j # k /\ owns(lock_table, txn[s].id, j) => owns(lock_table', txn[s].id, j)
    BY <1>2, <2>1, ReleaseOwn
  <2>7. txn[s].iso = "READ_COMMITTED"
    BY <1>4 DEF releasesAfterRead
  <2>8. LockOK(txn[s], op[s], lock_table, call)
    BY DEF KInv
  <2> HIDE DEF k, h, x
  <2>9. LockOK(x, NoOp, lock_table', call')
    BY <1>2, <2>4, <2>5, <2>6, <2>7, <2>8 DEF LockOK
  <2> QED BY <1>1, <1>2, <2>2, <2>3, <2>4, <2>9, KMoves
<1> QED BY <1>3, <1>4

\* The steps of commit() that leave the locks alone: what call s is in then.
LEMMA QuietOp ==
  ASSUME DInv, NEW s \in Session,
         Commit(s) \/ LogWrite(s) \/ LogCommit(s) \/ Synced(s) \/ Apply(s)
  PROVE  \E o : op' = [op EXCEPT ![s] = o] /\ o.kind \in {"log", "sync", "apply"}
<1>1. CASE Commit(s) \/ LogCommit(s) \/ Synced(s)
  <2>1. ASSUME NEW kind, NEW todo, NEW n
        PROVE  committing(kind, todo, n).kind = kind
    BY DEF committing
  <2>2. PICK kind \in {"log", "sync", "apply"} :
          \E todo, n : op' = [op EXCEPT ![s] = committing(kind, todo, n)]
    BY <1>1 DEF Commit, LogCommit, Synced
  <2>3. PICK todo, n : op' = [op EXCEPT ![s] = committing(kind, todo, n)]
    BY <2>2
  <2>4. committing(kind, todo, n).kind \in {"log", "sync", "apply"}
    BY <2>1
  <2> QED BY <2>3, <2>4
<1>2. CASE LogWrite(s) \/ Apply(s)
  <2> DEFINE o == [op[s] EXCEPT !.todo = @ \ {Min(op[s].todo)}]
  <2>1. op' = [op EXCEPT ![s] = o] /\ op[s].kind \in {"log", "apply"}
    BY <1>2 DEF LogWrite, Apply
  <2>2. o.kind = op[s].kind
    BY Facts DEF Ops
  <2> HIDE DEF o
  <2> QED BY <2>1, <2>2
<1> QED BY <1>1, <1>2

\* The steps of a call that leave the locks and the transaction alone.
LEMMA QuietK ==
  ASSUME DInv, LM!IInv, KInv, NEW s \in Session,
         Commit(s) \/ LogWrite(s) \/ LogCommit(s) \/ Synced(s) \/ Apply(s)
  PROVE  KInv'
<1>1. lock_table' = lock_table /\ call' = call /\ UNCHANGED txn /\ next_txn_id' = next_txn_id
  BY DEF Commit, LogWrite, LogCommit, Synced, Apply, lockVars
<1>3. PICK o : op' = [op EXCEPT ![s] = o] /\ o.kind \in {"log", "sync", "apply"}
  BY QuietOp
<1>4. LockOK(txn[s], o, lock_table', call')
  BY <1>1, <1>3 DEF KInv, LockOK
<1> QED BY <1>1, <1>3, <1>4, SameTxn, KMoves

\* Begin, and the two ways for a transaction to end: nothing is buffered.
LEMMA EdgeK ==
  ASSUME DInv, LM!IInv, KInv, NEW s \in Session,
         (\E iso \in Isolation : Begin(s, iso)) \/ Abort(s) \/ Finish(s)
  PROVE  KInv'
<1>1. /\ NoOp.kind = "none"
      /\ \/ lock_table' = lock_table /\ call' = call
         \/ txn[s].state = "ACTIVE" /\ txn[s].id \in TxnId /\ LM!StepOf(txn[s].id)
  BY SessionStep DEF NoOp, within, Command, Continue
<1>2. ASSUME NEW x, x.pending = NoMap
      PROVE  LockOK(x, NoOp, lock_table', call')
  BY <1>1, <1>2, EmptyPartial DEF LockOK
<1>3. CASE Abort(s) \/ Finish(s)
  <2>1. txn' = [txn EXCEPT ![s] = IdleTxn] /\ op' = [op EXCEPT ![s] = NoOp] /\ next_txn_id' = next_txn_id
    BY <1>3 DEF Abort, Finish
  <2>2. IdleTxn.state # "ACTIVE" /\ IdleTxn.pending = NoMap
    BY DEF IdleTxn
  <2>3. LockOK(IdleTxn, NoOp, lock_table', call')
    BY <1>2, <2>2
  <2> QED BY <1>1, <2>1, <2>2, <2>3, KMoves
<1>4. ASSUME NEW iso \in Isolation, Begin(s, iso)
      PROVE  KInv'
  <2> DEFINE x == [id |-> next_txn_id, state |-> "ACTIVE", iso |-> iso, pending |-> NoMap, held |-> NoMap]
  <2>1. txn' = [txn EXCEPT ![s] = x] /\ next_txn_id' = next_txn_id + 1 /\ UNCHANGED op /\ op[s] = NoOp
    BY <1>4, Facts DEF Begin, SessionOK
  <2>2. x.id = next_txn_id /\ x.iso \in Isolation /\ x.pending = NoMap
    OBVIOUS
  <2> HIDE DEF x
  <2>3. op' = [op EXCEPT ![s] = NoOp]
    BY <2>1, SameOp
  <2>4. LockOK(x, NoOp, lock_table', call')
    BY <1>2, <2>2
  <2> QED BY <1>1, <2>1, <2>2, <2>3, <2>4, KMoves
<1> QED BY <1>3, <1>4

LEMMA KInvInit ==
  ASSUME Init
  PROVE  KInv
<1>1. /\ txn = [s \in Session |-> IdleTxn] /\ op = [s \in Session |-> NoOp]
  BY DEF Init
<1>2. IdleTxn.state # "ACTIVE" /\ DOMAIN IdleTxn.pending = {} /\ NoOp.kind = "none"
  BY EmptyPartial DEF IdleTxn, NoOp, within
<1> QED BY <1>1, <1>2 DEF KInv, LockOK

LEMMA KInvNext ==
  ASSUME DInv, LM!IInv, KInv, [Next]_vars
  PROVE  KInv'
<1>1. ASSUME NEW s \in Session, Command(s)
      PROVE  KInv'
  BY <1>1, EdgeK, PutK, GetK, QuietK DEF Command
<1>2. ASSUME NEW s \in Session, Abort(s) \/ Continue(s)
      PROVE  KInv'
  BY <1>2, EdgeK, ResumeK, GiveUpK, ReadK, QuietK DEF Continue
<1>3. CASE Flush \/ UNCHANGED vars
  BY <1>3 DEF Flush, vars, tmVars, lockVars, KInv
<1> QED BY <1>1, <1>2, <1>3 DEF Next

\* The log, the lock table and what each session believes to hold agree in
\* every reachable state.
THEOREM SessionInvariant == Spec => [](DInv /\ LM!IInv /\ KInv)
  BY KInvInit, KInvNext, LogInvariant, LockInvariant, PTL DEF Spec

\* Two-phase locking at both isolation levels: a transaction has locked what it
\* has buffered, except for a key that it has read back under READ_COMMITTED.
THEOREM WritesStayLocked == Spec => []LockLostByReadBack
<1>1. KInv => LockLostByReadBack
  <2> SUFFICES ASSUME KInv, NEW s \in Session, NEW k \in DOMAIN txn[s].pending
               PROVE  \/ Locks!hasLock(txn[s].id, k, "EXCLUSIVE")
                      \/ /\ txn[s].iso = "READ_COMMITTED"
                         /\ k \in DOMAIN txn[s].held => txn[s].held[k] = "SHARED"
    BY DEF LockLostByReadBack
  <2>1. LockOK(txn[s], op[s], lock_table, call)
    BY DEF KInv
  <2>2. owns(lock_table, txn[s].id, k) => Locks!hasLock(txn[s].id, k, "EXCLUSIVE")
    BY DEF owns, Locks!hasLock, Locks!entryOf
  <2> QED BY <2>1, <2>2 DEF LockOK
<1> QED BY <1>1, SessionInvariant, PTL

\* Strict two-phase locking, when no session asks for READ_COMMITTED.
THEOREM StrictTwoPhase ==
  ASSUME Isolation \subseteq {"REPEATABLE_READ"}
  PROVE  Spec => []WritesAreLocked
<1>1. DInv /\ KInv => WritesAreLocked
  <2> SUFFICES ASSUME DInv, KInv, NEW s \in Session, NEW k \in DOMAIN txn[s].pending
               PROVE  Locks!hasLock(txn[s].id, k, "EXCLUSIVE")
    BY DEF WritesAreLocked
  <2>1. LockOK(txn[s], op[s], lock_table, call)
    BY DEF KInv
  <2>2. txn[s].iso # "READ_COMMITTED"
    BY Facts DEF KInv, SessionOK, IdleTxn
  <2>3. owns(lock_table, txn[s].id, k) => Locks!hasLock(txn[s].id, k, "EXCLUSIVE")
    BY DEF owns, Locks!hasLock, Locks!entryOf
  <2> QED BY <2>1, <2>2, <2>3 DEF LockOK
<1> QED BY <1>1, SessionInvariant, PTL
=============================================================================
