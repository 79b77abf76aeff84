-------------------------- MODULE TransactionManager --------------------------
(***************************************************************************)
(* Transactions over the shared components of one run of the server: one   *)
(* TransactionManager per session (src/src/core/transaction_manager.cpp),  *)
(* the LockManager, the Store and the log (CommitLog, which GroupCommit    *)
(* implements).                                                            *)
(*                                                                         *)
(* A step is one call into a shared component together with the            *)
(* thread-local work around it.  A transaction writes its own id as the    *)
(* value, so that a value tells who wrote it.                              *)
(***************************************************************************)
EXTENDS Naturals, Sequences, FiniteSets, FiniteSetsExt

CONSTANTS
  Session,
  MaxKey,      \* keys are 1 .. MaxKey: pending_buffer is an ordered map
  MaxTxn,      \* bound: the number of transactions begun
  Isolation,   \* the isolation levels that sessions ask for
  StoreRaces   \* whether a Store call can be disturbed by an overlapping one

ASSUME MaxAssumption == MaxKey \in Nat \ {0} /\ MaxTxn \in Nat \ {0}
ASSUME StoreRacesAssumption == StoreRaces \in BOOLEAN
ASSUME IsolationAssumption == Isolation \subseteq {"REPEATABLE_READ", "READ_COMMITTED"}

Key     == 1 .. MaxKey
NoKey   == 0
TxnId   == 1 .. MaxTxn
Absent  == 0                    \* in the store: no such key; in a buffer: deleted
Value   == TxnId \cup {Absent}

VARIABLES
  lock_table, call,    \* the LockManager
  log, flushed,        \* the log
  store,               \* Store::data_
  next_txn_id,         \* Server::next_txn_id_
  txn,                 \* txn[s]: current_txn_ of session s
  op,                  \* op[s]: the call in which the thread of s is
  reads                \* history: what the transaction of s first read of a key

lockVars == <<lock_table, call>>
logVars  == <<log, flushed>>
tmVars   == <<store, next_txn_id, txn, op, reads>>
vars     == <<lockVars, logVars, tmVars>>

LogEntry == [txn : TxnId, kind : {"BEGIN", "WRITE", "COMMIT", "ABORT"},
             key : Key \cup {NoKey}, value : Value]

Locks == INSTANCE LockManager WITH Txn <- TxnId
Log   == INSTANCE CommitLog WITH Entry <- LogEntry

partial(D, R) == UNION {[K -> R] : K \in SUBSET D}
NoMap         == [k \in {} |-> Absent]

IdleTxn == [id |-> 0, state |-> "IDLE", iso |-> "REPEATABLE_READ",
            pending |-> NoMap, held |-> NoMap]

\* A call of put, delete_key, get or abort, and a call of commit with the keys
\* it has still to see to and the LSN it waits for.
within(kind, k, v)        == [kind |-> kind, key |-> k, value |-> v, todo |-> {}, lsn |-> 0]
committing(kind, todo, n) == [kind |-> kind, key |-> NoKey, value |-> Absent, todo |-> todo, lsn |-> n]
NoOp                      == within("none", NoKey, Absent)

OpKind == {"none",
           "put",     \* blocked in acquireLock(EXCLUSIVE) of put or delete_key
           "get",     \* blocked in acquireLock(SHARED) of get
           "read",    \* get: has the lock
           "abort",   \* acquireLock returned false
           "log",     \* commit: logging the pending writes
           "sync",    \* commit: in waitForCommit
           "apply"}   \* commit: in applyPendingBuffer

TypeOK ==
  /\ Locks!TypeOK
  /\ \A i \in DOMAIN log : log[i].lsn = i /\ log[i].entry \in LogEntry
  /\ flushed \in 0 .. Len(log)
  /\ store \in [Key -> Value]
  /\ next_txn_id \in 1 .. MaxTxn + 1
  /\ txn \in [Session -> [id : TxnId \cup {0}, state : {"IDLE", "ACTIVE"},
                          iso : {"REPEATABLE_READ", "READ_COMMITTED"},
                          pending : partial(Key, Value),
                          held : partial(Key, Locks!RequestMode)]]
  /\ op \in [Session -> [kind : OpKind, key : Key \cup {NoKey}, value : Value,
                         todo : SUBSET Key, lsn : 0 .. Len(log)]]
  /\ reads \in [Session -> partial(Key, Value)]

Init ==
  /\ Locks!Init
  /\ Log!LogInit
  /\ store = [k \in Key |-> Absent]
  /\ next_txn_id = 1
  /\ txn = [s \in Session |-> IdleTxn]
  /\ op = [s \in Session |-> NoOp]
  /\ reads = [s \in Session |-> NoMap]

\* The map f with f[k] = v (operator[] of std::map, and assignment).
put(f, k, v) == [j \in DOMAIN f \cup {k} |-> IF j = k THEN v ELSE f[j]]
erase(f, k)  == [j \in DOMAIN f \ {k} |-> f[j]]

\* The session's command can be served: in a transaction, no call in progress.
ready(s) == txn[s].state = "ACTIVE" /\ op[s] = NoOp

record(s, kind, k, v) ==
  Log!LogRecord([txn |-> txn[s].id, kind |-> kind, key |-> k, value |-> v])

-----------------------------------------------------------------------------
Begin(s, iso) ==
  /\ txn[s].state # "ACTIVE" /\ next_txn_id <= MaxTxn
  /\ next_txn_id' = next_txn_id + 1
  /\ txn' = [txn EXCEPT ![s] = [id |-> next_txn_id, state |-> "ACTIVE", iso |-> iso,
                                  pending |-> NoMap, held |-> NoMap]]
  /\ reads' = [reads EXCEPT ![s] = NoMap]
  /\ Log!LogRecord([txn |-> next_txn_id, kind |-> "BEGIN", key |-> NoKey, value |-> Absent])
  /\ UNCHANGED <<lockVars, store, op>>

\* acquireLock returns true without waiting.
acquiredAtOnce(s, k, m) ==
  \/ Locks!AcquireHeld(txn[s].id, k, m)
  \/ Locks!AcquireUpgrade(txn[s].id, k, m)
  \/ Locks!AcquireGrant(txn[s].id, k, m)

\* What put and delete_key do once they have the lock.
bufferWrite(s, k, v) ==
  txn' = [txn EXCEPT ![s].held = put(@, k, "EXCLUSIVE"), ![s].pending = put(@, k, v)]

\* put (v is a value) and delete_key (v is Absent).
Put(s, k, v) ==
  /\ ready(s)
  /\ \/ acquiredAtOnce(s, k, "EXCLUSIVE") /\ bufferWrite(s, k, v) /\ UNCHANGED op
     \/ /\ Locks!AcquireWait(txn[s].id, k, "EXCLUSIVE")
        /\ op' = [op EXCEPT ![s] = within("put", k, v)]
        /\ UNCHANGED txn
  /\ UNCHANGED <<logVars, store, next_txn_id, reads>>

Get(s, k) ==
  /\ ready(s)
  /\ \/ /\ acquiredAtOnce(s, k, "SHARED")
        /\ op' = [op EXCEPT ![s] = within("read", k, Absent)]
        /\ txn' = [txn EXCEPT ![s].held = put(@, k, "SHARED")]
     \/ /\ Locks!AcquireWait(txn[s].id, k, "SHARED")
        /\ op' = [op EXCEPT ![s] = within("get", k, Absent)]
        /\ UNCHANGED txn
  /\ UNCHANGED <<logVars, store, next_txn_id, reads>>

\* A blocked acquireLock returns true, and put or get goes on.
Resume(s) ==
  /\ op[s].kind \in {"put", "get"}
  /\ Locks!WakeGranted(txn[s].id)
  /\ \/ /\ op[s].kind = "put"
        /\ bufferWrite(s, op[s].key, op[s].value)
        /\ op' = [op EXCEPT ![s] = NoOp]
     \/ /\ op[s].kind = "get"
        /\ txn' = [txn EXCEPT ![s].held = put(@, op[s].key, "SHARED")]
        /\ op' = [op EXCEPT ![s].kind = "read"]
  /\ UNCHANGED <<logVars, store, next_txn_id, reads>>

\* A blocked acquireLock returns false after 3000 ms; abort() is next.
GiveUp(s) ==
  /\ op[s].kind \in {"put", "get"}
  /\ Locks!Timeout(txn[s].id)
  /\ op' = [op EXCEPT ![s] = within("abort", NoKey, Absent)]
  /\ UNCHANGED <<logVars, store, next_txn_id, txn, reads>>

MutReleasesAfterRead(s) == TRUE

\* get releases the lock again under READ_COMMITTED, whatever the lock is.
releasesAfterRead(s) == txn[s].iso = "READ_COMMITTED"

\* The value get returns: the transaction's own pending write, or the store's.
visible(s, k) == IF k \in DOMAIN txn[s].pending THEN txn[s].pending[k] ELSE store[k]

\* The rest of get: read, and under READ_COMMITTED releaseLock.
Read(s) ==
  LET k == op[s].key IN
  /\ op[s].kind = "read"
  /\ reads' = [reads EXCEPT ![s] =
                 IF k \in DOMAIN @ \cup DOMAIN txn[s].pending THEN @ ELSE put(@, k, visible(s, k))]
  /\ IF releasesAfterRead(s)
     THEN /\ Locks!ReleaseLock(txn[s].id, k)
          /\ txn' = [txn EXCEPT ![s].held = erase(@, k)]
     ELSE UNCHANGED <<lockVars, txn>>
  /\ op' = [op EXCEPT ![s] = NoOp]
  /\ UNCHANGED <<logVars, store, next_txn_id>>

\* abort(): on ABORT, on QUIT, and by put, delete_key and get after a time-out.
\* Nothing that another thread can see happens between logAbort and
\* releaseAllLocks.
Abort(s) ==
  /\ ready(s) \/ op[s].kind = "abort"
  /\ record(s, "ABORT", NoKey, Absent)
  /\ Locks!ReleaseAllLocks(txn[s].id)
  /\ txn' = [txn EXCEPT ![s] = IdleTxn]
  /\ op' = [op EXCEPT ![s] = NoOp]
  /\ reads' = [reads EXCEPT ![s] = NoMap]
  /\ UNCHANGED <<store, next_txn_id>>

-----------------------------------------------------------------------------
(* commit()                                                                *)

Commit(s) ==
  /\ ready(s)
  /\ op' = [op EXCEPT ![s] = committing("log", DOMAIN txn[s].pending, 0)]
  /\ UNCHANGED <<lockVars, logVars, store, next_txn_id, txn, reads>>

\* logPut or logDelete of the next pending key.
LogWrite(s) ==
  /\ op[s].kind = "log" /\ op[s].todo # {}
  /\ LET k == Min(op[s].todo) IN
       /\ record(s, "WRITE", k, txn[s].pending[k])
       /\ op' = [op EXCEPT ![s].todo = @ \ {k}]
  /\ UNCHANGED <<lockVars, store, next_txn_id, txn, reads>>

MutLogCommit(s) ==
  /\ op[s].kind = "log" /\ op[s].todo = {}
  /\ record(s, "COMMIT", NoKey, Absent)
  /\ op' = [op EXCEPT ![s] = committing("sync", {}, 0)]
  /\ UNCHANGED <<lockVars, store, next_txn_id, txn, reads>>

LogCommit(s) ==
  /\ op[s].kind = "log" /\ op[s].todo = {}
  /\ record(s, "COMMIT", NoKey, Absent)
  /\ op' = [op EXCEPT ![s] = committing("sync", {}, Log!nextLSN)]
  /\ UNCHANGED <<lockVars, store, next_txn_id, txn, reads>>

MutSynced(s) ==
  /\ op[s].kind = "sync" /\ flushed >= op[s].lsn
  /\ Locks!ReleaseAllLocks(txn[s].id)
  /\ op' = [op EXCEPT ![s] = committing("apply", DOMAIN txn[s].pending, 0)]
  /\ UNCHANGED <<logVars, store, next_txn_id, txn, reads>>

\* waitForCommit returns.
Synced(s) ==
  /\ op[s].kind = "sync" /\ flushed >= op[s].lsn
  /\ op' = [op EXCEPT ![s] = committing("apply", DOMAIN txn[s].pending, 0)]
  /\ UNCHANGED <<lockVars, logVars, store, next_txn_id, txn, reads>>

\* s is in a Store call that inserts into or erases from data_.
restructures(s) ==
  /\ op[s].kind = "apply" /\ op[s].todo # {}
  /\ LET k == Min(op[s].todo) IN (store[k] = Absent) # (txn[s].pending[k] = Absent)

\* Store takes no lock: of two overlapping changes of the unordered_map's
\* nodes, one can be lost.
disturbed(s) ==
  /\ StoreRaces /\ restructures(s)
  /\ \E u \in Session \ {s} : restructures(u)

\* Store::put or Store::delete_key of the next pending key.
Apply(s) ==
  /\ op[s].kind = "apply" /\ op[s].todo # {}
  /\ LET k == Min(op[s].todo) IN
       /\ \/ store' = [store EXCEPT ![k] = txn[s].pending[k]]
          \/ disturbed(s) /\ UNCHANGED store
       /\ op' = [op EXCEPT ![s].todo = @ \ {k}]
  /\ UNCHANGED <<lockVars, logVars, next_txn_id, txn, reads>>

MutFinish(s) ==
  /\ op[s].kind = "apply" /\ op[s].todo = {}
  /\ txn' = [txn EXCEPT ![s] = IdleTxn]
  /\ op' = [op EXCEPT ![s] = NoOp]
  /\ reads' = [reads EXCEPT ![s] = NoMap]
  /\ UNCHANGED <<lockVars, logVars, store, next_txn_id>>

\* releaseAllLocks, and the session is idle again.
Finish(s) ==
  /\ op[s].kind = "apply" /\ op[s].todo = {}
  /\ Locks!ReleaseAllLocks(txn[s].id)
  /\ txn' = [txn EXCEPT ![s] = IdleTxn]
  /\ op' = [op EXCEPT ![s] = NoOp]
  /\ reads' = [reads EXCEPT ![s] = NoMap]
  /\ UNCHANGED <<logVars, store, next_txn_id>>

-----------------------------------------------------------------------------
\* The flusher thread.
Flush == Log!Advance /\ UNCHANGED <<lockVars, tmVars>>

\* What the client asks of an idle session.
Command(s) ==
  \/ \E iso \in Isolation : Begin(s, iso)
  \/ \E k \in Key : Put(s, k, txn[s].id) \/ Put(s, k, Absent) \/ Get(s, k)
  \/ Commit(s)

\* What the session's thread does to complete a command.
Continue(s) ==
  \/ Resume(s)
  \/ GiveUp(s)
  \/ Read(s)
  \/ LogWrite(s)
  \/ LogCommit(s)
  \/ Synced(s)
  \/ Apply(s)
  \/ Finish(s)

Next ==
  \/ \E s \in Session : Command(s) \/ Abort(s) \/ Continue(s)
  \/ Flush

Spec == Init /\ [][Next]_vars

\* Threads run, time-outs expire, the flusher flushes.
FairSpec ==
  /\ Spec
  /\ WF_vars(Flush)
  /\ \A s \in Session : WF_vars(Continue(s)) /\ WF_vars(Abort(s) /\ op[s].kind = "abort")

-----------------------------------------------------------------------------
(* What the log says the database is: the transactions that have a COMMIT  *)
(* record, applied in the order of those records (RecoveryManager::recover *)
(* and the ReferenceModel of the chaos tests compute the same).            *)

commitsOf(k) ==
  {i \in DOMAIN log : /\ log[i].entry.kind = "COMMIT"
                      /\ \E j \in 1 .. i : /\ log[j].entry.kind = "WRITE"
                                           /\ log[j].entry.txn = log[i].entry.txn
                                           /\ log[j].entry.key = k}

replay(k) ==
  IF commitsOf(k) = {} THEN Absent
  ELSE LET t == log[Max(commitsOf(k))].entry.txn
           w == {j \in DOMAIN log : /\ log[j].entry.kind = "WRITE"
                                    /\ log[j].entry.txn = t
                                    /\ log[j].entry.key = k}
       IN  log[Max(w)].entry.value

\* s has logged its COMMIT and has still to apply k.
applying(s, k) ==
  \/ op[s].kind = "sync" /\ k \in DOMAIN txn[s].pending
  \/ op[s].kind = "apply" /\ k \in op[s].todo

-----------------------------------------------------------------------------
(* Properties                                                              *)

\* Strict two-phase locking: what a transaction has buffered it has locked
\* EXCLUSIVE, until commit has applied it (put, delete_key, get, commit).
WritesAreLocked ==
  \A s \in Session : \A k \in DOMAIN txn[s].pending :
    Locks!hasLock(txn[s].id, k, "EXCLUSIVE")

\* Under READ_COMMITTED too, but for one way to lose the lock: a key that the
\* transaction has read since it wrote it (get releases whatever it finds).
\* Only by such a read can two transactions have a write of one key pending.
LockLostByReadBack ==
  \A s \in Session : \A k \in DOMAIN txn[s].pending :
    \/ Locks!hasLock(txn[s].id, k, "EXCLUSIVE")
    \/ /\ txn[s].iso = "READ_COMMITTED"
       /\ k \in DOMAIN txn[s].held => txn[s].held[k] = "SHARED"

\* Serializable in the order of the COMMIT records: until a transaction logs
\* its COMMIT, everything it has read is still the committed value.
ReadsAreCurrent ==
  \A s \in Session : \A k \in DOMAIN reads[s] :
    op[s].kind \notin {"sync", "apply"} => reads[s][k] = replay(k)

\* The store is what a replay of the log in commit order would give, except
\* for the writes that a committing session has yet to apply.
StoreIsReplay ==
  \A k \in Key : (\A s \in Session : ~applying(s, k)) => store[k] = replay(k)

\* Nobody can see a write whose COMMIT record is not flushed: log before
\* apply, and no dirty read at either isolation level.
FlushedBeforeVisible ==
  \A k \in Key : store[k] # Absent =>
    \E i \in 1 .. flushed : log[i].entry.kind = "COMMIT" /\ log[i].entry.txn = store[k]

\* The lock table knows no more than the sessions: a holder is the current
\* transaction of a session, which has the key in locks_held or has just been
\* granted it.  So commit, abort and time-outs leave no lock behind.
NoLeakedLock ==
  \A k \in DOMAIN lock_table : \A t \in lock_table[k].holders :
    \E s \in Session : /\ txn[s].id = t
                       /\ k \in DOMAIN txn[s].held \/ op[s].key = k

\* FairSpec: every command is completed.
CommandsComplete == \A s \in Session : op[s] # NoOp ~> op[s] = NoOp
=============================================================================
