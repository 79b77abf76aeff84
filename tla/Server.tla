-------------------------------- MODULE Server --------------------------------
(***************************************************************************)
(* The server over several runs of its process: sessions that write,       *)
(* commit, abort, quit or disconnect, CHECKPOINT next to them, CRASH at    *)
(* any point, and the recovery at the next start                           *)
(* (src/src/server/server.cpp, src/src/server/connection_handler.cpp,      *)
(* src/src/core/checkpoint_manager.cpp, src/src/core/recovery_manager.cpp).*)
(*                                                                         *)
(* The components that have modules of their own appear here by what they  *)
(* promise.  Locks: no two transactions write one key (LockManager).  Log: *)
(* a flushed record is in the file (CommitLog); that flushed_lsn_ moves    *)
(* before the batch is in the file is the subject of GroupCommit.          *)
(* An apply is one step (TransactionManager has its steps).  A snapshot    *)
(* fits in the buffer of its output stream, so one write puts it into its  *)
(* file; data.db and data.db.tmp are empty or whole.                       *)
(***************************************************************************)
EXTENDS Naturals, Sequences, SequencesExt, FiniteSets, FiniteSetsExt

CONSTANTS
  Session,
  Requester,       \* connections that ask for a CHECKPOINT
  MaxKey,
  MaxBegin,        \* bound: the number of transactions begun, over all runs
  MaxCheckpoint,   \* bound: the number of CHECKPOINT commands, over all runs
  MaxCrash,        \* bound: the number of crashes
  data_file,       \* the arguments that start() gives to RecoveryManager,
  wal_file,        \*   each the name of a file
  Overlap,         \* whether clients begin transactions during a CHECKPOINT
  MisreadFits      \* whether a length that truncateWAL misreads can fit in the log

ASSUME BoundAssumption ==
  /\ MaxKey \in Nat \ {0} /\ MaxBegin \in Nat \ {0}
  /\ MaxCheckpoint \in Nat /\ MaxCrash \in Nat
ASSUME FileAssumption == {data_file, wal_file} \subseteq {"data/data.db", "wal/wal.log"}
ASSUME SwitchAssumption == Overlap \in BOOLEAN /\ MisreadFits \in BOOLEAN

Key    == 1 .. MaxKey
Absent == 0
Value  == 0 .. MaxBegin    \* a transaction writes its number among all begun

VARIABLES
  wal, data, tmp,  \* the files wal/wal.log (its records), data/data.db, data/data.db.tmp
  data_dir,        \* the directory data/ exists; the server does not make it
  up,              \* the process runs
  store,
  next_txn_id,     \* Server::next_txn_id_
  next_lsn, flushed_lsn,
  buffer,          \* WALManager::buffer_ and the batch that is being written
  txn,             \* txn[s]: the transaction of session s
  ckpt,            \* ckpt[r]: the CHECKPOINT that r waits for
  acked,           \* history: the store as the acknowledged commits made it
  indoubt,         \* history: the pending_buffers of the transactions whose
                   \*   COMMIT was logged and not acknowledged at the crash
  begun, checkpoints, crashes

fileVars == <<wal, data, tmp, data_dir>>
logVars  == <<next_lsn, flushed_lsn, buffer>>
history  == <<acked, indoubt, begun, checkpoints, crashes>>
vars     == <<fileVars, up, store, next_txn_id, logVars, txn, ckpt, history>>

R == INSTANCE Recovery

NoMap  == [k \in {} |-> Absent]
NoTxn  == [id |-> 0, number |-> 0, phase |-> "IDLE", pending |-> NoMap,
           todo |-> {}, lsn |-> 0]

\* fd: where the file that writeSnapshotFile has open is now: at data.db.tmp, at
\* data.db, or under no name any more.
NoCkpt == [pc |-> "none", todo |-> {}, lsn |-> 0, fd |-> "none", remaining |-> <<>>]

\* The first start: no files, an empty store.
Init ==
  /\ wal = <<>> /\ data = R!NoFile /\ tmp = R!NoFile
  /\ data_dir \in BOOLEAN
  /\ up = TRUE
  /\ store = R!EmptyStore
  /\ next_txn_id = 1 /\ next_lsn = 1 /\ flushed_lsn = 0
  /\ buffer = <<>>
  /\ txn = [s \in Session |-> NoTxn]
  /\ ckpt = [r \in Requester |-> NoCkpt]
  /\ acked = R!EmptyStore /\ indoubt = {}
  /\ begun = 0 /\ checkpoints = 0 /\ crashes = 0

-----------------------------------------------------------------------------
(* Sessions                                                                *)

\* logBegin, logPut, logDelete, logCommit, logAbort.
logRecord(t, kind, k, v) ==
  /\ buffer' = Append(buffer, [lsn |-> next_lsn, txn |-> t, kind |-> kind, key |-> k, value |-> v])
  /\ next_lsn' = next_lsn + 1
  /\ UNCHANGED flushed_lsn

Begin(s) ==
  /\ up /\ txn[s].phase = "IDLE" /\ begun < MaxBegin
  /\ Overlap \/ \A r \in Requester : ckpt[r].pc = "none"
  /\ txn' = [txn EXCEPT ![s] = [NoTxn EXCEPT !.id = next_txn_id, !.number = begun + 1,
                                             !.phase = "ACTIVE"]]
  /\ next_txn_id' = next_txn_id + 1
  /\ begun' = begun + 1
  /\ logRecord(next_txn_id, "BEGIN", R!NoKey, Absent)
  /\ UNCHANGED <<fileVars, up, store, ckpt, acked, indoubt, checkpoints, crashes>>

\* put and delete_key (v is Absent), with the lock.
Put(s, k, v) ==
  /\ up /\ txn[s].phase = "ACTIVE"
  /\ \A u \in Session \ {s} : k \notin DOMAIN txn[u].pending
  /\ txn' = [txn EXCEPT ![s].pending =
               [j \in DOMAIN @ \cup {k} |-> IF j = k THEN v ELSE @[j]]]
  /\ UNCHANGED <<fileVars, up, store, next_txn_id, logVars, ckpt, history>>

\* ABORT, and QUIT inside of a transaction.
Abort(s) ==
  /\ up /\ txn[s].phase = "ACTIVE"
  /\ logRecord(txn[s].id, "ABORT", R!NoKey, Absent)
  /\ txn' = [txn EXCEPT ![s] = NoTxn]
  /\ UNCHANGED <<fileVars, up, store, next_txn_id, ckpt, history>>

\* The connection is lost: run() ends, and the transaction stays as it is.
Disconnect(s) ==
  /\ up /\ txn[s].phase = "ACTIVE"
  /\ txn' = [txn EXCEPT ![s].phase = "GONE"]
  /\ UNCHANGED <<fileVars, up, store, next_txn_id, logVars, ckpt, history>>

Commit(s) ==
  /\ up /\ txn[s].phase = "ACTIVE"
  /\ txn' = [txn EXCEPT ![s].phase = "LOG", ![s].todo = DOMAIN txn[s].pending]
  /\ UNCHANGED <<fileVars, up, store, next_txn_id, logVars, ckpt, history>>

LogWrite(s) ==
  /\ up /\ txn[s].phase = "LOG" /\ txn[s].todo # {}
  /\ LET k == Min(txn[s].todo) IN
       /\ logRecord(txn[s].id, "WRITE", k, txn[s].pending[k])
       /\ txn' = [txn EXCEPT ![s].todo = @ \ {k}]
  /\ UNCHANGED <<fileVars, up, store, next_txn_id, ckpt, history>>

LogCommit(s) ==
  /\ up /\ txn[s].phase = "LOG" /\ txn[s].todo = {}
  /\ logRecord(txn[s].id, "COMMIT", R!NoKey, Absent)
  /\ txn' = [txn EXCEPT ![s].phase = "SYNC", ![s].lsn = next_lsn]
  /\ UNCHANGED <<fileVars, up, store, next_txn_id, ckpt, history>>

\* st with the writes of the transactions in P, which write different keys.
overlay(st, P) ==
  [k \in Key |-> IF \E p \in P : k \in DOMAIN p
                 THEN (CHOOSE p \in P : k \in DOMAIN p)[k]
                 ELSE st[k]]

\* waitForCommit returns; applyPendingBuffer, and the client has its answer.
Finish(s) ==
  /\ up /\ txn[s].phase = "SYNC" /\ flushed_lsn >= txn[s].lsn
  /\ store' = overlay(store, {txn[s].pending})
  /\ acked' = overlay(acked, {txn[s].pending})
  /\ txn' = [txn EXCEPT ![s] = NoTxn]
  /\ UNCHANGED <<fileVars, up, next_txn_id, logVars, ckpt, indoubt, begun, checkpoints, crashes>>

\* The flusher appends a batch to the log file (opened with O_APPEND).
Flush ==
  /\ up /\ buffer # <<>>
  /\ wal' = wal \o buffer
  /\ flushed_lsn' = buffer[Len(buffer)].lsn
  /\ buffer' = <<>>
  /\ UNCHANGED <<data, tmp, data_dir, up, store, next_txn_id, next_lsn, txn, ckpt, history>>

-----------------------------------------------------------------------------
(* CHECKPOINT                                                              *)

atStep(r, pc) == up /\ ckpt[r].pc = pc

\* hasActiveTransactions holds txn_managers_mutex_ until it returns.
Checkpoint(r) ==
  /\ atStep(r, "none") /\ checkpoints < MaxCheckpoint
  /\ \A q \in Requester : ckpt[q].pc # "scan"
  /\ ckpt' = [ckpt EXCEPT ![r] = [NoCkpt EXCEPT !.pc = "scan", !.todo = Session]]
  /\ checkpoints' = checkpoints + 1
  /\ UNCHANGED <<fileVars, up, store, next_txn_id, logVars, txn, acked, indoubt, begun, crashes>>

unchangedByCkpt == UNCHANGED <<data_dir, up, store, next_txn_id, logVars, txn, history>>

MutScan(r, s) ==
  /\ atStep(r, "scan") /\ s \in ckpt[r].todo
  /\ ckpt' = [ckpt EXCEPT ![r] =
                IF @.todo = {s} THEN [NoCkpt EXCEPT !.pc = "lsn"] ELSE [@ EXCEPT !.todo = @ \ {s}]]
  /\ UNCHANGED fileVars /\ unchangedByCkpt

\* hasActiveTransactions asks the sessions one after the other (in the order of
\* their ids, here any order); handleCheckpoint refuses at the first active one.
Scan(r, s) ==
  /\ atStep(r, "scan") /\ s \in ckpt[r].todo
  /\ ckpt' = [ckpt EXCEPT ![r] =
                IF txn[s].phase # "IDLE" THEN NoCkpt
                ELSE IF @.todo = {s} THEN [NoCkpt EXCEPT !.pc = "lsn"]
                ELSE [@ EXCEPT !.todo = @ \ {s}]]
  /\ UNCHANGED fileVars /\ unchangedByCkpt

\* createCheckpoint: wal_->fsync(), getFlushedLSN().
TakeLSN(r) ==
  /\ atStep(r, "lsn")
  /\ ckpt' = [ckpt EXCEPT ![r] = [@ EXCEPT !.pc = "open", !.lsn = flushed_lsn]]
  /\ UNCHANGED fileVars /\ unchangedByCkpt

MutOpenSnapshot(r) ==
  /\ atStep(r, "open")
  /\ IF data_dir THEN /\ tmp' = R!EmptyFile
                      /\ ckpt' = [ckpt EXCEPT ![r] = [@ EXCEPT !.pc = "rename", !.fd = "tmp"]]
     ELSE /\ ckpt' = [ckpt EXCEPT ![r].pc = "rename"]
          /\ UNCHANGED tmp
  /\ UNCHANGED <<wal, data>> /\ unchangedByCkpt

\* writeSnapshotFile makes or truncates data.db.tmp; it returns if it cannot.
OpenSnapshot(r) ==
  /\ atStep(r, "open")
  /\ IF data_dir THEN /\ tmp' = R!EmptyFile
                      /\ ckpt' = [ckpt EXCEPT ![r] = [@ EXCEPT !.pc = "write", !.fd = "tmp"]]
     ELSE /\ ckpt' = [ckpt EXCEPT ![r].pc = "rename"]
          /\ UNCHANGED tmp
  /\ UNCHANGED <<wal, data>> /\ unchangedByCkpt

\* getAllEntries; the stream's one buffer goes to the file that is open, under
\* whichever name it has now, and the file is closed.
WriteSnapshotFile(r) ==
  /\ atStep(r, "write")
  /\ LET snapshot == R!Snapshot(ckpt[r].lsn, store) IN
       /\ tmp'  = IF ckpt[r].fd = "tmp"  THEN snapshot ELSE tmp
       /\ data' = IF ckpt[r].fd = "data" THEN snapshot ELSE data
  /\ ckpt' = [ckpt EXCEPT ![r] = [@ EXCEPT !.pc = "rename", !.fd = "none"]]
  /\ UNCHANGED wal /\ unchangedByCkpt

\* A file that is open keeps being written under its new name, or under none.
renamed(fd) == CASE fd = "tmp" -> "data" [] fd = "data" -> "gone" [] OTHER -> fd

\* The rename to data.db.
Rename(r) ==
  /\ atStep(r, "rename") /\ tmp # R!NoFile
  /\ data' = tmp /\ tmp' = R!NoFile
  /\ ckpt' = [q \in Requester |-> IF q = r THEN [ckpt[r] EXCEPT !.pc = "read"]
                                  ELSE [ckpt[q] EXCEPT !.fd = renamed(@)]]
  /\ UNCHANGED wal /\ unchangedByCkpt

\* truncateWAL reads the log ...
ReadLog(r) ==
  /\ atStep(r, "read")
  /\ \E rest \in R!truncated(wal, ckpt[r].lsn, MisreadFits) :
       ckpt' = [ckpt EXCEPT ![r] = [@ EXCEPT !.pc = "truncate", !.remaining = rest]]
  /\ UNCHANGED fileVars /\ unchangedByCkpt

\* ... empties it ...
Truncate(r) ==
  /\ atStep(r, "truncate")
  /\ wal' = <<>>
  /\ ckpt' = [ckpt EXCEPT ![r].pc = "rewrite"]
  /\ UNCHANGED <<data, tmp>> /\ unchangedByCkpt

\* ... and writes from its start what remains, over what the flusher or another
\* CHECKPOINT may have written since.  Where the last of it ends depends on the
\* lengths: before, at or inside of a record that was there.
Rewrite(r) ==
  /\ atStep(r, "rewrite")
  /\ LET remaining == ckpt[r].remaining IN
       wal' \in IF remaining = <<>> THEN {wal}
                ELSE IF IsPrefix(wal, remaining) THEN {remaining}
                ELSE {remaining \o SubSeq(wal, j, Len(wal)) : j \in 2 .. Len(wal) + 1}
                       \cup {Append(remaining, R!Garbage)}
  /\ ckpt' = [ckpt EXCEPT ![r] = NoCkpt]
  /\ UNCHANGED <<data, tmp>> /\ unchangedByCkpt

-----------------------------------------------------------------------------
(* The process                                                             *)

\* The process ends.  Of the batch that was being written a prefix is in the
\* file, the last record of it perhaps torn.
ends ==
  /\ crashes < MaxCrash
  /\ up' = FALSE
  /\ \E n \in 0 .. Len(buffer) :
       wal' \in {wal \o SubSeq(buffer, 1, n)} \cup
                (IF n < Len(buffer) THEN {wal \o SubSeq(buffer, 1, n) \o <<R!Garbage>>} ELSE {})
  /\ indoubt' = {txn[s].pending : s \in {u \in Session : txn[u].phase = "SYNC"}}
  /\ crashes' = crashes + 1
  /\ buffer' = <<>> /\ next_lsn' = 1 /\ flushed_lsn' = 0 /\ next_txn_id' = 1
  /\ store' = R!EmptyStore
  /\ txn' = [s \in Session |-> NoTxn]
  /\ ckpt' = [r \in Requester |-> NoCkpt]
  /\ UNCHANGED <<data, tmp, data_dir, acked, begun, checkpoints>>

\* CRASH (_exit) or a kill.
Crash == up /\ ends

\* std::filesystem::rename throws when data.db.tmp is not there, and nothing on
\* the connection's thread catches it.
RenameThrows(r) == atStep(r, "rename") /\ tmp = R!NoFile /\ ends

fileNamed(f) == IF f = "wal/wal.log" THEN R!LogFile(wal) ELSE data

\* Server() and start(): recovery, then sessions.
Start ==
  /\ ~up
  /\ up' = TRUE
  /\ store' \in R!recover(fileNamed(data_file), fileNamed(wal_file))
  /\ acked' = store' /\ indoubt' = {}
  /\ UNCHANGED <<fileVars, next_txn_id, logVars, txn, ckpt, begun, checkpoints, crashes>>

-----------------------------------------------------------------------------
Next ==
  \/ \E s \in Session :
       \/ Begin(s)
       \/ \E k \in Key : Put(s, k, txn[s].number) \/ Put(s, k, Absent)
       \/ Abort(s) \/ Disconnect(s)
       \/ Commit(s) \/ LogWrite(s) \/ LogCommit(s) \/ Finish(s)
  \/ Flush
  \/ \E r \in Requester :
       \/ Checkpoint(r) \/ \E s \in Session : Scan(r, s)
       \/ TakeLSN(r) \/ OpenSnapshot(r) \/ WriteSnapshotFile(r) \/ Rename(r) \/ RenameThrows(r)
       \/ ReadLog(r) \/ Truncate(r) \/ Rewrite(r)
  \/ Crash \/ Start

Spec == Init /\ [][Next]_vars

-----------------------------------------------------------------------------
(* Properties                                                              *)

\* A restart restores every acknowledged commit, whole, in order, and nothing
\* else, except that a transaction whose COMMIT was logged and not yet
\* acknowledged at the crash may have been committed (Server::start, recover,
\* createCheckpoint).  It does so too when two CHECKPOINTs ran into each other,
\* unless the crash finds data.db empty (SnapshotIsWhole says when).
RestartRestores ==
  [][~up /\ up' /\ data # R!EmptyFile =>
       \E P \in SUBSET indoubt : store' = overlay(acked, P)]_vars

\* The rename puts a whole snapshot in place of the old one, so that a crash
\* finds one or the other; the one exception is another CHECKPOINT that has
\* truncated the shared data.db.tmp and not yet written it (createCheckpoint,
\* writeSnapshotFile).
SnapshotIsWhole ==
  [][data' = R!EmptyFile /\ data # data' =>
       \E q, r \in Requester : q # r /\ ckpt[q].pc = "write" /\ ckpt[r].pc = "rename"]_vars
=============================================================================
