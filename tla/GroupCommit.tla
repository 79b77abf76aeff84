----------------------------- MODULE GroupCommit -----------------------------
(***************************************************************************)
(* The write-ahead log in one run of the server: WALManager                *)
(* (src/src/core/wal_manager.cpp) and the flusher thread and commit wait   *)
(* of GroupCommitManager (src/src/core/group_commit.cpp).                  *)
(*                                                                         *)
(* A session thread appends records to buffer_ and, at COMMIT, waits until *)
(* flushed_lsn_ has reached its record.  The flusher takes the buffer,     *)
(* writes the records to an ofstream, flushes it, fsyncs and notifies.     *)
(* Three places hold written records: the stream's user-space buffer (lost *)
(* when the process ends), the file in the page cache (survives the        *)
(* process, not the machine) and the fsynced prefix of the file.           *)
(*                                                                         *)
(* A step is what one mutex protects or one call does.  Of a record only   *)
(* its LSN, its transaction and whether it is a COMMIT are kept.           *)
(***************************************************************************)
EXTENDS Naturals, Sequences

CONSTANTS
  Client,      \* session threads, each running one transaction
  MaxLSN,      \* bound: the number of records logged
  LogOpens     \* the values log_file_.is_open() may have: a set of BOOLEANs

ASSUME MaxLSNAssumption == MaxLSN \in Nat
ASSUME LogOpensAssumption == LogOpens \subseteq BOOLEAN

VARIABLES
  next_lsn, buffer, flushed_lsn,      \* WALManager, under its mtx_
  log_open,                           \* log_file_.is_open()
  stream, file, synced,               \* written records; length of fsynced prefix
  running, flusher, records, written, \* run() and the locals of flushOnce
  pc, commit_lsn                      \* where each session thread is

walVars     == <<next_lsn, buffer, flushed_lsn>>
diskVars    == <<log_open, stream, file, synced>>
flusherVars == <<running, flusher, records, written>>
clientVars  == <<pc, commit_lsn>>
vars        == <<walVars, diskVars, flusherVars, clientVars>>

Kind   == {"OP", "COMMIT"}
Record == [lsn : Nat \ {0}, entry : [txn : Client, kind : Kind]]

FlusherPC == {"sleep", "write", "fsync", "update", "notify", "done"}
ClientPC  == {"active", "check", "window", "blocked", "acked"}

TypeOK ==
  /\ next_lsn \in Nat \ {0} /\ flushed_lsn \in Nat
  /\ buffer \in Seq(Record) /\ records \in Seq(Record)
  /\ stream \in Seq(Record) /\ file \in Seq(Record)
  /\ log_open \in BOOLEAN /\ running \in BOOLEAN
  /\ synced \in 0 .. Len(file)
  /\ flusher \in FlusherPC
  /\ written \in 0 .. Len(records)
  /\ pc \in [Client -> ClientPC]
  /\ commit_lsn \in [Client -> Nat]

Init ==
  /\ next_lsn = 1 /\ buffer = <<>> /\ flushed_lsn = 0
  /\ log_open \in LogOpens /\ stream = <<>> /\ file = <<>> /\ synced = 0
  /\ running = TRUE /\ flusher = "sleep" /\ records = <<>> /\ written = 0
  /\ pc = [c \in Client |-> "active"]
  /\ commit_lsn = [c \in Client |-> 0]

-----------------------------------------------------------------------------
(* Session threads                                                         *)

MutAppendRecord(c, k) ==
  /\ buffer' = Append(buffer, [lsn |-> next_lsn, entry |-> [txn |-> c, kind |-> k]])
  /\ next_lsn' = IF k = "COMMIT" THEN next_lsn + 1 ELSE next_lsn

\* The common body of logBegin, logPut, logDelete, logCommit and logAbort.
appendRecord(c, k) ==
  /\ buffer' = Append(buffer, [lsn |-> next_lsn, entry |-> [txn |-> c, kind |-> k]])
  /\ next_lsn' = next_lsn + 1

LogOp(c) ==
  /\ pc[c] = "active" /\ next_lsn <= MaxLSN
  /\ appendRecord(c, "OP")
  /\ UNCHANGED <<flushed_lsn, diskVars, flusherVars, clientVars>>

MutLogCommit(c) ==
  /\ pc[c] = "active" /\ next_lsn <= MaxLSN
  /\ appendRecord(c, "COMMIT")
  /\ UNCHANGED <<flushed_lsn, diskVars, flusherVars, clientVars>>

\* logCommit; the thread goes on to waitForCommit.
LogCommit(c) ==
  /\ pc[c] = "active" /\ next_lsn <= MaxLSN
  /\ appendRecord(c, "COMMIT")
  /\ commit_lsn' = [commit_lsn EXCEPT ![c] = next_lsn]
  /\ pc' = [pc EXCEPT ![c] = "check"]
  /\ UNCHANGED <<flushed_lsn, diskVars, flusherVars>>

\* cv_.wait evaluates its predicate, holding the GroupCommitManager's mtx_
\* (which a thread in its window still holds).
flushedUpTo(c) == flushed_lsn >= commit_lsn[c]

CheckPredicate(c) ==
  /\ pc[c] = "check"
  /\ \A d \in Client : pc[d] # "window"
  /\ pc' = [pc EXCEPT ![c] = IF flushedUpTo(c) THEN "acked" ELSE "window"]
  /\ UNCHANGED <<walVars, diskVars, flusherVars, commit_lsn>>

\* ... and, the predicate being false, blocks on the condition variable and
\* releases mtx_.  The notifier does not hold mtx_ and may run in between.
Block(c) ==
  /\ pc[c] = "window"
  /\ pc' = [pc EXCEPT ![c] = "blocked"]
  /\ UNCHANGED <<walVars, diskVars, flusherVars, commit_lsn>>

\* A condition variable may wake a thread without a notification.
SpuriousWake(c) ==
  /\ pc[c] = "blocked"
  /\ pc' = [pc EXCEPT ![c] = "check"]
  /\ UNCHANGED <<walVars, diskVars, flusherVars, commit_lsn>>

-----------------------------------------------------------------------------
(* The flusher thread: run() and flushOnce()                               *)

\* The end of a round: the loop test of run().
nextRound == IF running THEN "sleep" ELSE "done"

\* sleep_for, fetchAndClearBuffer; an empty buffer ends the round at once,
\* without a notification.
Fetch ==
  /\ flusher = "sleep"
  /\ IF buffer = <<>>
     THEN flusher' = nextRound /\ UNCHANGED <<buffer, records, written>>
     ELSE /\ flusher' = "write"
          /\ records' = buffer /\ written' = 0 /\ buffer' = <<>>
  /\ UNCHANGED <<next_lsn, flushed_lsn, diskVars, running, clientVars>>

updateFlushedLSN(lsn) ==
  flushed_lsn' = IF lsn > flushed_lsn THEN lsn ELSE flushed_lsn

\* One turn of the loop of writeToDisk.  flushed_lsn_ moves as soon as the
\* record is in the stream's buffer.
WriteRecord ==
  /\ flusher = "write" /\ log_open /\ written < Len(records)
  /\ stream' = Append(stream, records[written + 1])
  /\ written' = written + 1
  /\ updateFlushedLSN(records[written + 1].lsn)
  /\ UNCHANGED <<next_lsn, buffer, log_open, file, synced, running, flusher, records, clientVars>>

\* The stream's buffer is full: it writes some of what it holds to the file.
Spill(n) ==
  /\ flusher = "write" /\ log_open
  /\ file' = file \o SubSeq(stream, 1, n)
  /\ stream' = SubSeq(stream, n + 1, Len(stream))
  /\ UNCHANGED <<walVars, log_open, synced, flusherVars, clientVars>>

MutFlushStream ==
  /\ flusher = "write" /\ log_open /\ written = Len(records)
  /\ file' = file \o stream
  /\ stream' = <<>>
  /\ flusher' = IF running THEN "fsync" ELSE "done"
  /\ UNCHANGED <<walVars, log_open, synced, running, records, written, clientVars>>

\* log_file_.flush(), and the end of writeToDisk.
FlushStream ==
  /\ flusher = "write" /\ log_open /\ written = Len(records)
  /\ file' = file \o stream
  /\ stream' = <<>>
  /\ flusher' = "fsync"
  /\ UNCHANGED <<walVars, log_open, synced, running, records, written, clientVars>>

\* writeToDisk returns at once when the file could not be opened.
SkipWrite ==
  /\ flusher = "write" /\ ~log_open
  /\ flusher' = "fsync"
  /\ UNCHANGED <<walVars, diskVars, running, records, written, clientVars>>

MutFsync ==
  /\ flusher = "fsync"
  /\ flusher' = "update"
  /\ UNCHANGED <<walVars, diskVars, running, records, written, clientVars>>

Fsync ==
  /\ flusher = "fsync"
  /\ synced' = Len(file)
  /\ flusher' = "update"
  /\ UNCHANGED <<walVars, log_open, stream, file, running, records, written, clientVars>>

MutUpdateOpenOnly ==
  /\ flusher = "update"
  /\ flusher' = "notify"
  /\ UNCHANGED <<walVars, diskVars, running, records, written, clientVars>>

\* LSNs grow along a batch, so its last record has the max_lsn of the loop.
UpdateFlushed ==
  /\ flusher = "update"
  /\ updateFlushedLSN(records[Len(records)].lsn)
  /\ flusher' = "notify"
  /\ UNCHANGED <<next_lsn, buffer, diskVars, running, records, written, clientVars>>

MutNotifyAll ==
  /\ flusher = "notify"
  /\ pc' = [c \in Client |-> IF pc[c] = "blocked" THEN "check" ELSE pc[c]]
  /\ flusher' = nextRound
  /\ records' = <<>>
  /\ UNCHANGED <<walVars, diskVars, running, written, commit_lsn>>

\* cv_.notify_all(), and the end of flushOnce.
NotifyAll ==
  /\ flusher = "notify"
  /\ pc' = [c \in Client |-> IF pc[c] = "blocked" THEN "check" ELSE pc[c]]
  /\ flusher' = nextRound
  /\ records' = <<>> /\ written' = 0
  /\ UNCHANGED <<walVars, diskVars, running, commit_lsn>>

\* stop() (Server::shutdown): the flusher ends with its current round.
Stop ==
  /\ running
  /\ running' = FALSE
  /\ UNCHANGED <<walVars, diskVars, flusher, records, written, clientVars>>

-----------------------------------------------------------------------------
Flusher ==
  \/ Fetch
  \/ WriteRecord
  \/ FlushStream
  \/ SkipWrite
  \/ Fsync
  \/ UpdateFlushed
  \/ NotifyAll

Session(c) ==
  \/ LogOp(c)
  \/ LogCommit(c)
  \/ CheckPredicate(c)
  \/ Block(c)
  \/ SpuriousWake(c)

Next ==
  \/ \E c \in Client : Session(c)
  \/ Flusher
  \/ \E n \in 1 .. Len(stream) : Spill(n)
  \/ Stop

Spec == Init /\ [][Next]_vars

\* The threads are scheduled: the flusher, and a session inside waitForCommit.
\* Nothing obliges a session to log or to commit.
FairSpec ==
  /\ Spec
  /\ WF_vars(Flusher)
  /\ \A c \in Client : WF_vars(CheckPredicate(c)) /\ WF_vars(Block(c))

-----------------------------------------------------------------------------
(* Properties                                                              *)

\* Every record logged so far, in the order of the places it passes through.
unwritten == SubSeq(records, written + 1, Len(records))
pipeline  == file \o stream \o unwritten \o buffer

\* The promise is made for a log file that is open.
Log == INSTANCE CommitLog WITH
         Entry   <- [txn : Client, kind : Kind],
         log     <- IF log_open THEN pipeline ELSE <<>>,
         flushed <- IF log_open THEN flushed_lsn ELSE 0

\* The pipeline from buffer_ to the file neither loses, duplicates nor
\* reorders a record, although the steps of several threads interleave with
\* its hand-overs, and flushed_lsn_ follows it: the log implements CommitLog.
ImplementsCommitLog == Log!LogSpec

\* How far an acknowledgement can run ahead of the disk: an acknowledged
\* commit is on stable storage, or it is in the batch that the flusher is
\* writing at this moment.
AckWindowIsOneBatch ==
  \A c \in Client : log_open /\ pc[c] = "acked" =>
    \/ commit_lsn[c] <= synced
    \/ /\ flusher \in {"write", "fsync"}
       /\ \E i \in 1 .. written : records[i].lsn = commit_lsn[c]

\* stop() interrupts no batch: when the flusher has ended, what it took is on
\* stable storage and flushed_lsn_ promises exactly that, so that a commit it
\* did not come to waits, and is not acknowledged.
StopIsClean ==
  flusher = "done" /\ log_open => stream = <<>> /\ flushed_lsn = synced

\* Recovery applies a transaction when it finds its COMMIT: a COMMIT never
\* reaches the file before the other records of its transaction.
CommitComesLast ==
  \A i, j \in DOMAIN file :
    file[i].entry.kind = "COMMIT" /\ file[j].entry.txn = file[i].entry.txn => j <= i

\* FairSpec: every logged record is eventually on stable storage, unless the
\* file is not open or the flusher was stopped.
LoggedIsSynced ==
  \A n \in 1 .. MaxLSN : next_lsn > n ~> (synced >= n \/ ~running \/ ~log_open)

\* FairSpec: whatever becomes of the file, flushed_lsn_ catches up with every
\* commit, so the predicate of waitForCommit becomes true.
PredicateComesTrue ==
  \A c \in Client : pc[c] = "check" ~> (flushedUpTo(c) \/ ~running)

-----------------------------------------------------------------------------
(* What the documentation says                                             *)

\* README.md:25: "Once the server says committed, that data survives any later
\* crash".  A crash of the process leaves the file, that of the machine its
\* fsynced prefix.
AckedIsDurable ==
  \A c \in Client : pc[c] = "acked" => commit_lsn[c] <= synced

\* FairSpec.  chaos_tests/scenario_deadlocks.cpp reports a transaction that
\* is "blocked too long" as a failure: a commit returns.
CommitReturns ==
  \A c \in Client : pc[c] = "check" ~> (pc[c] = "acked" \/ ~running)
=============================================================================
