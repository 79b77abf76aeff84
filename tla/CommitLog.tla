------------------------------ MODULE CommitLog ------------------------------
(***************************************************************************)
(* What the write-ahead log and its group commit promise to a transaction: *)
(* one sequence of records, in which a record's position is its LSN and to *)
(* which records are only ever added at the end, and a flushed LSN that    *)
(* only grows and never runs ahead of the log.  A commit is acknowledged   *)
(* once the flushed LSN has reached its COMMIT record.                     *)
(*                                                                         *)
(* GroupCommit implements this specification; TransactionManager uses it.  *)
(***************************************************************************)
EXTENDS Naturals, Sequences

CONSTANT Entry          \* what a record says, apart from its LSN

VARIABLES log,          \* the records, those on their way to the file included
          flushed       \* flushed_lsn_

logVars == <<log, flushed>>

LogInit == log = <<>> /\ flushed = 0

nextLSN == Len(log) + 1

\* logBegin, logPut, logDelete, logCommit, logAbort.
LogRecord(e) ==
  /\ log' = Append(log, [lsn |-> nextLSN, entry |-> e])
  /\ UNCHANGED flushed

\* A step of the flusher: any number of records become flushed.
Advance ==
  /\ flushed' \in flushed + 1 .. Len(log)
  /\ UNCHANGED log

LogNext == Advance \/ \E e \in Entry : LogRecord(e)

LogSpec == LogInit /\ [][LogNext]_logVars
=============================================================================
