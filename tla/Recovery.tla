------------------------------- MODULE Recovery -------------------------------
(***************************************************************************)
(* What RecoveryManager (src/src/core/recovery_manager.cpp) reads from its *)
(* two files, and what CheckpointManager::truncateWAL                      *)
(* (src/src/core/checkpoint_manager.cpp) leaves of the log.                *)
(*                                                                         *)
(* A log is a sequence of records.  Bytes that are no record (a torn       *)
(* record, or a piece of the log that starts inside one) are Garbage: no   *)
(* CRC that is computed over them matches.                                 *)
(***************************************************************************)
EXTENDS Naturals, Sequences, FiniteSets, SequencesExt

CONSTANTS Key, Absent     \* Absent: the key is not in the store

NoKey   == 0
Garbage == [lsn |-> 0, txn |-> 0, kind |-> "GARBAGE", key |-> NoKey, value |-> Absent]

EmptyStore == [k \in Key |-> Absent]

\* The contents of a file.
NoFile              == [kind |-> "none"]
EmptyFile           == [kind |-> "empty"]
LogFile(r)          == [kind |-> "log", records |-> r]
Snapshot(lsn, st)   == [kind |-> "snapshot", checkpoint_lsn |-> lsn, entries |-> st]

-----------------------------------------------------------------------------
(* RecoveryManager                                                         *)

\* checkpoint_lsn_ and the store after loadSnapshot.  An empty file has no
\* header, and a log does not start with the magic number of a snapshot.
loadSnapshot(data_file) ==
  IF data_file.kind = "snapshot" THEN data_file ELSE Snapshot(0, EmptyStore)

\* The read loop stops at the first record whose CRC does not match.
readable(r) ==
  LET bad == SelectInSeq(r, LAMBDA e : e = Garbage)
  IN  IF bad = 0 THEN r ELSE SubSeq(r, 1, bad - 1)

\* The records that the loop collects, in file order.  A snapshot is not a
\* sequence of records.
collected(wal_file, checkpoint_lsn) ==
  IF wal_file.kind = "log"
  THEN SelectSeq(readable(wal_file.records), LAMBDA e : e.lsn > checkpoint_lsn)
  ELSE <<>>

\* txns[t].ops.
ops(r, t) == SelectSeq(r, LAMBDA e : e.txn = t /\ e.kind = "WRITE")

\* txns[t].committed: the last COMMIT or ABORT record decides.
committed(r, t) ==
  LET last == SelectLastInSeq(r, LAMBDA e : e.txn = t /\ e.kind \in {"COMMIT", "ABORT"})
  IN  last # 0 /\ r[last].kind = "COMMIT"

\* commit_order after std::sort, which may leave equal LSNs in any order.
commit_orders(r) ==
  {o \in SetToSeqs({i \in DOMAIN r : r[i].kind = "COMMIT"}) :
     \A i, j \in DOMAIN o : i < j => r[o[i]].lsn <= r[o[j]].lsn}

\* The ops of a committed transaction, put or deleted in turn.
apply(st, w) == FoldLeft(LAMBDA s, e : [s EXCEPT ![e.key] = e.value], st, w)

\* The stores that recover() can produce.
recover(data_file, wal_file) ==
  LET snapshot == loadSnapshot(data_file)
      r        == collected(wal_file, snapshot.checkpoint_lsn)
      redo(st, i) == IF committed(r, r[i].txn) THEN apply(st, ops(r, r[i].txn)) ELSE st
  IN  {FoldLeft(redo, snapshot.entries, o) : o \in commit_orders(r)}

-----------------------------------------------------------------------------
(* truncateWAL                                                             *)

\* truncateWAL takes every record to have a key, and PUT and DELETE to have a
\* value: of these only PUT is as it takes it.
parsed(e) == e.kind = "WRITE" /\ e.value # Absent

\* What truncateWAL can keep of the log r.  At a record without a value it takes
\* bytes behind it for lengths.  If those do not fit in the file it stops.  If
\* they fit it goes on inside of a record, where the LSN that it sees is
\* arbitrary, until the log ends or it happens on the start of a record, m + 1.
\* If it keeps the record that it began with, then of the records up to there
\* any others with it; if not, at most pieces, which are Garbage.
truncated(r, checkpoint_lsn, misread_fits) ==
  LET kept(i) == r[i].lsn > checkpoint_lsn
      chosen(D) == LET order == SetToSortSeq(D, <) IN [j \in DOMAIN order |-> r[order[j]]]
      pieces(i, m) == {p \o g : p \in {chosen(D) : D \in {C \in SUBSET (i .. m) :
                                         IF kept(i) THEN i \in C ELSE C = {}}},
                                g \in {<<>>, <<Garbage>>}}
      from[i \in 1 .. Len(r) + 1] ==
        IF i > Len(r) THEN {<<>>}
        ELSE IF parsed(r[i]) THEN {(IF kept(i) THEN <<r[i]>> ELSE <<>>) \o t : t \in from[i + 1]}
        ELSE {<<>>} \cup
             UNION {{p \o t : p \in pieces(i, m), t \in from[m + 1]} :
                      m \in {j \in i .. Len(r) : misread_fits /\ (j > i \/ r[i] = Garbage)}}
  IN  from[1]
=============================================================================
