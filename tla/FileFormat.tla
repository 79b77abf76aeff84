------------------------------ MODULE FileFormat ------------------------------
(***************************************************************************)
(* The two files as sequences of fields: what serializeRecord              *)
(* (src/src/core/wal_manager.cpp) and writeSnapshotFile write, and what    *)
(* RecoveryManager (src/src/core/recovery_manager.cpp) and truncateWAL     *)
(* (src/src/core/checkpoint_manager.cpp) read, each in its own way.        *)
(* Recovery, which speaks of records, is checked against it.               *)
(*                                                                         *)
(* A number is one cell of the file and so is a character.  A length is    *)
(* stored modulo LenMod (2^16 in the code).  A CRC cell holds the cells    *)
(* that it was computed from: no others have the same CRC.                 *)
(***************************************************************************)
EXTENDS Naturals, Sequences, SequencesExt, FiniteSets, FiniteSetsExt

CONSTANTS
  LenMod,
  KeyLength, ValueLength,   \* the lengths of keys and values that are written
  MaxRecord,                \* bound: the number of records written
  MaxTruncate, MaxCrash,    \* bounds: the number of truncations, and of crashes
  MaxEntry                  \* bound: the number of entries of a snapshot

ASSUME LengthAssumption ==
  /\ LenMod \in Nat \ {0}
  /\ KeyLength \subseteq Nat \ {0} /\ ValueLength \subseteq Nat \ {0}

VARIABLES
  file,       \* the cells of wal/wal.log
  log,        \* the same in Recovery's terms
  written,    \* history: every record written
  last,       \* where the last record of this run starts, 0 if it was truncated
  next_lsn,
  truncations, crashes,
  data,       \* the cells of data/data.db
  entries     \* what was written to it

logVars  == <<file, log, written, last, next_lsn, truncations, crashes>>
snapVars == <<data, entries>>
vars     == <<logVars, snapVars>>

R == INSTANCE Recovery WITH Key <- {1}, Absent <- 0

-----------------------------------------------------------------------------
(* Writing                                                                 *)

\* RecordType.
BEGIN == 1
PUT == 2
DELETE == 3
COMMIT == 4

cell(field, n) == [field |-> field, n |-> n, crc |-> <<>>]
crc32(body)    == [field |-> "crc", n |-> 0, crc |-> body]

\* append_str: the length loses its upper bits, the string is whole.
append_str(n) == <<cell("len", n % LenMod)>> \o [i \in 1 .. n |-> cell("char", 0)]

MutSerializeRecord(r) ==
  LET body == <<cell("lsn", r.lsn), cell("txn", r.txn), cell("type", r.type)>> \o
              (IF r.type \in {PUT, DELETE} THEN append_str(r.klen) \o append_str(r.vlen) ELSE <<>>)
  IN  <<crc32(body)>> \o body

serializeRecord(r) ==
  LET body == <<cell("lsn", r.lsn), cell("txn", r.txn), cell("type", r.type)>> \o
              (IF r.type \in {PUT, DELETE} THEN append_str(r.klen) ELSE <<>>) \o
              (IF r.type = PUT THEN append_str(r.vlen) ELSE <<>>)
  IN  <<crc32(body)>> \o body

MutCut(n) == append_str(n)

\* writeSnapshotFile cuts the string to the length it has stored.
cut(n) == append_str(n % LenMod)

\* A snapshot of the entries es, each with the lengths of its key and value.
snapshotFile(checkpoint_lsn, es) ==
  <<cell("magic", 0), cell("version", 1), cell("lsn", checkpoint_lsn), cell("count", Len(es))>> \o
  FlattenSeq([i \in DOMAIN es |-> cut(es[i][1]) \o cut(es[i][2])])

-----------------------------------------------------------------------------
(* Reading: positions in a file.  A read that passes the end of the file   *)
(* ends at Eof(f) and so do the reads after it.                            *)

Eof(f) == Len(f) + 2

\* The position behind n cells that start at p.
after(f, p, n) == IF p + n - 1 <= Len(f) THEN p + n ELSE Eof(f)

\* The position behind a length and its string.
afterString(f, p) == IF p <= Len(f) THEN after(f, p + 1, f[p].n) ELSE Eof(f)

\* recover: the position behind the record at p.
afterRecord(f, p) ==
  LET h == after(f, p, 4)
      type == f[p + 3].n
  IN  IF h = Eof(f) THEN h
      ELSE IF type = PUT THEN afterString(f, afterString(f, h))
      ELSE IF type = DELETE THEN afterString(f, h)
      ELSE h

MutValid(f, p) == afterRecord(f, p) # Eof(f)

\* The whole record is there and its CRC matches.
valid(f, p) ==
  LET q == afterRecord(f, p)
  IN  q # Eof(f) /\ f[p] = crc32(SubSeq(f, p + 1, q - 1))

\* A record in Recovery's terms; the lengths of its strings stand for them.
record(lsn, txn, type, klen, vlen) ==
  [lsn |-> lsn, txn |-> txn,
   kind |-> CASE type = BEGIN -> "BEGIN" [] type = COMMIT -> "COMMIT" [] OTHER -> "WRITE",
   key |-> klen, value |-> vlen]

recordAt(f, p) ==
  LET type == f[p + 3].n
      klen == IF type \in {PUT, DELETE} THEN f[p + 4].n ELSE 0
      vlen == IF type = PUT THEN f[p + 5 + klen].n ELSE 0
  IN  record(f[p + 1].n, f[p + 2].n, type, klen, vlen)

\* The records that the loop of recover() accepts, from p on.
RECURSIVE accepted(_, _)
accepted(f, p) ==
  IF valid(f, p) THEN <<recordAt(f, p)>> \o accepted(f, afterRecord(f, p)) ELSE <<>>

\* loadSnapshot: the entries stored, and whether checkpoint_lsn_ was set.
RECURSIVE storedFrom(_, _, _)
storedFrom(f, p, count) ==
  LET q == afterString(f, p)
      e == afterString(f, q)
  IN  IF count = 0 \/ e = Eof(f) THEN <<>>
      ELSE <<<<f[p].n, f[q].n>>>> \o storedFrom(f, e, count - 1)

loadSnapshot(f) ==
  IF Len(f) < 4 THEN [lsn |-> 0, stored |-> <<>>]
  ELSE [lsn |-> f[3].n, stored |-> storedFrom(f, 5, f[4].n)]

-----------------------------------------------------------------------------
(* truncateWAL                                                             *)

\* It is lost at p when no record starts there.  Lost, it takes any cell for
\* any number; at a record it knows the type and the LSN for what they are.
lost(f, p) == f[p].field # "crc"

lengthsAt(f, p, q) ==
  IF ~lost(f, p) /\ f[q].field = "len" THEN {f[q].n} ELSE 0 .. LenMod - 1

\* The positions behind a string at q, for a record that was begun at p.
stringEnds(f, p, q) ==
  IF q > Len(f) THEN {Eof(f)} ELSE {after(f, q + 1, n) : n \in lengthsAt(f, p, q)}

\* The positions where it can see the record that it began at p end.
truncateEnds(f, p) ==
  LET h == after(f, p, 4)
      keyEnds == stringEnds(f, p, h)
      valueEnds == UNION {stringEnds(f, p, q) : q \in keyEnds}
  IN  IF h = Eof(f) THEN {h}
      ELSE (IF lost(f, p) \/ f[p + 3].n \in {PUT, DELETE} THEN valueEnds ELSE {}) \cup
           (IF lost(f, p) \/ f[p + 3].n \notin {PUT, DELETE} THEN keyEnds ELSE {})

MutKeeps(f, p, checkpoint_lsn) ==
  IF lost(f, p) THEN BOOLEAN ELSE {f[p + 1].n >= checkpoint_lsn}

\* Whether it keeps the record that it began at p.
keeps(f, p, checkpoint_lsn) ==
  IF lost(f, p) THEN BOOLEAN ELSE {f[p + 1].n > checkpoint_lsn}

\* What it can keep of f from p on.
RECURSIVE remaining(_, _, _)
remaining(f, p, checkpoint_lsn) ==
  UNION {IF e = Eof(f) THEN {<<>>}
         ELSE {(IF k THEN SubSeq(f, p, e - 1) ELSE <<>>) \o t :
                 k \in keeps(f, p, checkpoint_lsn), t \in remaining(f, e, checkpoint_lsn)}
         : e \in truncateEnds(f, p)}

-----------------------------------------------------------------------------
(* The files                                                               *)

Init ==
  /\ file = <<>> /\ log = <<>> /\ written = <<>>
  /\ last = 0 /\ next_lsn = 1 /\ truncations = 0 /\ crashes = 0
  /\ data = <<>> /\ entries = <<>>

\* A record (of transaction 1) goes to the log.  A string of LenMod characters
\* or more makes it unreadable.
WriteRecord(type, klen, vlen) ==
  LET r == record(next_lsn, 1, type, klen, vlen) IN
  /\ Len(written) < MaxRecord /\ data = <<>>
  /\ file' = file \o serializeRecord([lsn |-> next_lsn, txn |-> 1, type |-> type,
                                      klen |-> klen, vlen |-> vlen])
  /\ log' = Append(log, IF klen < LenMod /\ vlen < LenMod THEN r ELSE R!Garbage)
  /\ written' = Append(written, r)
  /\ last' = Len(file) + 1
  /\ next_lsn' = next_lsn + 1
  /\ UNCHANGED <<truncations, crashes, snapVars>>

\* The process ends in the middle of a write: n cells of the record are in the
\* file, and the next run appends behind them.
Crash(n) ==
  /\ crashes < MaxCrash /\ last # 0
  /\ last + n <= Len(file)
  /\ file' = SubSeq(file, 1, last - 1 + n)
  /\ log' = IF n = 0 THEN Front(log) ELSE Append(Front(log), R!Garbage)
  /\ crashes' = crashes + 1
  /\ last' = 0 /\ next_lsn' = 1
  /\ UNCHANGED <<written, truncations, snapVars>>

\* A file in Recovery's terms, from p on: its records, and Garbage where there
\* are cells that belong to none.
RECURSIVE asLog(_, _)
asLog(f, p) ==
  IF p > Len(f) THEN <<>>
  ELSE IF valid(f, p) THEN <<recordAt(f, p)>> \o asLog(f, afterRecord(f, p))
  ELSE <<R!Garbage>> \o asLog(f, Min({q \in p + 1 .. Len(f) : valid(f, q)} \cup {Len(f) + 1}))

TruncateWAL(checkpoint_lsn) ==
  /\ file # <<>> /\ truncations < MaxTruncate
  /\ file' \in remaining(file, 1, checkpoint_lsn)
  /\ log' = asLog(file', 1)
  /\ truncations' = truncations + 1
  /\ last' = 0
  /\ UNCHANGED <<written, next_lsn, crashes, snapVars>>

\* A snapshot of which n cells are in the file.  The two formats have nothing
\* to do with each other: one file at a time.
WriteSnapshotFile(es, n) ==
  /\ written = <<>>
  /\ data' = SubSeq(snapshotFile(1, es), 1, n)
  /\ entries' = es
  /\ UNCHANGED logVars

Next ==
  \/ \E t \in {BEGIN, COMMIT} : WriteRecord(t, 0, 0)
  \/ \E k \in KeyLength : WriteRecord(DELETE, k, 0)
  \/ \E k \in KeyLength, v \in ValueLength : WriteRecord(PUT, k, v)
  \/ \E n \in 0 .. Len(file) : Crash(n)
  \/ \E c \in 0 .. next_lsn - 1 : TruncateWAL(c)
  \/ \E es \in SeqOf(KeyLength \X ValueLength, MaxEntry) :
       \E n \in 0 .. Len(snapshotFile(1, es)) : WriteSnapshotFile(es, n)

Spec == Init /\ [][Next]_vars

-----------------------------------------------------------------------------
(* Properties                                                              *)

\* recover() reads back exactly the records that were written, in order, up to
\* the first that a crash has torn or that has a string of 2^16 characters or
\* more, and none behind it: what Recovery!readable says of a log
\* (serializeRecord, append_str, recover).
RecoverReadsBack == accepted(file, 1) = R!readable(log)

\* Whatever truncateWAL keeps when it loses its place in the log, recover()
\* accepts only records that were written, in their order.
NothingInvented ==
  \E D \in SUBSET DOMAIN written :
    LET order == SetToSortSeq(D, <)
    IN  accepted(file, 1) = [i \in DOMAIN order |-> written[order[i]]]

\* What recover() can read of a log of one run after its first truncateWAL is
\* one of the outcomes of Recovery!truncated, whatever lengths are misread.
TruncatedAsAbstracted ==
  file # <<>> /\ truncations = 0 /\ crashes = 0 =>
    \A c \in 0 .. next_lsn - 1 : \A f \in remaining(file, 1, c) :
      \E t \in R!truncated(log, c, TRUE) : R!readable(t) = accepted(f, 1)

\* A snapshot, whole or not, loads a prefix of the entries it was written from,
\* a whole one all of them, with every string cut to its length modulo 2^16
\* (writeSnapshotFile, loadSnapshot).
SnapshotLoads ==
  LET stored == loadSnapshot(data).stored IN
  /\ IsPrefix(stored, [i \in DOMAIN entries |-> <<entries[i][1] % LenMod, entries[i][2] % LenMod>>])
  /\ data = snapshotFile(1, entries) => Len(stored) = Len(entries)
=============================================================================
