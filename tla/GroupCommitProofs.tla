-------------------------- MODULE GroupCommitProofs --------------------------
(* Proofs about GroupCommit, for any set of session threads and any number *)
(* of records.                                                             *)
EXTENDS GroupCommit, SequenceTheorems, TLAPS

\* The flusher holds a batch exactly while it is in a round.
Batches ==
  /\ flusher \in {"sleep", "done"} => records = <<>>
  /\ flusher \notin {"sleep", "done"} => records # <<>>
  /\ ~log_open => file = <<>> /\ stream = <<>>

\* With the log file open, a record's LSN is its position in the pipeline
\* from the file to buffer_, place by place, ...
Positions ==
  log_open =>
    /\ \A i \in 1 .. Len(file)    : file[i].lsn = i
    /\ \A i \in 1 .. Len(stream)  : stream[i].lsn = Len(file) + i
    /\ \A i \in 1 .. Len(records) : records[i].lsn + written = Len(file) + Len(stream) + i
    /\ \A i \in 1 .. Len(buffer)  : buffer[i].lsn + written = Len(file) + Len(stream) + Len(records) + i

\* ... and flushed_lsn_ counts the records that have been written.
Counts ==
  log_open =>
    /\ next_lsn + written = Len(file) + Len(stream) + Len(records) + Len(buffer) + 1
    /\ flushed_lsn = Len(file) + Len(stream)

\* What is on stable storage, by where the flusher is.
Syncs ==
  log_open =>
    /\ flusher # "write" => stream = <<>> /\ written = Len(records)
    /\ flusher \in {"write", "fsync"} => synced + written = Len(file) + Len(stream)
    /\ flusher \notin {"write", "fsync"} => synced = Len(file)

\* The LSN that a session thread in waitForCommit waits for.
Commits ==
  log_open =>
    \A c \in Client :
      /\ pc[c] # "active" => commit_lsn[c] < next_lsn
      /\ pc[c] = "acked" => commit_lsn[c] <= flushed_lsn

\* A record of a transaction that has committed is not behind its COMMIT.
marked(r) ==
  /\ pc[r.entry.txn] # "active" => r.lsn <= commit_lsn[r.entry.txn]
  /\ r.entry.kind = "COMMIT" => pc[r.entry.txn] # "active" /\ r.lsn = commit_lsn[r.entry.txn]

Marks ==
  log_open =>
    /\ \A i \in 1 .. Len(file)    : marked(file[i])
    /\ \A i \in 1 .. Len(stream)  : marked(stream[i])
    /\ \A i \in 1 .. Len(records) : marked(records[i])
    /\ \A i \in 1 .. Len(buffer)  : marked(buffer[i])

IInv == TypeOK /\ Batches /\ Positions /\ Counts /\ Syncs /\ Commits /\ Marks

-----------------------------------------------------------------------------
\* The lengths and the elements of the four places.
LEMMA Lengths ==
  ASSUME TypeOK
  PROVE  Len(file) \in Nat /\ Len(stream) \in Nat /\ Len(records) \in Nat /\ Len(buffer) \in Nat
  BY LenProperties DEF TypeOK

LEMMA Elements ==
  ASSUME TypeOK
  PROVE  /\ \A i \in 1 .. Len(file) : file[i] \in Record
         /\ \A i \in 1 .. Len(stream) : stream[i] \in Record
         /\ \A i \in 1 .. Len(records) : records[i] \in Record
         /\ \A i \in 1 .. Len(buffer) : buffer[i] \in Record
  BY ElementOfSeq DEF TypeOK

\* Every logged record is older than next_lsn_.
LEMMA Older ==
  ASSUME IInv, log_open
  PROVE  /\ \A i \in 1 .. Len(file) : file[i].lsn < next_lsn
         /\ \A i \in 1 .. Len(stream) : stream[i].lsn < next_lsn
         /\ \A i \in 1 .. Len(records) : records[i].lsn < next_lsn
         /\ \A i \in 1 .. Len(buffer) : buffer[i].lsn < next_lsn
<1>1. TypeOK /\ Positions
  BY DEF IInv
<1>2. Len(file) \in Nat /\ Len(stream) \in Nat /\ Len(records) \in Nat /\ Len(buffer) \in Nat
  BY <1>1, Lengths
<1>3. next_lsn + written = Len(file) + Len(stream) + Len(records) + Len(buffer) + 1
  BY DEF IInv, Counts
<1>4. next_lsn \in Nat /\ written \in Nat /\ written <= Len(records)
  BY <1>1, <1>2 DEF TypeOK
<1>5. \A i \in 1 .. Len(file) : file[i].lsn < next_lsn
  BY <1>1, <1>2, <1>3, <1>4 DEF Positions
<1>6. \A i \in 1 .. Len(stream) : stream[i].lsn < next_lsn
  BY <1>1, <1>2, <1>3, <1>4 DEF Positions
<1>7. ASSUME NEW i \in 1 .. Len(records)
      PROVE  records[i].lsn < next_lsn
  <2>1. records[i].lsn + written = Len(file) + Len(stream) + i
    BY <1>1 DEF Positions
  <2>2. records[i].lsn \in Nat
    BY <1>1, Elements DEF Record
  <2> QED BY <2>1, <2>2, <1>2, <1>3, <1>4
<1>8. ASSUME NEW i \in 1 .. Len(buffer)
      PROVE  buffer[i].lsn < next_lsn
  <2>1. buffer[i].lsn + written = Len(file) + Len(stream) + Len(records) + i
    BY <1>1 DEF Positions
  <2>2. buffer[i].lsn \in Nat
    BY <1>1, Elements DEF Record
  <2> QED BY <2>1, <2>2, <1>2, <1>3, <1>4
<1> QED BY <1>5, <1>6, <1>7, <1>8

\* The initial state satisfies the invariant.
LEMMA InvInit == Init => IInv
<1> SUFFICES ASSUME Init PROVE IInv
  OBVIOUS
<1>1. <<>> \in Seq(Record) /\ Len(<<>>) = 0
  BY EmptySeq
<1>2. TypeOK
  BY <1>1, LogOpensAssumption DEF Init, TypeOK, FlusherPC, ClientPC
<1>3. Batches /\ Positions /\ Counts /\ Syncs /\ Commits /\ Marks
  BY <1>1 DEF Init, Batches, Positions, Counts, Syncs, Commits, Marks
<1> QED BY <1>2, <1>3 DEF IInv

\* appendRecord puts a record with the next LSN behind all others.
LEMMA AppendSpec ==
  ASSUME TypeOK, NEW c \in Client, NEW k \in Kind, appendRecord(c, k)
  PROVE  /\ buffer' \in Seq(Record) /\ Len(buffer') = Len(buffer) + 1
         /\ \A i \in 1 .. Len(buffer) : buffer'[i] = buffer[i]
         /\ buffer'[Len(buffer) + 1].lsn = next_lsn
         /\ buffer'[Len(buffer) + 1].entry.txn = c
         /\ buffer'[Len(buffer) + 1].entry.kind = k
         /\ next_lsn' = next_lsn + 1
<1> DEFINE r == [lsn |-> next_lsn, entry |-> [txn |-> c, kind |-> k]]
<1>1. r \in Record /\ r.lsn = next_lsn /\ r.entry.txn = c /\ r.entry.kind = k
  BY DEF TypeOK, Record
<1>2. buffer' = Append(buffer, r) /\ next_lsn' = next_lsn + 1
  BY DEF appendRecord
<1> HIDE DEF r
<1>3. buffer \in Seq(Record) /\ Len(buffer) \in Nat
  BY LenProperties DEF TypeOK
<1> QED BY <1>1, <1>2, <1>3, AppendProperties

\* A record logged by c leaves LSNs and positions in agreement.
LEMMA AppendPositions ==
  ASSUME IInv, NEW c \in Client, NEW k \in Kind, appendRecord(c, k),
         UNCHANGED <<flushed_lsn, diskVars, flusherVars>>
  PROVE  Positions' /\ Counts'
<1> SUFFICES ASSUME log_open' PROVE Positions' /\ Counts'
  BY DEF Positions, Counts
<1>1. /\ file' = file /\ stream' = stream /\ records' = records /\ written' = written
      /\ log_open /\ flushed_lsn' = flushed_lsn
  BY DEF diskVars, flusherVars
<1>2. TypeOK /\ Positions /\ Counts
  BY DEF IInv
<1>3. /\ Len(buffer') = Len(buffer) + 1
      /\ \A i \in 1 .. Len(buffer) : buffer'[i] = buffer[i]
      /\ buffer'[Len(buffer) + 1].lsn = next_lsn
      /\ next_lsn' = next_lsn + 1
  BY <1>2, AppendSpec
<1>4. Len(file) \in Nat /\ Len(stream) \in Nat /\ Len(records) \in Nat /\ Len(buffer) \in Nat
  BY <1>2, Lengths
<1>5. written \in Nat /\ next_lsn \in Nat
  BY <1>2, <1>4 DEF TypeOK
<1>6. /\ next_lsn + written = Len(file) + Len(stream) + Len(records) + Len(buffer) + 1
      /\ flushed_lsn = Len(file) + Len(stream)
  BY <1>1, <1>2 DEF Counts
<1>7. Counts'
  BY <1>1, <1>3, <1>4, <1>5, <1>6 DEF Counts
<1>8. \A i \in 1 .. Len(buffer') :
        buffer'[i].lsn + written = Len(file) + Len(stream) + Len(records) + i
  <2> TAKE i \in 1 .. Len(buffer')
  <2>1. CASE i \in 1 .. Len(buffer)
    BY <2>1, <1>1, <1>2, <1>3 DEF Positions
  <2>2. CASE i = Len(buffer) + 1
    BY <2>2, <1>3, <1>4, <1>5, <1>6
  <2> QED BY <2>1, <2>2, <1>3, <1>4
<1>9. Positions'
  BY <1>1, <1>2, <1>8 DEF Positions
<1> QED BY <1>7, <1>9

\* The invariant is preserved by the steps of a session thread.
LEMMA SessionStep ==
  ASSUME IInv, NEW c \in Client, Session(c)
  PROVE  IInv'
<1>1. CASE LogOp(c)
  <2>1. "OP" \in Kind /\ "COMMIT" # "OP"
    BY DEF Kind
  <2>2. TypeOK /\ appendRecord(c, "OP")
    BY <1>1 DEF LogOp, IInv
  <2>3. /\ buffer' \in Seq(Record) /\ Len(buffer') = Len(buffer) + 1
        /\ \A i \in 1 .. Len(buffer) : buffer'[i] = buffer[i]
        /\ buffer'[Len(buffer) + 1].lsn = next_lsn
        /\ buffer'[Len(buffer) + 1].entry.txn = c
        /\ buffer'[Len(buffer) + 1].entry.kind = "OP"
        /\ next_lsn' = next_lsn + 1
    BY <2>1, <2>2, AppendSpec
  <2>4. UNCHANGED <<flushed_lsn, diskVars, flusherVars, clientVars>> /\ pc[c] = "active"
    BY <1>1 DEF LogOp
  <2>5. TypeOK'
    BY <2>2, <2>3, <2>4 DEF TypeOK, diskVars, flusherVars, clientVars
  <2>6. Batches' /\ Syncs' /\ Commits'
    BY <2>2, <2>3, <2>4 DEF IInv, TypeOK, Batches, Syncs, Commits, diskVars, flusherVars, clientVars
  <2>7. Positions' /\ Counts'
    BY <2>1, <2>2, <2>4, AppendPositions
  <2>8. Marks'
    <3> SUFFICES ASSUME log_open' PROVE Marks'
      BY DEF Marks
    <3>1. log_open /\ Marks
      BY <2>4 DEF IInv, diskVars
    <3>2. \A r : marked(r) => marked(r)'
      BY <2>4 DEF marked, clientVars
    <3>3. \A i \in 1 .. Len(buffer') : marked(buffer[i])'
      <4> TAKE i \in 1 .. Len(buffer')
      <4>1. CASE i \in 1 .. Len(buffer)
        BY <4>1, <3>1, <2>3, <2>4 DEF Marks, marked, clientVars
      <4>2. CASE i = Len(buffer) + 1
        BY <4>2, <2>1, <2>3, <2>4 DEF marked, clientVars
      <4> QED BY <4>1, <4>2, <2>2, <2>3, Lengths
    <3> QED BY <3>1, <3>3, <2>4 DEF Marks, marked, diskVars, flusherVars, clientVars
  <2> QED BY <2>5, <2>6, <2>7, <2>8 DEF IInv
<1>2. CASE LogCommit(c)
  <2>1. "COMMIT" \in Kind
    BY DEF Kind
  <2>2. TypeOK /\ appendRecord(c, "COMMIT")
    BY <1>2 DEF LogCommit, IInv
  <2>3. /\ buffer' \in Seq(Record) /\ Len(buffer') = Len(buffer) + 1
        /\ \A i \in 1 .. Len(buffer) : buffer'[i] = buffer[i]
        /\ buffer'[Len(buffer) + 1].lsn = next_lsn
        /\ buffer'[Len(buffer) + 1].entry.txn = c
        /\ next_lsn' = next_lsn + 1
    BY <2>1, <2>2, AppendSpec
  <2>4. /\ UNCHANGED <<flushed_lsn, diskVars, flusherVars>> /\ pc[c] = "active"
        /\ pc' = [pc EXCEPT ![c] = "check"]
        /\ commit_lsn' = [commit_lsn EXCEPT ![c] = next_lsn]
    BY <1>2 DEF LogCommit
  <2>5. TypeOK'
    BY <2>2, <2>3, <2>4 DEF TypeOK, ClientPC, diskVars, flusherVars
  <2>6. Batches' /\ Syncs' /\ Commits'
    BY <2>2, <2>3, <2>4 DEF IInv, TypeOK, Batches, Syncs, Commits, diskVars, flusherVars
  <2>7. Positions' /\ Counts'
    BY <2>1, <2>2, <2>4, AppendPositions
  <2>8. Marks'
    <3> SUFFICES ASSUME log_open' PROVE Marks'
      BY DEF Marks
    <3>1. log_open /\ Marks /\ Positions /\ Counts
      BY <2>4 DEF IInv, diskVars
    <3>2. ASSUME NEW r \in Record, marked(r), r.lsn < next_lsn
          PROVE  marked(r)'
      BY <3>2, <2>2, <2>4 DEF marked, TypeOK, Record
    <3>3. /\ \A i \in 1 .. Len(file) : file[i].lsn < next_lsn
          /\ \A i \in 1 .. Len(stream) : stream[i].lsn < next_lsn
          /\ \A i \in 1 .. Len(records) : records[i].lsn < next_lsn
          /\ \A i \in 1 .. Len(buffer) : buffer[i].lsn < next_lsn
      BY <3>1, Older
    <3>4. \A i \in 1 .. Len(buffer') : marked(buffer[i])'
      <4> TAKE i \in 1 .. Len(buffer')
      <4>1. CASE i \in 1 .. Len(buffer)
        BY <4>1, <3>1, <3>2, <3>3, <2>2, <2>3, Elements DEF Marks
      <4>2. CASE i = Len(buffer) + 1
        BY <4>2, <2>2, <2>3, <2>4 DEF marked, TypeOK
      <4> QED BY <4>1, <4>2, <2>2, <2>3, Lengths
    <3> QED BY <3>1, <3>2, <3>3, <3>4, <2>2, <2>4, Elements DEF Marks, diskVars, flusherVars
  <2> QED BY <2>5, <2>6, <2>7, <2>8 DEF IInv
<1>3. CASE CheckPredicate(c) \/ Block(c) \/ SpuriousWake(c)
  <2>1. PICK p \in ClientPC \ {"active"} :
          /\ pc' = [pc EXCEPT ![c] = p] /\ pc[c] # "active"
          /\ p = "acked" => flushed_lsn >= commit_lsn[c]
          /\ UNCHANGED <<walVars, diskVars, flusherVars, commit_lsn>>
    BY <1>3 DEF CheckPredicate, Block, SpuriousWake, flushedUpTo, ClientPC
  <2>2. TypeOK'
    BY <2>1 DEF IInv, TypeOK, walVars, diskVars, flusherVars
  <2>3. Batches' /\ Positions' /\ Counts' /\ Syncs' /\ Commits'
    BY <2>1, SMTT(30) DEF IInv, TypeOK, Batches, Positions, Counts, Syncs, Commits, walVars, diskVars, flusherVars
  <2>4. Marks'
    <3>1. ASSUME NEW r \in Record, marked(r)
          PROVE  marked(r)'
      BY <3>1, <2>1 DEF IInv, TypeOK, marked, Record
    <3> QED BY <3>1, <2>1, Elements DEF IInv, Marks, walVars, diskVars, flusherVars
  <2> QED BY <2>2, <2>3, <2>4 DEF IInv
<1> QED BY <1>1, <1>2, <1>3 DEF Session

\* The invariant is preserved when records move from one place to the next.
LEMMA FetchStep ==
  ASSUME IInv, Fetch
  PROVE  IInv'
<1>1. CASE buffer = <<>>
  <2>1. flusher = "sleep" /\ flusher' \in {"sleep", "done"}
    BY <1>1 DEF Fetch, nextRound
  <2>2. UNCHANGED <<buffer, records, written, next_lsn, flushed_lsn, diskVars, running, clientVars>>
    BY <1>1 DEF Fetch
  <2> QED BY <2>1, <2>2, ZenonT(30) DEF IInv, TypeOK, FlusherPC, Batches, Positions, Counts, Syncs, Commits,
                           Marks, marked, diskVars, clientVars
<1>2. CASE buffer # <<>>
  <2>1. /\ flusher = "sleep" /\ flusher' = "write"
        /\ records' = buffer /\ written' = 0 /\ buffer' = <<>>
        /\ UNCHANGED <<next_lsn, flushed_lsn, diskVars, running, clientVars>>
    BY <1>2 DEF Fetch
  <2>2. /\ TypeOK /\ records = <<>> /\ <<>> \in Seq(Record) /\ Len(<<>>) = 0
        /\ log_open => written = 0 /\ stream = <<>> /\ synced = Len(file)
    BY <2>1, EmptySeq DEF IInv, Batches, Syncs
  <2>3. Len(file) \in Nat /\ Len(stream) \in Nat /\ Len(records) = 0 /\ Len(buffer) \in Nat
    BY <2>2, Lengths
  <2>4. TypeOK' /\ Batches'
    BY <1>2, <2>1, <2>2, <2>3 DEF IInv, Batches, TypeOK, FlusherPC, diskVars, clientVars
  <2>5. Positions' /\ Counts'
    BY <2>1, <2>2, <2>3 DEF IInv, Positions, Counts, diskVars
  <2>6. Syncs' /\ Commits'
    BY <2>1, <2>2, <2>3 DEF IInv, Syncs, Commits, diskVars, clientVars
  <2>7. Marks'
    BY <2>1, <2>2 DEF IInv, Marks, marked, diskVars, clientVars
  <2> QED BY <2>4, <2>5, <2>6, <2>7 DEF IInv
<1> QED BY <1>1, <1>2

LEMMA WriteStep ==
  ASSUME IInv, WriteRecord
  PROVE  IInv'
<1> DEFINE r == records[written + 1]
<1>1. flusher = "write" /\ log_open /\ written < Len(records)
  BY DEF WriteRecord
<1>2. /\ stream' = Append(stream, r) /\ updateFlushedLSN(r.lsn)
      /\ UNCHANGED <<synced, running, flusher, clientVars>>
  BY DEF WriteRecord
<1>3. /\ written' = written + 1 /\ log_open' = log_open /\ file' = file
      /\ records' = records /\ buffer' = buffer /\ next_lsn' = next_lsn
  BY DEF WriteRecord
<1>4. TypeOK /\ Positions /\ Counts /\ Marks /\ Commits
  BY DEF IInv
<1>5. Len(file) \in Nat /\ Len(stream) \in Nat /\ Len(records) \in Nat /\ Len(buffer) \in Nat
  BY <1>4, Lengths
<1>6. written \in Nat /\ next_lsn \in Nat
  BY <1>4, <1>5 DEF TypeOK
<1>7. written + 1 \in 1 .. Len(records)
  BY <1>1, <1>5, <1>6
<1>8. r \in Record /\ r.lsn \in Nat
  BY <1>4, <1>7, Elements DEF Record
<1>9. r.lsn + written = Len(file) + Len(stream) + (written + 1) /\ marked(r)
  BY <1>1, <1>4, <1>7 DEF Positions, Marks
<1> HIDE DEF r
<1>10. r.lsn = Len(file) + Len(stream) + 1
  BY <1>5, <1>6, <1>8, <1>9
<1>11. flushed_lsn = Len(file) + Len(stream) /\ flushed_lsn' = Len(file) + Len(stream) + 1
  BY <1>1, <1>2, <1>4, <1>5, <1>10 DEF Counts, updateFlushedLSN
<1>12. /\ stream' \in Seq(Record) /\ Len(stream') = Len(stream) + 1
       /\ \A i \in 1 .. Len(stream) : stream'[i] = stream[i]
       /\ stream'[Len(stream) + 1] = r
  BY <1>2, <1>4, <1>8, AppendProperties DEF TypeOK
<1>13. TypeOK'
  BY <1>2, <1>3, <1>4, <1>5, <1>7, <1>11, <1>12 DEF TypeOK, clientVars
<1>14. Batches'
  BY <1>1, <1>2, <1>3 DEF IInv, Batches
<1>15. Len(stream') = Len(stream) + 1
  BY <1>12
<1>16. Positions'
  <2>1. ASSUME NEW i \in 1 .. Len(stream')
        PROVE  stream'[i].lsn = Len(file) + i
    <3>1. CASE i \in 1 .. Len(stream)
      BY <3>1, <1>1, <1>4, <1>12 DEF Positions
    <3>2. CASE i = Len(stream) + 1
      BY <3>2, <1>5, <1>10, <1>12
    <3> QED BY <3>1, <3>2, <1>5, <1>15
  <2>2. ASSUME NEW i \in 1 .. Len(records)
        PROVE  records[i].lsn + written' = Len(file) + Len(stream') + i
    <3>1. records[i].lsn + written = Len(file) + Len(stream) + i
      BY <1>1, <1>4 DEF Positions
    <3>2. records[i].lsn \in Nat
      BY <1>4, Elements DEF Record
    <3> QED BY <3>1, <3>2, <1>3, <1>5, <1>6, <1>15
  <2>3. ASSUME NEW i \in 1 .. Len(buffer)
        PROVE  buffer[i].lsn + written' = Len(file) + Len(stream') + Len(records) + i
    <3>1. buffer[i].lsn + written = Len(file) + Len(stream) + Len(records) + i
      BY <1>1, <1>4 DEF Positions
    <3>2. buffer[i].lsn \in Nat
      BY <1>4, Elements DEF Record
    <3> QED BY <3>1, <3>2, <1>3, <1>5, <1>6, <1>15
  <2> QED BY <2>1, <2>2, <2>3, <1>1, <1>3, <1>4 DEF Positions
<1>17. Counts'
  <2>1. next_lsn + written = Len(file) + Len(stream) + Len(records) + Len(buffer) + 1
    BY <1>1, <1>4 DEF Counts
  <2> QED BY <2>1, <1>3, <1>5, <1>6, <1>11, <1>15 DEF Counts
<1>18. Syncs'
  <2>1. synced + written = Len(file) + Len(stream) /\ synced \in Nat
    BY <1>1, <1>4, <1>5 DEF IInv, Syncs, TypeOK
  <2> QED BY <2>1, <1>1, <1>2, <1>3, <1>5, <1>6, <1>15 DEF Syncs
<1>19. Commits'
  BY <1>1, <1>2, <1>3, <1>4, <1>5, <1>11, SMTT(30) DEF Commits, TypeOK, clientVars
<1>20. Marks'
  <2>1. \A i \in 1 .. Len(stream') : stream'[i] = r \/ \E j \in 1 .. Len(stream) : stream'[i] = stream[j]
    BY <1>5, <1>12
  <2> QED BY <2>1, <1>1, <1>2, <1>3, <1>4, <1>9 DEF Marks, marked, clientVars
<1> QED BY <1>13, <1>14, <1>16, <1>17, <1>18, <1>19, <1>20 DEF IInv

\* n records leave the stream's buffer for the file.
Moved(n) ==
  /\ file' \in Seq(Record) /\ stream' \in Seq(Record)
  /\ Len(file') = Len(file) + n /\ Len(stream') = Len(stream) - n
  /\ \A i \in 1 .. Len(file) : file'[i] = file[i]
  /\ \A i \in 1 .. n : file'[Len(file) + i] = stream[i]
  /\ \A i \in 1 .. (Len(stream) - n) : stream'[i] = stream[n + i]

LEMMA MoveSpec ==
  ASSUME NEW n \in Nat, TypeOK, n <= Len(stream),
         file' = file \o SubSeq(stream, 1, n),
         stream' = SubSeq(stream, n + 1, Len(stream))
  PROVE  Moved(n)
<1>1. file \in Seq(Record) /\ stream \in Seq(Record) /\ Len(file) \in Nat /\ Len(stream) \in Nat
  BY Lengths DEF TypeOK
<1>2. \A i \in 1 .. Len(stream) : stream[i] \in Record
  BY Elements
<1> DEFINE head == SubSeq(stream, 1, n)
<1>3. head \in Seq(Record) /\ Len(head) = n /\ \A i \in 1 .. n : head[i] = stream[i]
  BY <1>1, <1>2
<1>4. stream' \in Seq(Record) /\ Len(stream') = Len(stream) - n
  BY <1>1, <1>2
<1>5. \A i \in 1 .. (Len(stream) - n) : stream'[i] = stream[n + i]
  BY <1>1, <1>2
<1>6. file' = file \o head
  OBVIOUS
<1> HIDE DEF head
<1>7. /\ file' \in Seq(Record) /\ Len(file') = Len(file) + n
      /\ \A i \in 1 .. Len(file) : file'[i] = file[i]
      /\ \A i \in 1 .. n : file'[Len(file) + i] = head[i]
  BY <1>1, <1>3, <1>6, ConcatProperties
<1> QED BY <1>3, <1>4, <1>5, <1>7, ZenonT(30) DEF Moved

\* The positions are those of before, whatever part of the stream has moved.
LEMMA MoveStep ==
  ASSUME IInv, NEW n \in Nat, n <= Len(stream), log_open, Moved(n),
         UNCHANGED <<walVars, log_open, synced, running, records, written, clientVars>>
  PROVE  Positions' /\ Counts' /\ Commits' /\ Marks' /\ Len(file') + Len(stream') = Len(file) + Len(stream)
<1>1. TypeOK /\ Positions /\ Counts /\ Commits /\ Marks
  BY DEF IInv
<1>2. /\ Len(file') = Len(file) + n /\ Len(stream') = Len(stream) - n
      /\ \A i \in 1 .. Len(file) : file'[i] = file[i]
      /\ \A i \in 1 .. n : file'[Len(file) + i] = stream[i]
      /\ \A i \in 1 .. (Len(stream) - n) : stream'[i] = stream[n + i]
  BY DEF Moved
<1>3. Len(file) \in Nat /\ Len(stream) \in Nat
  BY <1>1, Lengths
<1>4. Len(file') + Len(stream') = Len(file) + Len(stream)
  BY <1>2, <1>3
<1>5. ASSUME NEW i \in 1 .. Len(file')
      PROVE  file'[i].lsn = i /\ marked(file'[i])
  <2>1. CASE i \in 1 .. Len(file)
    BY <2>1, <1>1, <1>2 DEF Positions, Marks
  <2>2. CASE i \notin 1 .. Len(file)
    <3>1. i - Len(file) \in 1 .. n /\ i = Len(file) + (i - Len(file)) /\ i - Len(file) \in 1 .. Len(stream)
      BY <2>2, <1>2, <1>3
    <3>2. file'[i] = stream[i - Len(file)]
      BY <3>1, <1>2
    <3>3. stream[i - Len(file)].lsn = Len(file) + (i - Len(file)) /\ marked(stream[i - Len(file)])
      BY <3>1, <1>1 DEF Positions, Marks
    <3> QED BY <3>1, <3>2, <3>3
  <2> QED BY <2>1, <2>2
<1>6. ASSUME NEW i \in 1 .. Len(stream')
      PROVE  stream'[i].lsn = Len(file') + i /\ marked(stream'[i])
  <2>1. i \in 1 .. (Len(stream) - n) /\ n + i \in 1 .. Len(stream)
    BY <1>2, <1>3
  <2>2. stream'[i] = stream[n + i]
    BY <2>1, <1>2
  <2>3. stream[n + i].lsn = Len(file) + (n + i) /\ marked(stream[n + i])
    BY <2>1, <1>1 DEF Positions, Marks
  <2> QED BY <2>1, <2>2, <2>3, <1>2, <1>3
<1>7. /\ records' = records /\ buffer' = buffer /\ written' = written /\ next_lsn' = next_lsn
      /\ flushed_lsn' = flushed_lsn /\ pc' = pc /\ commit_lsn' = commit_lsn /\ log_open' = log_open
  BY DEF walVars, clientVars
<1>8. Positions'
  BY <1>1, <1>4, <1>5, <1>6, <1>7, ZenonT(30) DEF Positions
<1>9. Counts'
  BY <1>1, <1>4, <1>7 DEF Counts
<1>10. Commits'
  BY <1>1, <1>7 DEF Commits
<1>11. \A r : marked(r) => /\ pc'[r.entry.txn] # "active" => r.lsn <= commit_lsn'[r.entry.txn]
                           /\ r.entry.kind = "COMMIT" =>
                                pc'[r.entry.txn] # "active" /\ r.lsn = commit_lsn'[r.entry.txn]
  BY <1>7 DEF marked
<1>12. Marks'
  BY <1>1, <1>5, <1>6, <1>7, <1>11 DEF Marks, marked
<1> QED BY <1>4, <1>8, <1>9, <1>10, <1>12

LEMMA SpillStep ==
  ASSUME IInv, NEW n \in 1 .. Len(stream), Spill(n)
  PROVE  IInv'
<1>1. /\ flusher = "write" /\ log_open /\ n \in Nat /\ n <= Len(stream) /\ TypeOK
      /\ file' = file \o SubSeq(stream, 1, n)
      /\ stream' = SubSeq(stream, n + 1, Len(stream))
      /\ UNCHANGED <<walVars, log_open, synced, running, flusher, records, written, clientVars>>
  BY Lengths DEF Spill, IInv, flusherVars
<1>m. Moved(n)
  BY <1>1, MoveSpec, ZenonT(30)
<1>2. Positions' /\ Counts' /\ Commits' /\ Marks' /\ Len(file') + Len(stream') = Len(file) + Len(stream)
  BY <1>1, <1>m, MoveStep, ZenonT(30)
<1>3. file' \in Seq(Record) /\ stream' \in Seq(Record) /\ Len(file') = Len(file) + n
  BY <1>m DEF Moved
<1>4. synced \in 0 .. Len(file')
  BY <1>1, <1>3, Lengths DEF TypeOK
<1>5. TypeOK'
  BY <1>1, <1>3, <1>4 DEF TypeOK, walVars, clientVars
<1>6. Batches' /\ Syncs'
  BY <1>1, <1>2, ZenonT(30) DEF IInv, Batches, Syncs
<1> QED BY <1>2, <1>5, <1>6 DEF IInv

LEMMA FlushStep ==
  ASSUME IInv, FlushStream
  PROVE  IInv'
<1>1. /\ flusher = "write" /\ flusher' = "fsync" /\ log_open /\ written = Len(records) /\ TypeOK
      /\ file' = file \o stream /\ stream' = <<>>
      /\ UNCHANGED <<walVars, log_open, synced, running, records, written, clientVars>>
  BY DEF FlushStream, IInv
<1>2. stream \in Seq(Record) /\ Len(stream) \in Nat /\ Len(file) \in Nat /\ Len(stream) <= Len(stream)
  BY <1>1, Lengths DEF TypeOK
<1>3. SubSeq(stream, 1, Len(stream)) = stream
  BY <1>2, SubSeqFull
<1>4. SubSeq(stream, Len(stream) + 1, Len(stream)) = <<>>
  BY <1>2, SubSeqEmpty
<1>5. file' = file \o SubSeq(stream, 1, Len(stream)) /\ stream' = SubSeq(stream, Len(stream) + 1, Len(stream))
  BY <1>1, <1>3, <1>4
<1>m. Moved(Len(stream))
  BY <1>1, <1>2, <1>5, MoveSpec
<1>6. Positions' /\ Counts' /\ Commits' /\ Marks' /\ Len(file') + Len(stream') = Len(file) + Len(stream)
  BY <1>1, <1>2, <1>m, MoveStep
<1>7. file' \in Seq(Record) /\ stream' \in Seq(Record) /\ Len(file') = Len(file) + Len(stream)
  BY <1>m DEF Moved
<1>8. synced \in 0 .. Len(file')
  BY <1>1, <1>2, <1>7 DEF TypeOK
<1>9. TypeOK'
  BY <1>1, <1>7, <1>8 DEF TypeOK, FlusherPC, walVars, clientVars
<1>10. Batches' /\ Syncs'
  BY <1>1, <1>6 DEF IInv, Batches, Syncs
<1> QED BY <1>6, <1>9, <1>10 DEF IInv

\* The invariant is preserved by the other steps of the flusher, and by stop().
LEMMA RoundStep ==
  ASSUME IInv, SkipWrite \/ Fsync \/ UpdateFlushed \/ NotifyAll \/ Stop
  PROVE  IInv'
<1>1. TypeOK /\ Positions /\ Counts /\ Commits /\ Marks /\ Len(file) \in Nat
  BY Lengths DEF IInv
<1>2. CASE SkipWrite
  BY <1>2 DEF IInv, SkipWrite, TypeOK, FlusherPC, Batches, Positions, Counts, Syncs, Commits, Marks, marked,
              walVars, diskVars, clientVars
<1>3. CASE Fsync
  <2>1. /\ flusher = "fsync" /\ flusher' = "update" /\ synced' = Len(file)
        /\ UNCHANGED <<walVars, log_open, stream, file, running, records, written, clientVars>>
    BY <1>3 DEF Fsync
  <2>2. TypeOK'
    BY <1>1, <2>1 DEF TypeOK, FlusherPC, walVars, clientVars
  <2>3. Batches' /\ Syncs'
    BY <2>1, SMTT(30) DEF IInv, Batches, Syncs
  <2>4. Positions' /\ Counts' /\ Commits' /\ Marks'
    BY <1>1, <2>1 DEF Positions, Counts, Commits, Marks, marked, walVars, clientVars
  <2> QED BY <2>2, <2>3, <2>4 DEF IInv
<1>4. CASE UpdateFlushed
  <2>1. /\ flusher = "update" /\ flusher' = "notify" /\ updateFlushedLSN(records[Len(records)].lsn)
        /\ UNCHANGED <<next_lsn, buffer, diskVars, running, records, written, clientVars>>
    BY <1>4 DEF UpdateFlushed
  <2>2. records \in Seq(Record) /\ Len(records) \in 1 .. Len(records)
    BY <1>1, <2>1, EmptySeq, LenProperties DEF IInv, Batches, TypeOK
  <2>3. records[Len(records)].lsn \in Nat
    BY <1>1, <2>2, Elements DEF Record
  <2>4. flushed_lsn' \in Nat
    BY <1>1, <2>1, <2>3 DEF updateFlushedLSN, TypeOK
  <2>5. log_open => flushed_lsn' = flushed_lsn
    <3> SUFFICES ASSUME log_open PROVE flushed_lsn' = flushed_lsn
      OBVIOUS
    <3>1. records[Len(records)].lsn + written = Len(file) + Len(stream) + Len(records)
      BY <1>1, <2>2 DEF Positions
    <3>2. written = Len(records) /\ flushed_lsn = Len(file) + Len(stream)
      BY <1>1, <2>1 DEF IInv, Syncs, Counts
    <3>3. records[Len(records)].lsn = flushed_lsn
      BY <1>1, <2>2, <2>3, <3>1, <3>2, Lengths
    <3> QED BY <2>1, <3>3 DEF updateFlushedLSN
  <2>6. TypeOK'
    BY <1>1, <2>1, <2>4 DEF TypeOK, FlusherPC, diskVars, clientVars
  <2>7. Batches' /\ Syncs'
    BY <2>1, SMTT(30) DEF IInv, Batches, Syncs, diskVars
  <2>8. Positions' /\ Counts' /\ Commits' /\ Marks'
    BY <1>1, <2>1, <2>5 DEF Positions, Counts, Commits, Marks, marked, diskVars, clientVars
  <2> QED BY <2>6, <2>7, <2>8 DEF IInv
<1>5. CASE NotifyAll
  <2>1. /\ flusher = "notify" /\ flusher' \in {"sleep", "done"} /\ records' = <<>> /\ written' = 0
        /\ UNCHANGED <<walVars, diskVars, running, commit_lsn>>
    BY <1>5 DEF NotifyAll, nextRound
  <2>2. pc' = [c \in Client |-> IF pc[c] = "blocked" THEN "check" ELSE pc[c]]
    BY <1>5 DEF NotifyAll
  <2>3. /\ <<>> \in Seq(Record) /\ Len(<<>>) = 0
        /\ log_open => stream = <<>> /\ written = Len(records) /\ synced = Len(file)
    BY <2>1, EmptySeq DEF IInv, Syncs
  <2>4. pc' \in [Client -> ClientPC]
    BY <1>1, <2>2 DEF TypeOK, ClientPC
  <2>5. \A c \in Client : /\ pc'[c] # "active" <=> pc[c] # "active"
                          /\ pc'[c] = "acked" => pc[c] = "acked"
    BY <1>1, <2>2 DEF TypeOK
  <2>6. TypeOK'
    BY <1>1, <2>1, <2>3, <2>4 DEF TypeOK, FlusherPC, walVars, diskVars
  <2>7. Batches' /\ Syncs'
    BY <2>1, <2>3 DEF IInv, Batches, Syncs, diskVars
  <2>8. Commits'
    BY <1>1, <2>1, <2>5 DEF Commits, walVars, diskVars
  <2>9. /\ file' = file /\ stream' = stream /\ buffer' = buffer /\ next_lsn' = next_lsn
        /\ flushed_lsn' = flushed_lsn /\ log_open' = log_open /\ Len(records') = 0 /\ commit_lsn' = commit_lsn
    BY <2>1, <2>3 DEF walVars, diskVars
  <2>10. Positions' /\ Counts'
    <3> SUFFICES ASSUME log_open PROVE Positions' /\ Counts'
      BY <2>9 DEF Positions, Counts
    <3>1. Len(stream) \in Nat /\ Len(buffer) \in Nat /\ Len(records) \in Nat /\ next_lsn \in Nat
      BY <1>1, Lengths DEF TypeOK
    <3>2. next_lsn + Len(records) = Len(file) + Len(stream) + Len(records) + Len(buffer) + 1
      BY <1>1, <2>3 DEF Counts
    <3>3. next_lsn = Len(file) + Len(stream) + Len(buffer) + 1
      BY <1>1, <3>1, <3>2
    <3>4. Counts'
      BY <1>1, <2>1, <2>9, <3>1, <3>3 DEF Counts
    <3>5. ASSUME NEW i \in 1 .. Len(buffer)
          PROVE  buffer[i].lsn = Len(file) + Len(stream) + i /\ buffer[i].lsn \in Nat
      <4>1. buffer[i].lsn + Len(records) = Len(file) + Len(stream) + Len(records) + i
        BY <1>1, <2>3 DEF Positions
      <4>2. buffer[i].lsn \in Nat
        BY <1>1, Elements DEF Record
      <4> QED BY <4>1, <4>2, <1>1, <3>1
    <3>6. Positions'
      BY <1>1, <2>1, <2>9, <3>1, <3>5 DEF Positions
    <3> QED BY <3>4, <3>6
  <2>11. Marks'
    <3>1. ASSUME NEW r \in Record, marked(r)
          PROVE  marked(r)'
      BY <3>1, <2>5, <2>9, SMTT(30) DEF marked, Record
    <3> QED BY <1>1, <2>9, <3>1, Elements DEF Marks
  <2> QED BY <2>6, <2>7, <2>8, <2>10, <2>11 DEF IInv
<1>6. CASE Stop
  BY <1>6, ZenonT(30) DEF IInv, Stop, TypeOK, Batches, Positions, Counts, Syncs, Commits, Marks, marked,
              walVars, diskVars, clientVars
<1> QED BY <1>2, <1>3, <1>4, <1>5, <1>6

\* The invariant is inductive.
THEOREM LogInvariance == Spec => []IInv
<1>1. ASSUME IInv, [Next]_vars
      PROVE  IInv'
  <2>1. CASE \E c \in Client : Session(c)
    BY <1>1, <2>1, SessionStep
  <2>2. CASE Flusher
    BY <1>1, <2>2, FetchStep, WriteStep, FlushStep, RoundStep DEF Flusher
  <2>3. CASE \E n \in 1 .. Len(stream) : Spill(n)
    BY <1>1, <2>3, SpillStep
  <2>4. CASE Stop
    BY <1>1, <2>4, RoundStep
  <2>5. CASE UNCHANGED vars
    BY <1>1, <2>5 DEF IInv, TypeOK, Batches, Positions, Counts, Syncs, Commits, Marks, marked,
                      vars, walVars, diskVars, flusherVars, clientVars
  <2> QED BY <1>1, <2>1, <2>2, <2>3, <2>4, <2>5 DEF Next
<1> QED BY InvInit, <1>1, PTL DEF Spec

\* How far an acknowledgement runs ahead of the disk, for any number of
\* session threads and records.
THEOREM AckWindow == Spec => []AckWindowIsOneBatch
<1>1. ASSUME IInv
      PROVE  AckWindowIsOneBatch
  <2> SUFFICES ASSUME NEW c \in Client, log_open, pc[c] = "acked", ~(commit_lsn[c] <= synced)
               PROVE  /\ flusher \in {"write", "fsync"}
                      /\ \E i \in 1 .. written : records[i].lsn = commit_lsn[c]
    BY DEF AckWindowIsOneBatch
  <2>1. TypeOK /\ Positions
    BY <1>1 DEF IInv
  <2>2. Len(file) \in Nat /\ Len(stream) \in Nat /\ Len(records) \in Nat
    BY <2>1, Lengths
  <2>3. /\ synced \in Nat /\ written \in Nat /\ commit_lsn[c] \in Nat
        /\ written <= Len(records)
    BY <2>1, <2>2 DEF TypeOK
  <2>4. commit_lsn[c] <= Len(file) + Len(stream)
    BY <1>1 DEF IInv, Commits, Counts
  <2>5. flusher \in {"write", "fsync"}
    <3> SUFFICES ASSUME flusher \notin {"write", "fsync"} PROVE FALSE
      OBVIOUS
    <3>1. synced = Len(file) /\ stream = <<>>
      BY <1>1 DEF IInv, Syncs
    <3> QED BY <2>2, <2>3, <2>4, <3>1, EmptySeq
  <2>6. synced + written = Len(file) + Len(stream)
    BY <1>1, <2>5 DEF IInv, Syncs
  <2> DEFINE i == commit_lsn[c] - synced
  <2>7. i \in 1 .. written /\ i \in 1 .. Len(records)
    BY <2>2, <2>3, <2>4, <2>6
  <2>8. records[i].lsn + written = Len(file) + Len(stream) + i
    BY <2>1, <2>7 DEF Positions
  <2>9. records[i].lsn \in Nat
    BY <2>1, <2>7, Elements DEF Record
  <2>10. records[i].lsn = commit_lsn[c]
    BY <2>2, <2>3, <2>6, <2>8, <2>9, SMTT(30)
  <2> QED BY <2>5, <2>7, <2>10
<1> QED BY LogInvariance, <1>1, PTL

\* stop() interrupts no batch.
THEOREM CleanStop == Spec => []StopIsClean
<1>1. ASSUME IInv
      PROVE  StopIsClean
  <2> SUFFICES ASSUME flusher = "done", log_open
               PROVE  stream = <<>> /\ flushed_lsn = synced
    BY DEF StopIsClean
  <2>1. stream = <<>> /\ synced = Len(file) /\ flushed_lsn = Len(file) + Len(stream) /\ Len(file) \in Nat
    BY <1>1, Lengths DEF IInv, Syncs, Counts
  <2> QED BY <2>1, EmptySeq
<1> QED BY LogInvariance, <1>1, PTL

\* In the file, no record of a transaction is behind its COMMIT.
THEOREM CommitLast == Spec => []CommitComesLast
<1>1. ASSUME IInv
      PROVE  CommitComesLast
  <2> SUFFICES ASSUME NEW i \in DOMAIN file, NEW j \in DOMAIN file,
                      file[i].entry.kind = "COMMIT", file[j].entry.txn = file[i].entry.txn
               PROVE  j <= i
    BY DEF CommitComesLast
  <2>1. TypeOK /\ file \in Seq(Record)
    BY <1>1 DEF IInv, TypeOK
  <2>2. i \in 1 .. Len(file) /\ j \in 1 .. Len(file) /\ Len(file) \in Nat
    BY <2>1, LenProperties
  <2>3. log_open
    BY <1>1, <2>2, EmptySeq DEF IInv, Batches
  <2>4. file[i].lsn = i /\ file[j].lsn = j /\ marked(file[i]) /\ marked(file[j])
    BY <1>1, <2>2, <2>3 DEF IInv, Positions, Marks
  <2> QED BY <2>4 DEF marked
<1> QED BY LogInvariance, <1>1, PTL

-----------------------------------------------------------------------------
(* The log implements CommitLog.                                           *)

\* A record added to the last place is added to the pipeline.
LEMMA AddLast ==
  ASSUME NEW S, NEW s \in Seq(S), NEW t \in Seq(S), NEW r \in S
  PROVE  s \o Append(t, r) = Append(s \o t, r)
<1>1. s \o t \in Seq(S) /\ <<r>> \in Seq(S)
  BY ConcatProperties
<1>2. s \o Append(t, r) = s \o (t \o <<r>>)
  BY AppendIsConcat, SMTT(30)
<1>3. s \o (t \o <<r>>) = (s \o t) \o <<r>>
  BY <1>1, ConcatAssociative
<1>4. (s \o t) \o <<r>> = Append(s \o t, r)
  BY <1>1, AppendIsConcat
<1> QED BY <1>2, <1>3, <1>4

\* The pipeline holds the records of all LSNs below next_lsn_.
LEMMA PipelineLength ==
  ASSUME IInv, log_open
  PROVE  /\ unwritten \in Seq(Record) /\ pipeline \in Seq(Record)
         /\ Len(pipeline) + 1 = next_lsn
<1>1. TypeOK
  BY DEF IInv
<1>2. Len(file) \in Nat /\ Len(stream) \in Nat /\ Len(records) \in Nat /\ Len(buffer) \in Nat
  BY <1>1, Lengths
<1>3. written \in Nat /\ written <= Len(records) /\ next_lsn \in Nat
  BY <1>1, <1>2 DEF TypeOK
<1>4. \A i \in written + 1 .. Len(records) : records[i] \in Record
  BY <1>1, <1>2, <1>3, Elements
<1>5. unwritten \in Seq(Record) /\ Len(unwritten) = Len(records) - written
  BY <1>2, <1>3, <1>4, SubSeqProperties DEF unwritten
<1>6. file \in Seq(Record) /\ stream \in Seq(Record) /\ buffer \in Seq(Record)
  BY <1>1 DEF TypeOK
<1>7. file \o stream \in Seq(Record) /\ Len(file \o stream) = Len(file) + Len(stream)
  BY <1>6, ConcatProperties
<1>8. /\ file \o stream \o unwritten \in Seq(Record)
      /\ Len(file \o stream \o unwritten) = Len(file \o stream) + Len(unwritten)
  BY <1>5, <1>7, ConcatProperties, ZenonT(30)
<1>9. pipeline \in Seq(Record) /\ Len(pipeline) = Len(file \o stream \o unwritten) + Len(buffer)
  BY <1>6, <1>8, ConcatProperties DEF pipeline
<1>10. Len(pipeline) = (Len(file) + Len(stream)) + (Len(records) - written) + Len(buffer)
  BY <1>5, <1>7, <1>8, <1>9
<1>11. next_lsn + written = Len(file) + Len(stream) + Len(records) + Len(buffer) + 1
  BY DEF IInv, Counts
<1> QED BY <1>2, <1>3, <1>5, <1>9, <1>10, <1>11

\* Every step adds one record at the end of the pipeline and leaves
\* flushed_lsn_, or leaves the pipeline and may move flushed_lsn_ forward.
LEMMA SessionPipeline ==
  ASSUME IInv, log_open, NEW c \in Client, Session(c)
  PROVE  \/ UNCHANGED <<pipeline, flushed_lsn>>
         \/ \E k \in Kind : /\ pipeline' = Append(pipeline, [lsn |-> Len(pipeline) + 1,
                                                            entry |-> [txn |-> c, kind |-> k]])
                            /\ UNCHANGED flushed_lsn
<1>1. ASSUME NEW k \in Kind, appendRecord(c, k), UNCHANGED <<flushed_lsn, diskVars, flusherVars>>
      PROVE  pipeline' = Append(pipeline, [lsn |-> Len(pipeline) + 1, entry |-> [txn |-> c, kind |-> k]])
  <2> DEFINE r == [lsn |-> next_lsn, entry |-> [txn |-> c, kind |-> k]]
  <2>1. r \in Record /\ Len(pipeline) + 1 = next_lsn
    BY PipelineLength DEF IInv, TypeOK, Record
  <2>2. unwritten' = unwritten /\ file' = file /\ stream' = stream /\ buffer' = Append(buffer, r)
    BY <1>1 DEF appendRecord, unwritten, diskVars, flusherVars
  <2>3. /\ file \in Seq(Record) /\ stream \in Seq(Record) /\ buffer \in Seq(Record)
        /\ unwritten \in Seq(Record)
    BY PipelineLength DEF IInv, TypeOK
  <2> HIDE DEF r
  <2>4. file \o stream \o unwritten \o Append(buffer, r) = Append(file \o stream \o unwritten \o buffer, r)
    <3>1. file \o stream \o unwritten \in Seq(Record)
      BY <2>3, ConcatProperties
    <3> QED BY <2>1, <2>3, <3>1, AddLast, SMTT(30)
  <2>5. pipeline' = Append(pipeline, r)
    BY <2>2, <2>4 DEF pipeline
  <2> QED BY <2>1, <2>5 DEF r
<1>2. CASE LogOp(c)
  BY <1>1, <1>2 DEF LogOp, Kind
<1>3. CASE LogCommit(c)
  BY <1>1, <1>3 DEF LogCommit, Kind
<1>4. CASE CheckPredicate(c) \/ Block(c) \/ SpuriousWake(c)
  BY <1>4, ZenonT(30) DEF CheckPredicate, Block, SpuriousWake, pipeline, unwritten, walVars, diskVars, flusherVars
<1> QED BY <1>2, <1>3, <1>4, ZenonT(30) DEF Session

LEMMA FlusherPipeline ==
  ASSUME IInv, log_open, Flusher \/ (\E n \in 1 .. Len(stream) : Spill(n)) \/ Stop
  PROVE  /\ UNCHANGED pipeline
         /\ flushed_lsn' = flushed_lsn \/ flushed_lsn' \in flushed_lsn + 1 .. Len(pipeline)
<1>1. /\ TypeOK /\ unwritten \in Seq(Record)
      /\ file \in Seq(Record) /\ stream \in Seq(Record) /\ records \in Seq(Record) /\ buffer \in Seq(Record)
  BY PipelineLength DEF IInv, TypeOK
<1>2. Len(file) \in Nat /\ Len(stream) \in Nat /\ Len(records) \in Nat /\ Len(buffer) \in Nat /\ written \in Nat
  BY <1>1, Lengths DEF TypeOK
<1>3. SubSeq(<<>>, 1, 0) = <<>> /\ Len(<<>>) = 0
  BY SubSeqEmpty, EmptySeq
<1>4. ASSUME IInv, flusher \notin {"write"} PROVE unwritten = <<>>
  <2>1. written = Len(records)
    BY <1>4 DEF IInv, Syncs
  <2> QED BY <2>1, <1>2, SubSeqEmpty DEF unwritten
<1>5. CASE Fetch
  <2>1. CASE buffer = <<>>
    BY <1>5, <2>1, ZenonT(30) DEF Fetch, pipeline, unwritten, diskVars
  <2>2. CASE buffer # <<>>
    <3>1. /\ records' = buffer /\ written' = 0 /\ buffer' = <<>> /\ file' = file /\ stream' = stream
          /\ flushed_lsn' = flushed_lsn /\ unwritten = <<>>
      BY <1>4, <1>5, <2>2 DEF Fetch, diskVars
    <3>2. unwritten' = buffer
      BY <1>1, <3>1, SubSeqFull DEF unwritten
    <3>3. file \o stream \in Seq(Record) /\ file \o stream \o buffer \in Seq(Record)
      BY <1>1, ConcatProperties
    <3>4. file \o stream \o <<>> = file \o stream /\ file \o stream \o buffer \o <<>> = file \o stream \o buffer
      BY <3>3, ConcatEmptySeq
    <3>5. pipeline = file \o stream \o buffer
      BY <3>1, <3>4 DEF pipeline
    <3>6. pipeline' = file \o stream \o buffer
      BY <3>1, <3>2, <3>4 DEF pipeline
    <3> QED BY <3>1, <3>5, <3>6
  <2> QED BY <2>1, <2>2
<1>6. CASE WriteRecord
  <2> DEFINE r == records[written + 1]
             rest == SubSeq(records, written + 2, Len(records))
  <2>1. /\ written < Len(records) /\ stream' = Append(stream, r) /\ written' = written + 1
        /\ updateFlushedLSN(r.lsn)
        /\ file' = file /\ records' = records /\ buffer' = buffer
    BY <1>6 DEF WriteRecord
  <2>2. written + 1 \in 1 .. Len(records) /\ r \in Record
    BY <1>1, <1>2, <2>1, Elements
  <2>3. unwritten = <<r>> \o rest
    <3>1. Len(records) \in (written + 1) .. Len(records)
      BY <1>2, <2>2
    <3>2. SubSeq(records, written + 1, Len(records)) = <<records[written + 1]>> \o SubSeq(records, (written + 1) + 1, Len(records))
      BY <1>1, <2>2, <3>1, SubSeqRecursiveFirst, ZenonT(30)
    <3>3. (written + 1) + 1 = written + 2
      BY <1>2
    <3> QED BY <3>2, <3>3, ZenonT(30) DEF unwritten
  <2>4. unwritten' = rest
    <3>1. written' + 1 = written + 2
      BY <1>2, <2>1
    <3> QED BY <2>1, <3>1 DEF unwritten
  <2>5. rest \in Seq(Record)
    <3>1. \A i \in written + 2 .. Len(records) : records[i] \in Record
      BY <1>1, <1>2, Elements
    <3> QED BY <1>2, <3>1, SubSeqProperties
  <2>6. r.lsn + written = Len(file) + Len(stream) + (written + 1) /\ r.lsn \in Nat
    BY <2>2 DEF IInv, Positions, Record
  <2>7. flushed_lsn = Len(file) + Len(stream)
    BY DEF IInv, Counts
  <2>8. next_lsn + written = Len(file) + Len(stream) + Len(records) + Len(buffer) + 1 /\ next_lsn \in Nat
    BY <1>1 DEF IInv, Counts, TypeOK
  <2>9. Len(pipeline) + 1 = next_lsn /\ Len(pipeline) \in Nat
    BY PipelineLength, LenProperties
  <2> HIDE DEF r, rest
  <2>10. file \o Append(stream, r) \o rest = file \o stream \o (<<r>> \o rest)
    <3>1. file \in Seq(Record) /\ stream \in Seq(Record) /\ r \in Record
      BY <1>1, <2>2
    <3>2. file \o stream \in Seq(Record) /\ <<r>> \in Seq(Record)
      BY <3>1, ConcatProperties
    <3>3. file \o Append(stream, r) = Append(file \o stream, r)
      BY <3>1, AddLast
    <3>4. Append(file \o stream, r) = (file \o stream) \o <<r>>
      BY <3>1, <3>2, AppendIsConcat
    <3>5. ((file \o stream) \o <<r>>) \o rest = (file \o stream) \o (<<r>> \o rest)
      BY <3>2, <2>5, ConcatAssociative
    <3> QED BY <3>3, <3>4, <3>5
  <2>11. UNCHANGED pipeline
    BY <2>1, <2>3, <2>4, <2>10 DEF pipeline
  <2>12. r.lsn = flushed_lsn + 1
    BY <1>2, <2>6, <2>7
  <2>13. flushed_lsn' = flushed_lsn + 1
    BY <1>2, <2>1, <2>7, <2>12 DEF updateFlushedLSN
  <2>14. flushed_lsn + 1 <= Len(pipeline)
    BY <1>2, <2>1, <2>7, <2>8, <2>9
  <2>15. flushed_lsn' \in flushed_lsn + 1 .. Len(pipeline)
    BY <1>2, <2>7, <2>9, <2>13, <2>14
  <2> QED BY <2>11, <2>15
<1>7. ASSUME NEW n \in 1 .. Len(stream), Spill(n)
      PROVE  UNCHANGED <<pipeline, flushed_lsn>>
  <2>1. /\ file' = file \o SubSeq(stream, 1, n) /\ stream' = SubSeq(stream, n + 1, Len(stream))
        /\ unwritten' = unwritten /\ buffer' = buffer /\ flushed_lsn' = flushed_lsn
    BY <1>7 DEF Spill, unwritten, walVars, flusherVars
  <2>2. SubSeq(stream, 1, n) \in Seq(Record) /\ SubSeq(stream, n + 1, Len(stream)) \in Seq(Record)
    BY <1>1, <1>2, Elements, SubSeqProperties
  <2>3. SubSeq(stream, 1, n) \o SubSeq(stream, n + 1, Len(stream)) = SubSeq(stream, 1, Len(stream))
    <3>1. 1 \in 1 .. Len(stream) + 1 /\ n \in 1 - 1 .. Len(stream) /\ Len(stream) \in n .. Len(stream)
      BY <1>2
    <3> QED BY <1>1, <3>1, ConcatAdjacentSubSeq
  <2>4. file' \o stream' = file \o stream
    <3> DEFINE s == SubSeq(stream, 1, n)
               t == SubSeq(stream, n + 1, Len(stream))
    <3>1. s \o t = stream
      BY <1>1, <2>3, SubSeqFull
    <3>2. file \in Seq(Record) /\ s \in Seq(Record) /\ t \in Seq(Record)
      BY <1>1, <2>2
    <3>3. file' = file \o s /\ stream' = t
      BY <2>1
    <3> HIDE DEF s, t
    <3>4. (file \o s) \o t = file \o (s \o t)
      BY <3>2, ConcatAssociative
    <3> QED BY <3>1, <3>3, <3>4
  <2> QED BY <2>1, <2>4, ZenonT(30) DEF pipeline
<1>8. CASE FlushStream
  <2>1. /\ file' = file \o stream /\ stream' = <<>> /\ unwritten' = unwritten /\ buffer' = buffer
        /\ flushed_lsn' = flushed_lsn
    BY <1>8 DEF FlushStream, unwritten, walVars
  <2>2. file' \o stream' = file \o stream
    BY <1>1, <2>1, ConcatProperties, ConcatEmptySeq
  <2> QED BY <2>1, <2>2 DEF pipeline
<1>9. CASE SkipWrite
  BY <1>9 DEF SkipWrite
<1>10. CASE Fsync
  BY <1>10 DEF Fsync, pipeline, unwritten, walVars
<1>11. CASE UpdateFlushed
  <2>1. /\ flusher = "update" /\ updateFlushedLSN(records[Len(records)].lsn)
        /\ UNCHANGED <<buffer, diskVars, records, written>>
    BY <1>11 DEF UpdateFlushed
  <2>2. Counts /\ Counts' /\ log_open'
    BY <1>11, <2>1, RoundStep DEF IInv, diskVars
  <2>3. flushed_lsn' = flushed_lsn
    BY <2>1, <2>2 DEF Counts, diskVars
  <2> QED BY <2>1, <2>3 DEF pipeline, unwritten, diskVars
<1>12. CASE NotifyAll
  <2>1. /\ flusher = "notify" /\ records' = <<>> /\ written' = 0
        /\ file' = file /\ stream' = stream /\ buffer' = buffer /\ flushed_lsn' = flushed_lsn
    BY <1>12 DEF NotifyAll, walVars, diskVars
  <2>2. unwritten = <<>> /\ unwritten' = <<>>
    BY <1>3, <1>4, <2>1 DEF unwritten
  <2> QED BY <2>1, <2>2 DEF pipeline
<1>13. CASE Stop
  BY <1>13 DEF Stop, pipeline, unwritten, walVars, diskVars
<1> QED BY <1>5, <1>6, <1>7, <1>8, <1>9, <1>10, <1>11, <1>12, <1>13 DEF Flusher

\* The write-ahead log and its group commit implement CommitLog.
THEOREM Refinement == Spec => ImplementsCommitLog
<1>1. Init => Log!LogInit
  <2> SUFFICES ASSUME Init PROVE Log!LogInit
    OBVIOUS
  <2>1. SubSeq(<<>>, 1, 0) = <<>> /\ Len(<<>>) = 0 /\ <<>> \o <<>> = <<>>
    BY SubSeqEmpty, EmptySeq, ConcatEmptySeq
  <2> QED BY <2>1 DEF Init, Log!LogInit, pipeline, unwritten
<1>2. ASSUME IInv, [Next]_vars
      PROVE  [Log!LogNext]_Log!logVars
  <2>1. log_open' = log_open
    BY <1>2 DEF Next, Session, Flusher, LogOp, LogCommit, CheckPredicate, Block, SpuriousWake, Fetch,
                WriteRecord, FlushStream, SkipWrite, Fsync, UpdateFlushed, NotifyAll, Spill, Stop,
                vars, diskVars
  <2>2. CASE ~log_open
    BY <2>1, <2>2 DEF Log!logVars
  <2>3. ASSUME log_open, NEW c \in Client, Session(c)
        PROVE  [Log!LogNext]_Log!logVars
    <3>1. CASE UNCHANGED <<pipeline, flushed_lsn>>
      BY <3>1, <2>1 DEF Log!logVars
    <3>2. ASSUME NEW k \in Kind, UNCHANGED flushed_lsn,
                 pipeline' = Append(pipeline, [lsn |-> Len(pipeline) + 1, entry |-> [txn |-> c, kind |-> k]])
          PROVE  Log!LogNext
      <4>1. [txn |-> c, kind |-> k] \in [txn : Client, kind : Kind]
        OBVIOUS
      <4>2. Log!LogRecord([txn |-> c, kind |-> k])
        BY <2>1, <2>3, <3>2 DEF Log!LogRecord, Log!nextLSN
      <4> QED BY <4>1, <4>2 DEF Log!LogNext
    <3> QED BY <1>2, <2>3, <3>1, <3>2, SessionPipeline, ZenonT(30)
  <2>4. ASSUME log_open, Flusher \/ (\E n \in 1 .. Len(stream) : Spill(n)) \/ Stop
        PROVE  [Log!LogNext]_Log!logVars
    BY <1>2, <2>1, <2>4, FlusherPipeline DEF Log!LogNext, Log!Advance, Log!logVars
  <2>5. CASE UNCHANGED vars
    BY <2>5 DEF Log!logVars, pipeline, unwritten, vars, walVars, diskVars, flusherVars
  <2> QED BY <1>2, <2>2, <2>3, <2>4, <2>5 DEF Next
<1> QED BY <1>1, <1>2, LogInvariance, PTL DEF Spec, ImplementsCommitLog, Log!LogSpec
=============================================================================
