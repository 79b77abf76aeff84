-------------------------------- MODULE Chaos --------------------------------
(***************************************************************************)
(* The chaos test driver (src/chaos_tests) over the transactions of one    *)
(* run of the server: the workers of its six scenarios as client programs, *)
(* what they record, the ReferenceModel, and the verdicts.                 *)
(*                                                                         *)
(* Client's constructor does not connect and nobody calls connectToServer, *)
(* so the driver as it stands runs with connected = FALSE: send and recv   *)
(* fail and every answer is the empty string.  connected = TRUE is the     *)
(* driver with that call made and the greeting read.  An answer is its     *)
(* value; Absent stands for an answer that contains ERROR or is empty.     *)
(***************************************************************************)
EXTENDS TransactionManager, SequencesExt

CONSTANTS
  Scenario,    \* the scenarios that are run
  Connected    \* a set of BOOLEANs: with and without a connection

VARIABLES
  role,        \* role[s]: the program that worker s runs
  connected,
  worker,      \* worker[s]: the variables of the worker thread
  recorded,    \* the transactions handed to ReferenceModel::commitTxn, by
               \* commit_order; the values of written_values; the increments
  observed     \* observed_reads

chaosVars == <<role, connected, worker, recorded, observed>>

\* Answers a program waits for before its PUT, and the programs' other traits.
gets        == [counter |-> 1, rmw |-> 2, deadlock |-> 2, crash |-> 0, writer |-> 0,
                reader |-> 1, setter |-> 0, reader_rc |-> 2, reader_rr |-> 2]
writes(s)   == role[s] \notin {"reader", "reader_rc", "reader_rr"}
isolation(s) == IF role[s] = "reader_rc" THEN "READ_COMMITTED" ELSE "REPEATABLE_READ"
\* The tasks of scenario 4 look at no answer.
unchecked(s) == role[s] \in {"setter", "reader_rc", "reader_rr"}

\* Which programs run together.
casts ==
  {[s \in Session |-> r] : r \in Scenario \cap {"counter", "rmw", "deadlock", "crash"}}
    \cup {f \in [Session -> Scenario \cap {"writer", "reader"}] : \E s \in Session : f[s] = "writer"}
    \cup {f \in [Session -> Scenario \cap {"setter", "reader_rc", "reader_rr"}] :
            \E s \in Session : f[s] = "setter" /\ \A u \in Session \ {s} : f[u] # "setter"}
plays(r) == \E s \in Session : role[s] = r

\* KEY of the scenarios that have one key, else any keys: those of the GETs
\* and that of the PUT.
keysOf(s) ==
  LET n == gets[role[s]] + (IF writes(s) THEN 1 ELSE 0)
  IN  [1 .. n -> IF role[s] \in {"rmw", "deadlock", "crash"} THEN Key ELSE {1}]

\* What the scenarios' init client has committed (the counter's 0 is 1 here).
initial == IF connected /\ ~plays("writer") /\ ~plays("crash") THEN 1 ELSE Absent

NoWorker == [pc |-> "begin", want |-> <<>>, got |-> <<>>, id |-> 0]

ChaosInit ==
  /\ Locks!Init /\ Log!LogInit
  /\ role \in casts /\ connected \in Connected
  \* with a connection the workers of scenarios 2 and 6 take the same steps
  /\ plays("deadlock") => ~connected
  /\ store = [k \in Key |-> initial]
  /\ next_txn_id = 1
  /\ txn = [s \in Session |-> IdleTxn]
  /\ op = [s \in Session |-> NoOp]
  /\ reads = [s \in Session |-> NoMap]
  /\ worker = [s \in Session |-> NoWorker]
  /\ recorded = <<>> /\ observed = {}

\* What the worker puts: an increment, a sum, or a value of its own.
value(r, got, id) ==
  CASE r = "counter"             -> got[1] + 1
    [] r \in {"rmw", "deadlock"} -> got[1] + got[2]
    [] OTHER                     -> 10 + id

-----------------------------------------------------------------------------
(* A worker that is connected                                              *)

\* client.begin(); the keys are drawn.
Start(s) ==
  /\ connected /\ worker[s].pc = "begin"
  /\ Begin(s, isolation(s))
  /\ \E ks \in keysOf(s) :
       worker' = [worker EXCEPT ![s] = [pc |-> "ask", want |-> ks, got |-> <<>>, id |-> next_txn_id]]
  /\ UNCHANGED <<role, connected, recorded, observed>>

\* client.get() of the next key.
AskGet(s) ==
  LET w == worker[s] IN
  /\ connected /\ w.pc = "ask" /\ Len(w.got) < gets[role[s]]
  /\ Get(s, w.want[Len(w.got) + 1])
  /\ UNCHANGED chaosVars

GetAnswer(s) ==
  /\ connected
  /\ Read(s)
  /\ worker' = [worker EXCEPT ![s].got = Append(@, visible(s, op[s].key))]
  /\ UNCHANGED <<role, connected, recorded, observed>>

\* client.put().
AskPut(s) ==
  LET w == worker[s] IN
  /\ connected /\ w.pc = "ask" /\ Len(w.got) = gets[role[s]] /\ writes(s)
  /\ Put(s, Last(w.want), value(role[s], w.got, w.id))
  /\ worker' = [worker EXCEPT ![s].pc = "put"]
  /\ UNCHANGED <<role, connected, recorded, observed>>

\* client.commit().
AskCommit(s) ==
  LET w == worker[s] IN
  /\ connected
  /\ w.pc = "put" \/ (w.pc = "ask" /\ ~writes(s) /\ Len(w.got) = gets[role[s]])
  /\ Commit(s)
  /\ worker' = [worker EXCEPT ![s].pc = "commit"]
  /\ UNCHANGED <<role, connected, recorded, observed>>

\* The server's threads.
Serve(s) ==
  /\ connected
  /\ \/ Resume(s)
     \/ GiveUp(s)
     \/ LogWrite(s)
     \/ LogCommit(s)
     \/ Synced(s)
     \/ Apply(s)
  /\ UNCHANGED chaosVars

Flusher == connected /\ Flush /\ UNCHANGED chaosVars

\* COMMIT is answered.
Committed(s) ==
  /\ connected
  /\ Finish(s)
  /\ worker' = [worker EXCEPT ![s].pc = "record"]
  /\ UNCHANGED <<role, connected, recorded, observed>>

\* What s notes down of the transaction of w, with the values got.
entry(s, w, got, answered) ==
  [id |-> w.id, role |-> role[s], want |-> w.want, value |-> value(role[s], got, w.id),
   answered |-> answered]

\* An answer with ERROR: the server has aborted the transaction, client.abort()
\* changes nothing any more, the worker tries again.  reader has its commit()
\* refused and goes on; the tasks of scenario 4 have the rest refused.
Failed(s) ==
  /\ connected /\ op[s].kind = "abort"
  /\ Abort(s)
  /\ worker' = [worker EXCEPT ![s].pc = IF unchecked(s) THEN "done" ELSE "begin"]
  /\ UNCHANGED <<role, connected, recorded, observed>>

MutNotes(s) ==
  /\ recorded' = IF writes(s) THEN Append(recorded, entry(s, worker[s], worker[s].got, TRUE)) ELSE recorded
  /\ observed' = IF role[s] = "reader" THEN observed \cup {worker[s].got[1]} ELSE observed

\* What a worker notes down after the answer to COMMIT: commitTxn with the next
\* commit_order, written_values.insert, observed_reads.push_back.
notes(s) ==
  /\ recorded' = IF writes(s) THEN Append(recorded, entry(s, worker[s], worker[s].got, TRUE)) ELSE recorded
  /\ observed' = IF role[s] = "reader" THEN observed \cup ({worker[s].got[1]} \ {Absent})
                                       ELSE observed

\* ... and it goes on or ends.
Record(s) ==
  /\ worker[s].pc = "record"
  /\ notes(s)
  /\ \E pc \in {"begin", "done"} : worker' = [worker EXCEPT ![s].pc = pc]
  /\ UNCHANGED <<role, connected, vars>>

-----------------------------------------------------------------------------
(* A worker without a connection                                           *)

\* Scenario 5: the CRASH command.  The workers' connections are gone.
SendCrash ==
  /\ connected /\ plays("crash")
  /\ connected' = FALSE
  /\ UNCHANGED <<role, worker, recorded, observed, vars>>

MutNotesUnanswered(s, w) == UNCHANGED recorded

\* An empty answer contains no ERROR, so that rmw, crash and writer note down
\* a transaction; deadlock looks for "committed", reader wants a value, and
\* counter returns at once.
notesUnanswered(s, w) ==
  recorded' = IF role[s] \in {"rmw", "crash", "writer"}
              THEN Append(recorded, entry(s, w, <<0, 0>>, FALSE))
              ELSE recorded

\* The rest of a transaction, all answers empty.
Unanswered(s) ==
  /\ ~connected /\ worker[s].pc \notin {"record", "done"}
  /\ \E ks \in IF worker[s].pc = "begin" THEN keysOf(s) ELSE {worker[s].want} :
       LET w == [worker[s] EXCEPT !.want = ks, !.id = IF worker[s].pc = "begin" THEN 0 ELSE @]
       IN  /\ notesUnanswered(s, w)
           /\ worker' = [worker EXCEPT ![s] = [w EXCEPT !.pc = "done"]]
  /\ UNCHANGED <<role, connected, observed, vars>>

ChaosNext ==
  \/ \E s \in Session :
       \/ Start(s) \/ AskGet(s) \/ GetAnswer(s) \/ AskPut(s) \/ AskCommit(s)
       \/ Serve(s) \/ Committed(s) \/ Failed(s) \/ Record(s) \/ Unanswered(s)
  \/ Flusher
  \/ SendCrash

ChaosSpec == ChaosInit /\ [][ChaosNext]_<<vars, chaosVars>>

-----------------------------------------------------------------------------
(* The verdicts, after the workers are joined                              *)

joined == \A s \in Session : worker[s].pc = "done"

\* ReferenceModel::replayCommitted, state(): the last recorded PUT of k.
puts(k) == {i \in DOMAIN recorded : Last(recorded[i].want) = k}
replayCommitted(k) == IF puts(k) = {} THEN Absent ELSE recorded[Max(puts(k))].value

\* What a restarted server recovers of k: the last COMMIT that was flushed.
recovered(k) ==
  LET C == {i \in commitsOf(k) : i <= flushed} IN
  IF C = {} THEN Absent
  ELSE (CHOOSE e \in ToSet(log) : /\ e.entry.kind = "WRITE" /\ e.entry.key = k
                                  /\ e.entry.txn = log[Max(C)].entry.txn).entry.value

\* getRealState, fetchDB: from the server, the restarted server, or nobody.
realState(k) == IF connected THEN store[k] ELSE recovered(k)

\* The comparisons of runScenarioRMW, runScenarioDeadlockStorm and
\* verifyScenarioCrash.
agrees == \A k \in Key : replayCommitted(k) = realState(k)
verifyReaderWriter ==
  /\ recorded # <<>>
  /\ observed \subseteq {recorded[i].value : i \in DOMAIN recorded}

-----------------------------------------------------------------------------
(* Properties                                                              *)

commitAt(t) == CHOOSE i \in DOMAIN log : log[i].entry.kind = "COMMIT" /\ log[i].entry.txn = t
durable(t)  == \E i \in 1 .. flushed : log[i].entry.kind = "COMMIT" /\ log[i].entry.txn = t

\* The effect of one program on the state st of the database, run alone.
runAlone(st, e) ==
  LET got == [i \in 1 .. gets[e.role] |-> st[e.want[i]]]
  IN  [st EXCEPT ![Last(e.want)] = value(e.role, got, e.id)]

\* Scenarios 1, 2 and 6 end in the state that the answered programs give when
\* each runs alone, in the order of their COMMIT records: no increment and no
\* sum is lost, whatever the time-outs and the retries (worker, put, get).
ProgramsAreSerial ==
  joined /\ connected /\ (plays("counter") \/ plays("rmw") \/ plays("deadlock")) =>
    store = FoldLeft(runAlone, [k \in Key |-> initial],
                     SetToSortSeq(ToSet(recorded), LAMBDA a, b : commitAt(a.id) < commitAt(b.id)))

\* Two writes of one key are in the reference in the other order than in the
\* log: commit_order is drawn after the answer to COMMIT.
inverted ==
  \E i, j \in DOMAIN recorded :
    /\ i < j /\ Last(recorded[i].want) = Last(recorded[j].want)
    /\ durable(recorded[i].id) /\ durable(recorded[j].id)
    /\ commitAt(recorded[i].id) > commitAt(recorded[j].id)

\* Scenarios 2, 5 and 6 report FAILED over this server only where the driver's
\* own notes are wrong: two writes noted down in the wrong order, a COMMIT
\* without an answer noted down as committed, or a key that only init wrote.
ReferenceDiffers ==
  joined /\ (plays("rmw") \/ plays("deadlock") \/ plays("crash")) /\ ~agrees =>
    \/ inverted
    \/ \E i \in DOMAIN recorded : ~recorded[i].answered /\ ~durable(recorded[i].id)
    \/ \E k \in Key : puts(k) = {} /\ initial # Absent

\* Scenario 3 passes over this server once anything is written: no reader has
\* seen a value that no writer had committed, though a value is noted down
\* as written only after it could be read (writerTask, readerTask).  In scenario
\* 4 the REPEATABLE_READ reader never has two different values (readerRR).
ReadersPass ==
  /\ joined /\ connected /\ plays("writer") /\ recorded # <<>> => verifyReaderWriter
  /\ \A s \in Session : role[s] = "reader_rr" /\ Len(worker[s].got) = 2 =>
       worker[s].got[1] = worker[s].got[2]

\* Without a connection scenarios 2, 3 and 6 still report PASSED and scenario 5
\* fails: a verdict says nothing of the server (Client::Client, worker).
UnconnectedVerdict ==
  joined /\ next_txn_id = 1 /\ ~connected =>
    /\ plays("rmw") \/ plays("deadlock") => agrees
    /\ plays("crash") => ~agrees
    /\ plays("writer") => verifyReaderWriter
=============================================================================
