----------------------------- MODULE Connection -----------------------------
(***************************************************************************)
(* Sessions of kvdb-cli (src/src/client/client.cpp, main.cpp) with their   *)
(* ConnectionHandlers (src/src/server/connection_handler.cpp) over TCP: a  *)
(* stream delivers cells in order, in pieces of any size, and a recv takes *)
(* at most RecvMax of them.                                                *)
(*                                                                         *)
(* A line is a cell of text and one of newline.  The text is the command   *)
(* as far as this code tells commands apart: "CR" is a line of nothing but *)
(* a carriage return, "QUIT ;" is a QUIT that the client's loop does not   *)
(* recognise, "LOCKS" (\LOCKS) has an answer longer than a recv.  Of a     *)
(* session's TransactionManager only isInTransaction is kept.              *)
(***************************************************************************)
EXTENDS Naturals, Sequences, SequencesExt

CONSTANTS
  Session,
  Line,       \* the lines users type, a subset of AnyLine
  MaxLine,    \* bound: the lines typed
  RecvMax     \* sizeof(buffer), in cells

AnyLine == {"", "BEGIN", "COMMIT", "CHECKPOINT", "LOCKS", "CR", "QUIT ;"}

ASSUME LineAssumption == Line \subseteq AnyLine
ASSUME MaxLineAssumption == MaxLine \in Nat /\ RecvMax \in Nat \ {0}

VARIABLES
  client,      \* client[s]: where the loop of main is
  typed,       \* the number of lines typed
  up, down,    \* up[s], down[s]: cells on their way to the server, to the client
  handler,     \* handler[s]: where run() is, and inbuf_
  active,      \* active[s]: isInTransaction()
  alive,       \* the server's process runs
  broken,      \* the sessions whose client has answered, or will, with a reset
  sent,        \* history: the lines sent
  executed,    \* history: the lines given to handleCommand
  split,       \* history: a recv of the client took other than one whole answer
  checkpoints  \* history: the number of CHECKPOINTs answered OK

vars == <<client, typed, up, down, handler, active, alive, broken, sent, executed, split, checkpoints>>

newline == "NL"

MutInit ==
  /\ client = [s \in Session |-> "type"] /\ typed = 0
  /\ handler = [s \in Session |-> [pc |-> "accept", inbuf |-> <<>>]]
  /\ up = [s \in Session |-> <<>>] /\ down = [s \in Session |-> <<>>]
  /\ active = [s \in Session |-> FALSE]
  /\ alive = TRUE /\ broken = {}
  /\ sent = [s \in Session |-> <<>>] /\ executed = [s \in Session |-> <<>>]
  /\ split = [s \in Session |-> FALSE]
  /\ checkpoints = 0

Init ==
  /\ client = [s \in Session |-> "greet"] /\ typed = 0
  /\ handler = [s \in Session |-> [pc |-> "accept", inbuf |-> <<>>]]
  /\ up = [s \in Session |-> <<>>] /\ down = [s \in Session |-> <<>>]
  /\ active = [s \in Session |-> FALSE]
  /\ alive = TRUE /\ broken = {}
  /\ sent = [s \in Session |-> <<>>] /\ executed = [s \in Session |-> <<>>]
  /\ split = [s \in Session |-> FALSE]
  /\ checkpoints = 0

prefixLengths(q) == 1 .. IF Len(q) < RecvMax THEN Len(q) ELSE RecvMax
rest(q, n)       == SubSeq(q, n + 1, Len(q))

-----------------------------------------------------------------------------
(* kvdb-cli                                                                *)

\* The chunk is all of one answer.
wholeAnswer(chunk) ==
  /\ Last(chunk)[2] = newline /\ chunk[1][2] = "text"
  /\ \A i \in DOMAIN chunk : chunk[i][1] = chunk[1][1]

\* The socket of a client that has gone: closed with q unread, it is reset.
closes(s, q) == broken' = IF q # <<>> THEN broken \cup {s} ELSE broken

\* readLine: one recv is the answer, less a newline at its end.  An answer
\* that is empty then ends the loop of main, but not the reading of the greeting.
receives(s, n) ==
  LET empty == client[s] = "wait" /\ n = 1 /\ down[s][1][2] = newline IN
  /\ client[s] \in {"greet", "wait"}
  /\ client' = [client EXCEPT ![s] = IF empty THEN "gone" ELSE "type"]
  /\ IF empty THEN closes(s, rest(down[s], n)) ELSE UNCHANGED broken
  /\ down' = [down EXCEPT ![s] = IF empty THEN <<>> ELSE rest(@, n)]
  /\ split' = [split EXCEPT ![s] = @ \/ ~wholeAnswer(SubSeq(down[s], 1, n))]

Receive(s) ==
  /\ \E n \in prefixLengths(down[s]) : receives(s, n)
  /\ UNCHANGED <<typed, up, handler, active, alive, sent, executed, checkpoints>>

closed(s) == ~alive \/ handler[s].pc = "closed"

\* recv returns 0, an empty answer, or fails, and main goes on.
ReceiveEnd(s) ==
  /\ client[s] \in {"greet", "wait"} /\ down[s] = <<>> /\ closed(s)
  /\ \E c \in {"type"} \cup (IF client[s] = "wait" THEN {"gone"} ELSE {}) :
       client' = [client EXCEPT ![s] = c]
  /\ UNCHANGED <<typed, up, down, handler, active, alive, broken, sent, executed, split,
                 checkpoints>>

\* An empty line is skipped, any other but QUIT goes to the server.
Type(s, l) ==
  /\ client[s] = "type" /\ typed < MaxLine
  /\ client' = [client EXCEPT ![s] = IF l = "" THEN "type" ELSE "wait"]
  /\ typed' = typed + 1
  /\ IF l = "" THEN UNCHANGED <<up, sent>>
     ELSE /\ up' = [up EXCEPT ![s] = @ \o <<l, newline>>]
          /\ sent' = [sent EXCEPT ![s] = Append(@, l)]
  /\ UNCHANGED <<down, handler, active, alive, broken, executed, split, checkpoints>>

MutLeave(s) ==
  /\ client[s] # "gone"
  /\ client' = [client EXCEPT ![s] = "gone"]
  /\ broken' = broken \cup {s}
  /\ down' = [down EXCEPT ![s] = <<>>]
  /\ \E n \in 0 .. Len(up[s]) : up' = [up EXCEPT ![s] = SubSeq(@, 1, n)]
  /\ UNCHANGED <<typed, handler, active, alive, sent, executed, split, checkpoints>>

\* QUIT, the end of stdin, a kill: close().  What the server has not yet
\* received may be lost.
Leave(s) ==
  /\ client[s] # "gone"
  /\ client' = [client EXCEPT ![s] = "gone"]
  /\ closes(s, down[s])
  /\ down' = [down EXCEPT ![s] = <<>>]
  /\ \E n \in 0 .. Len(up[s]) : up' = [up EXCEPT ![s] = SubSeq(@, 1, n)]
  /\ UNCHANGED <<typed, handler, active, alive, sent, executed, split, checkpoints>>

-----------------------------------------------------------------------------
(* ConnectionHandler::run                                                  *)

\* writeLine of the answer to line n, of so many cells of text.  A client that
\* is gone answers it with a reset; once that has arrived, send raises SIGPIPE,
\* which ends the process.
writeLine(s, n, texts) ==
  IF client[s] # "gone"
  THEN /\ down' = [down EXCEPT ![s] = @ \o [i \in 1 .. texts |-> <<n, "text">>] \o <<<<n, newline>>>>]
       /\ UNCHANGED <<alive, broken>>
  ELSE /\ alive' \in {TRUE, s \notin broken}
       /\ broken' = broken \cup {s}
       /\ UNCHANGED down

\* acceptLoop starts the handler's thread; the greeting.
Accept(s) ==
  /\ alive /\ handler[s].pc = "accept"
  /\ handler' = [handler EXCEPT ![s].pc = "run"]
  /\ writeLine(s, 0, 1)
  /\ UNCHANGED <<client, typed, up, active, sent, executed, split, checkpoints>>

hasLine(s) == newline \in ToSet(handler[s].inbuf)

\* getNextCommandLine: no newline in inbuf_, and recv returns something ...
Recv(s) ==
  /\ alive /\ handler[s].pc = "run" /\ ~hasLine(s)
  /\ \E n \in prefixLengths(up[s]) :
       /\ handler' = [handler EXCEPT ![s].inbuf = @ \o SubSeq(up[s], 1, n)]
       /\ up' = [up EXCEPT ![s] = rest(@, n)]
  /\ UNCHANGED <<client, typed, down, active, alive, broken, sent, executed, split, checkpoints>>

MutHangup(s) ==
  /\ alive /\ handler[s].pc = "run" /\ handler[s].inbuf = <<>> /\ up[s] = <<>> /\ client[s] = "gone"
  /\ handler' = [handler EXCEPT ![s].pc = "closed"]
  /\ UNCHANGED <<client, typed, up, down, active, alive, broken, sent, executed, split,
                 checkpoints>>

\* ... or 0: run() closes the connection and leaves the transaction alone.
Hangup(s) ==
  /\ alive /\ handler[s].pc = "run" /\ ~hasLine(s) /\ up[s] = <<>> /\ client[s] = "gone"
  /\ handler' = [handler EXCEPT ![s].pc = "closed"]
  /\ UNCHANGED <<client, typed, up, down, active, alive, broken, sent, executed, split,
                 checkpoints>>

MutHasActiveTransactions == \E s \in Session : active[s] /\ handler[s].pc # "closed"

\* txn_managers_ keeps the sessions that have ended.
hasActiveTransactions == \E s \in Session : active[s]

\* isInTransaction() after the command.
afterCommand(s, l) ==
  CASE l = "BEGIN"              -> TRUE
    [] l \in {"COMMIT", "QUIT ;"} -> FALSE
    [] OTHER                    -> active[s]

MutHandle(s, l) ==
  /\ executed' = [executed EXCEPT ![s] = Append(@, l)]
  /\ active' = [active EXCEPT ![s] = afterCommand(s, l)]
  /\ checkpoints' = IF l = "CHECKPOINT" /\ ~hasActiveTransactions THEN checkpoints + 1
                                                                  ELSE checkpoints
  /\ IF l = "QUIT ;" \/ (l = "COMMIT" /\ ~active[s]) THEN UNCHANGED <<down, alive, broken>>
     ELSE writeLine(s, Len(executed'[s]), IF l = "LOCKS" THEN RecvMax ELSE 1)

\* handleCommand: the answer to QUIT is empty and ends run().
Handle(s, l) ==
  /\ executed' = [executed EXCEPT ![s] = Append(@, l)]
  /\ active' = [active EXCEPT ![s] = afterCommand(s, l)]
  /\ checkpoints' = IF l = "CHECKPOINT" /\ ~hasActiveTransactions THEN checkpoints + 1
                                                                  ELSE checkpoints
  /\ IF l = "QUIT ;" THEN UNCHANGED <<down, alive, broken>>
     ELSE writeLine(s, Len(executed'[s]), IF l = "LOCKS" THEN RecvMax ELSE 1)

MutNextLine(s, i) ==
  handler' = [handler EXCEPT ![s] = [pc |-> IF @.inbuf[1] = "QUIT ;" THEN "closed" ELSE "run",
                                     inbuf |-> <<>>]]

\* inbuf_ without its first line, which ends at i.
nextLine(s, i) ==
  handler' = [handler EXCEPT ![s] = [pc |-> IF @.inbuf[1] = "QUIT ;" THEN "closed" ELSE "run",
                                     inbuf |-> rest(@.inbuf, i)]]

\* One round of run() with a line in inbuf_; an empty one has no answer.
HandleLine(s) ==
  /\ alive /\ handler[s].pc = "run" /\ hasLine(s)
  /\ nextLine(s, SelectInSeq(handler[s].inbuf, LAMBDA c : c = newline))
  /\ LET l == handler[s].inbuf[1] IN
     IF l = "CR" THEN UNCHANGED <<down, active, alive, broken, executed, checkpoints>>
     ELSE Handle(s, l)
  /\ UNCHANGED <<client, typed, up, sent, split>>

Threads(s) == Receive(s) \/ ReceiveEnd(s) \/ Accept(s) \/ Recv(s) \/ Hangup(s) \/ HandleLine(s)

Next ==
  \E s \in Session :
    \/ Threads(s)
    \/ \E l \in Line : Type(s, l)
    \/ Leave(s)

\* The network delivers and the threads run; nobody has to type or to leave.
Spec == Init /\ [][Next]_vars /\ \A s \in Session : WF_vars(Threads(s))

-----------------------------------------------------------------------------
(* Properties                                                              *)

answerable(q) == SelectSeq(q, LAMBDA l : l # "CR")

\* The handler executes the lines that were sent, each once and in their
\* order, however TCP cuts them and whenever the client goes (inbuf_).
ExecutesInOrder == \A s \in Session : IsPrefix(executed[s], answerable(sent[s]))

\* While every recv of the client has taken one whole answer and the connection
\* is open, client and server are in step: when the user can type, every line sent is answered and
\* nothing is on its way (sendCommand, readLine).
InStep ==
  \A s \in Session : client[s] = "type" /\ ~split[s] /\ "CR" \notin ToSet(sent[s]) /\ ~closed(s) =>
    /\ executed[s] = sent[s]
    /\ up[s] = <<>> /\ down[s] = <<>>

\* A client that leaves ends the server's process only when it had fallen out
\* of step with the answers: no client in step has two answers to come when it
\* leaves, or one that it has not read and one to come (writeLine, close).
ServerSurvives == ~alive => \E s \in Session : split[s]

orphan(s) == handler[s].pc = "closed" /\ active[s]

\* Once a connection has ended within a transaction, no session's CHECKPOINT
\* is ever granted again in this run of the server (handleCheckpoint).
OrphanBlocksCheckpoint ==
  [][(\E s \in Session : orphan(s)) => checkpoints' = checkpoints]_vars

\* A client that waits for the answer to a line does not wait for ever, unless
\* the line is empty to the server, which then answers nothing.
Answered ==
  \A s \in Session :
    client[s] = "wait" /\ Last(sent[s]) # "CR" ~> client[s] # "wait"

\* The handler's thread ends, or the process, when the client has gone.
HandlersEnd == \A s \in Session : client[s] = "gone" ~> closed(s)
=============================================================================
