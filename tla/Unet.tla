--------------------------------- MODULE Unet ---------------------------------
(***************************************************************************)
(* python/unet-prototype/main.py: a connection handled by a command.  Two  *)
(* reader threads put what the client sends and what the command prints    *)
(* into one queue; the handler's thread takes it out and passes it on.     *)
(*                                                                         *)
(* Of the files only what the threads can tell apart is kept: units wait   *)
(* on the connection, both ways, and in the two pipes; a unit is written   *)
(* or sent as a whole.                                                     *)
(***************************************************************************)
EXTENDS Integers, Sequences, SequencesExt

CONSTANTS
  MaxUnits, \* bound: units the client sends, and units the command prints
  PipeRoom, \* room in the pipe to the command's standard input
  SendRoom  \* room on the connection for what the client has not read yet

VARIABLES
  queue,   \* queue.Queue: pairs of who sent and what; 0 is None
  reader,  \* "read", "put" or "ended", for each reader
  item,    \* what each reader is about to put
  handler, \* "start", "get", "work", "wait" or "done"
  msg,     \* the pair the handler has got
  running, \* the counter of ends to come
  stdin,   \* p.stdin is open
  wire,    \* units that wait to be read by each reader
  last,    \* the sources that will give no more: the client, the command
  reset,   \* the client has reset the connection
  command, \* "none", "up" or "exited"
  pipe,    \* units in the pipe to the command
  unread,  \* number of units sent to the client that it has not read
  given,   \* history: the number of units each source has given
  taken    \* history: what the command has read, what the client was sent

unetVars == <<queue, reader, item, handler, msg, running, stdin, wire, last, reset, command, pipe, given, taken, unread>>

Idents == {"CLIENT", "SERVER"}
None == 0
Working(id) == handler = "work" /\ msg[1] = id

-----------------------------------------------------------------------------
(* threaded_read *)

\* source(*args) returns a unit, or nothing at the end.
ReadUnit(id) ==
  /\ reader[id] = "read" /\ wire[id] # <<>>
  /\ reader' = [reader EXCEPT ![id] = "put"]
  /\ item' = [item EXCEPT ![id] = Head(wire[id])]
  /\ wire' = [wire EXCEPT ![id] = Tail(@)]
  /\ UNCHANGED <<queue, handler, msg, running, stdin, last, reset, command, pipe, given, taken, unread>>

SourceEnds_Silent(id) ==  \* mutant: the end is not put into the queue
  /\ reader[id] = "read" /\ wire[id] = <<>> /\ id \in last
  /\ reader' = [reader EXCEPT ![id] = "ended"]
  /\ UNCHANGED <<queue, item, handler, msg, running, stdin, wire, last, reset, command, pipe, given, taken, unread>>
SourceEnds(id) ==
  /\ reader[id] = "read" /\ wire[id] = <<>> /\ id \in last
  /\ ~(id = "CLIENT" /\ reset)
  /\ reader' = [reader EXCEPT ![id] = "put"]
  /\ item' = [item EXCEPT ![id] = None]
  /\ UNCHANGED <<queue, handler, msg, running, stdin, wire, last, reset, command, pipe, given, taken, unread>>

\* recv raises: the thread ends and the queue is not told.
ReadRaises ==
  /\ reader["CLIENT"] = "read" /\ wire["CLIENT"] = <<>> /\ reset
  /\ reader' = [reader EXCEPT !["CLIENT"] = "ended"]
  /\ UNCHANGED <<queue, item, handler, msg, running, stdin, wire, last, reset, command, pipe, given, taken, unread>>

Put(id) ==
  /\ reader[id] = "put"
  /\ queue' = Append(queue, <<id, item[id]>>)
  /\ reader' = [reader EXCEPT ![id] = IF item[id] = None THEN "ended" ELSE "read"]
  /\ UNCHANGED <<item, handler, msg, running, stdin, wire, last, reset, command, pipe, given, taken, unread>>

-----------------------------------------------------------------------------
(* Handler.run *)

\* Popen, the queue and the two threads.
Start ==
  /\ handler = "start"
  /\ handler' = "get" /\ running' = 2 /\ stdin' = TRUE /\ command' = "up"
  /\ reader' = [id \in Idents |-> "read"]
  /\ UNCHANGED <<queue, item, msg, wire, last, reset, pipe, given, taken, unread>>

\* FileNotFoundError; `finally` closes the connection.
CannotStart ==
  /\ handler = "start"
  /\ handler' = "done"
  /\ UNCHANGED <<queue, reader, item, msg, running, stdin, wire, last, reset, command, pipe, given, taken, unread>>

Get ==
  /\ handler = "get" /\ queue # <<>>
  /\ handler' = "work" /\ msg' = Head(queue)
  /\ queue' = Tail(queue)
  /\ UNCHANGED <<reader, item, running, stdin, wire, last, reset, command, pipe, given, taken, unread>>

Weight_One(id) == 1  \* mutant: each end counts one
Weight(id) == IF id = "SERVER" THEN 2 ELSE 1

\* data == None: standard input is closed in both cases.
HandleEnd ==
  /\ handler = "work" /\ msg[2] = None
  /\ stdin' = FALSE
  /\ running' = running - Weight(msg[1])
  /\ handler' = IF running' > 0 THEN "get" ELSE "wait"
  /\ UNCHANGED <<queue, reader, item, msg, wire, last, reset, command, pipe, given, taken, unread>>

WriteStdin ==
  /\ Working("CLIENT") /\ msg[2] # None
  /\ stdin /\ command = "up" /\ Len(pipe) < PipeRoom
  /\ pipe' = Append(pipe, msg[2])
  /\ handler' = "get"
  /\ UNCHANGED <<queue, reader, item, msg, running, stdin, wire, last, reset, command, given, taken, unread>>

\* conn.send blocks while the client does not read.
SendClient ==
  /\ Working("SERVER") /\ msg[2] # None /\ ~reset
  /\ unread < SendRoom
  /\ unread' = unread + 1
  /\ taken' = [taken EXCEPT !["CLIENT"] = Append(@, msg[2])]
  /\ handler' = "get"
  /\ UNCHANGED <<queue, reader, item, msg, running, stdin, wire, last, reset, command, pipe, given>>

\* A closed file, a broken pipe or a connection that was reset: the exception
\* leaves run() by way of `finally`.  p goes with the frame, and its files with
\* it, but not while the command runs: Popen.__del__ then keeps p in a list.
Raises ==
  /\ handler = "work" /\ msg[2] # None
  /\ IF msg[1] = "CLIENT" THEN ~stdin \/ command = "exited" ELSE reset
  /\ handler' = "done" /\ stdin' = (stdin /\ command = "up")
  /\ UNCHANGED <<queue, reader, item, msg, running, wire, last, reset, command, pipe, given, taken, unread>>

\* p.wait() and `finally`
Wait ==
  /\ handler = "wait" /\ command = "exited"
  /\ handler' = "done"
  /\ UNCHANGED <<queue, reader, item, msg, running, stdin, wire, last, reset, command, pipe, given, taken, unread>>

-----------------------------------------------------------------------------
(* The client and the command *)

\* conn.close() leaves the socket to a recv in progress: the peer is told when
\* that returns.
ConnClosed == handler = "done" /\ reader["CLIENT"] # "read"

Give(id) ==
  /\ id \notin last /\ given[id] < MaxUnits /\ (id = "SERVER" => command = "up")
  /\ given' = [given EXCEPT ![id] = @ + 1]
  /\ wire' = [wire EXCEPT ![id] = Append(@, given[id] + 1)]
  /\ UNCHANGED <<queue, reader, item, handler, msg, running, stdin, last, reset, command, pipe, taken, unread>>

\* The client stops sending; the command closes its standard output.
Stop(id) ==
  /\ id \notin last /\ (id = "SERVER" => command = "up")
  /\ last' = last \cup {id}
  /\ UNCHANGED <<queue, reader, item, handler, msg, running, stdin, wire, reset, command, pipe, given, taken, unread>>

Reset ==
  /\ ~reset
  /\ reset' = TRUE /\ last' = last \cup {"CLIENT"}
  /\ UNCHANGED <<queue, reader, item, handler, msg, running, stdin, wire, command, pipe, given, taken, unread>>

ClientReads ==
  /\ ~reset /\ unread > 0
  /\ unread' = unread - 1
  /\ UNCHANGED <<queue, reader, item, handler, msg, running, stdin, wire, last, reset, command, pipe, given, taken>>

CommandReads ==
  /\ command = "up" /\ pipe # <<>>
  /\ taken' = [taken EXCEPT !["SERVER"] = Append(@, Head(pipe))]
  /\ pipe' = Tail(pipe)
  /\ UNCHANGED <<queue, reader, item, handler, msg, running, stdin, wire, last, reset, command, given, unread>>

CommandExits ==
  /\ command = "up"
  /\ command' = "exited" /\ last' = last \cup {"SERVER"}
  /\ UNCHANGED <<queue, reader, item, handler, msg, running, stdin, wire, reset, pipe, given, taken, unread>>

\* A filter: it ends when its input has.
FilterExits == CommandExits /\ ~stdin /\ pipe = <<>>

UnetInit ==
  /\ queue = <<>>
  /\ reader = [id \in Idents |-> "ended"]
  /\ item = [id \in Idents |-> None]
  /\ handler = "start"
  /\ msg = <<"CLIENT", None>>
  /\ running = 0
  /\ stdin = FALSE
  /\ wire = [id \in Idents |-> <<>>]
  /\ last = {} /\ reset = FALSE
  /\ command = "none"
  /\ pipe = <<>>
  /\ given = [id \in Idents |-> 0]
  /\ taken = [id \in Idents |-> <<>>]
  /\ unread = 0

Reader(id) == ReadUnit(id) \/ SourceEnds(id) \/ (id = "CLIENT" /\ ReadRaises) \/ Put(id)
Handler == Start \/ CannotStart \/ Get \/ HandleEnd \/ WriteStdin \/ SendClient \/ Raises \/ Wait
Outside == Reset \/ ClientReads \/ CommandReads \/ CommandExits \/ \E id \in Idents : Give(id) \/ Stop(id)

UnetNext == Handler \/ Outside \/ \E id \in Idents : Reader(id)
UnetSpec == UnetInit /\ [][UnetNext]_unetVars

\* The threads run; the client reads what it is sent, as nothing in the code makes
\* it do; the command reads its input and ends some time after it.
UnetFairSpec ==
  /\ UnetSpec
  /\ WF_unetVars(Handler) /\ \A id \in Idents : WF_unetVars(Reader(id))
  /\ WF_unetVars(ClientReads)
  /\ WF_unetVars(CommandReads) /\ WF_unetVars(FilterExits)

-----------------------------------------------------------------------------
(* Properties *)

\* The two readers' items mix in the queue, and the ends with them, but the
\* handler never works on the client's data after it has closed stdin.
NoLateWrite ==
  Working("CLIENT") => stdin

\* Each side is given what the other one sent, in order, and the client all
\* that the command printed before the handler waits for the command: the
\* command's end comes through the queue, behind what it printed.
PassedOn ==
  /\ IsPrefix(taken["SERVER"] \o pipe, [k \in 1 .. given["CLIENT"] |-> k])
  /\ IsPrefix(taken["CLIENT"], [k \in 1 .. given["SERVER"] |-> k])
  /\ handler = "wait" => Len(taken["CLIENT"]) = given["SERVER"]

\* Both sides get what the other one sent, in order, and nothing is written to
\* a file the handler has closed.
UnetOrderly == NoLateWrite /\ PassedOn

\* When a client that goes on reading stops sending, the command's input is
\* closed, the command ends, the handler with it, and the client is told.  A reset
\* alone does not do so, as the reader that it ends does not tell the handler: the
\* connection is then closed once the command's output ends.
UnetEnds == "CLIENT" \in last ~> ConnClosed \/ (reset /\ "SERVER" \notin last)
=============================================================================
