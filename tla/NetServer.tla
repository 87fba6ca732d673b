------------------------------ MODULE NetServer ------------------------------
(***************************************************************************)
(* c/krimskrams/src/net.c on top of the event loop: krk_net_multiServer    *)
(* with the echo handler of test/main.c.  One coroutine accepts; every     *)
(* connection gets a coroutine that reads up to Want bytes                 *)
(* (krk_net_readEOF), stops the loop if they say "quit", writes them back  *)
(* (krk_net_writeAll) and finishes.                                        *)
(*                                                                         *)
(* Peers and the kernel's socket buffers are the environment: they move    *)
(* between any two system calls of the process.  The module implements     *)
(* EventLoop, whose `kernel` becomes what the sockets would make poll      *)
(* report.  The broadcast of standard input in test/main.c is left out,    *)
(* and so is a poll() that fails: the server handles no signal, and passes *)
(* what poll() asks for.                                                   *)
(***************************************************************************)
EXTENDS LoopState, Naturals, Sequences, SequencesExt, Functions, FiniteSets

CONSTANTS
  Peers,    \* the clients that may connect
  Quitters, \* those whose bytes begin with "quit"
  Want,     \* the size of the handler's buffer
  QuitLen,  \* the length of "quit"
  MaxSend,  \* bound: the bytes each peer ever sends
  SendCap,  \* room in the kernel's send buffer of a connection
  Resetters \* those that may reset their connection

ASSUME NetAssumption ==
  /\ Listener \in Fds /\ Coros # {}
  /\ Quitters \subseteq Peers
  /\ {Want, QuitLen, SendCap} \subseteq Nat \ {0}
  /\ MaxSend \in [Peers -> Nat]
  /\ Resetters \subseteq Peers

VARIABLES
  task,    \* of each live coroutine: where it is, its buffer, bytes written back
  conn,    \* the peer at the other end of each open connection
  backlog, \* peers waiting to be accepted
  phase,   \* "new", "open", "shut" (done writing) or "reset", for each peer
  sent,    \* the number of bytes each peer has sent
  inbuf,   \* bytes of each peer the process has yet to read
  outbuf,  \* bytes written to each peer that it has yet to read
  got,     \* all bytes each peer has read
  killed   \* SIGPIPE ended the process

net == <<task, conn, backlog, phase, sent, inbuf, outbuf, got, killed>>
vars == <<loop, net>>

\* What poll would report.  A reset makes a socket readable as well.
Kernel ==
  [f \in Fds |->
     CASE f \notin open -> {}
       [] f \in open /\ f = Listener -> IF backlog = <<>> THEN {} ELSE {"IN"}
       [] OTHER -> LET p == conn[f] IN
            IF phase[p] = "reset" THEN {"IN", "HUP", "ERR"}
            ELSE IF inbuf[p] # <<>> \/ phase[p] = "shut" THEN {"IN"} ELSE {}]

EL == INSTANCE EventLoop WITH
        kernel <- Kernel, ErrorHandler <- "NULL", HandlersDelete <- FALSE,
        Events <- {"IN", "HUP", "ERR"}

-----------------------------------------------------------------------------
(* The process *)

NewTask == [at |-> "read", buf |-> <<>>, put |-> 0]

me == coros[i]
peer == conn[home[me]]
At(a) == ~killed /\ pc = "handler" /\ task[me].at = a
GoTo(a) == task' = [task EXCEPT ![me].at = a]

LoopRuns ==
  /\ ~killed
  /\ UNCHANGED <<net, open>>
  /\ EL!Poll \/ EL!Skip \/ EL!Resume

LoopEnds ==
  /\ ~killed
  /\ UNCHANGED <<conn, backlog, phase, sent, inbuf, outbuf, got, killed, open>>
  /\ task' = IF running THEN task ELSE << >>
  /\ EL!EndPass

\* The running coroutine deletes itself: its socket is closed.
Vanish ==
  /\ task' = Restrict(task, DOMAIN task \ {me})
  /\ conn' = Restrict(conn, DOMAIN conn \ {home[me]})
  /\ open' = open \ {home[me]}
  /\ UNCHANGED <<backlog, phase, sent, inbuf, outbuf, got, killed>>

\* multiServerAccept: accept() and krk_eventloop_addFd ...
Accept ==
  /\ At("accept")
  /\ backlog # <<>>
  /\ \E f \in Fds \ open, c \in Coros \ EL!live :
       /\ conn' = [g \in DOMAIN conn \cup {f} |-> IF g = f THEN Head(backlog) ELSE conn[g]]
       /\ task' = [d \in DOMAIN task \cup {c} |->
                     IF d = c THEN NewTask
                     ELSE IF d = me THEN [task[d] EXCEPT !.at = "accepted"] ELSE task[d]]
       /\ backlog' = Tail(backlog)
       /\ UNCHANGED <<phase, sent, inbuf, outbuf, got, killed>>
       /\ EL!AddFd(c, f)
  /\ UNCHANGED <<running, pc, i, due>>

Accepted_Loops ==  \* mutant: no yield between two calls of accept()
  At("accepted") /\ GoTo("accept") /\ UNCHANGED <<loop, conn, backlog, phase, sent, inbuf, outbuf, got, killed>>

\* ... and krk_coro_yield, once per resumption.
Accepted ==
  /\ At("accepted")
  /\ GoTo("accept")
  /\ UNCHANGED <<conn, backlog, phase, sent, inbuf, outbuf, got, killed, open>>
  /\ EL!Yield

\* accept() fails, for want of a descriptor or of memory or because the
\* connection is gone already: krk_coro_error without an error handler deletes
\* the listening socket, whatever the reason.
AcceptFails ==
  /\ At("accept")
  /\ Vanish
  /\ EL!Error

Room == Want - Len(task[me].buf)

\* doAll(read): one read() that returns bytes; the loop goes on until it is full.
\* What came before a reset may still be read after it.
ReadSome ==
  /\ At("read")
  /\ inbuf[peer] # <<>>
  /\ LET n == IF Len(inbuf[peer]) < Room THEN Len(inbuf[peer]) ELSE Room
         buf == task[me].buf \o SubSeq(inbuf[peer], 1, n)
     IN  /\ task' = [task EXCEPT ![me].buf = buf,
                                 ![me].at = IF Len(buf) = Want THEN "check" ELSE "read"]
         /\ inbuf' = [inbuf EXCEPT ![peer] = SubSeq(@, n + 1, Len(@))]
  /\ UNCHANGED <<loop, conn, backlog, phase, sent, outbuf, got, killed>>

AtEnd == phase[peer] = "shut"

\* read() returns 0.
ReadEnd ==
  /\ At("read")
  /\ inbuf[peer] = <<>>
  /\ AtEnd
  /\ GoTo("check")
  /\ UNCHANGED <<loop, conn, backlog, phase, sent, inbuf, outbuf, got, killed>>

\* read() fails with EAGAIN.
ReadWaits ==
  /\ At("read")
  /\ phase[peer] # "reset"
  /\ inbuf[peer] = <<>>
  /\ ~AtEnd
  /\ UNCHANGED <<net, open>>
  /\ EL!Yield

\* read() fails with ECONNRESET.
ReadFails ==
  /\ At("read")
  /\ phase[peer] = "reset"
  /\ Vanish
  /\ EL!Error

\* The test of the handler for "quit".
Check ==
  /\ At("check")
  /\ GoTo("write")
  /\ running' = (running /\ ~(peer \in Quitters /\ Len(task[me].buf) >= QuitLen))
  /\ UNCHANGED <<coros, pollfds, state, home, open, pc, i, due>>
  /\ UNCHANGED <<conn, backlog, phase, sent, inbuf, outbuf, got, killed>>

Left_Restart == task[me].buf  \* mutant: a short write starts over
Left_Once ==  \* mutant: a short write is taken for a whole one
  IF task[me].put > 0 THEN <<>> ELSE task[me].buf
Left == SubSeq(task[me].buf, task[me].put + 1, Len(task[me].buf))

\* doAll(write): one write() that accepts bytes.
WriteSome ==
  /\ At("write")
  /\ phase[peer] # "reset"
  /\ LET room == SendCap - Len(outbuf[peer])
         n == IF Len(Left) < room THEN Len(Left) ELSE room
     IN  /\ n > 0
         /\ outbuf' = [outbuf EXCEPT ![peer] = @ \o SubSeq(Left, 1, n)]
         /\ task' = [task EXCEPT ![me].put = @ + n]
  /\ UNCHANGED <<loop, conn, backlog, phase, sent, inbuf, got, killed>>

\* write() fails with EAGAIN: the coroutine waits, for input.
WriteWaits ==
  /\ At("write")
  /\ phase[peer] # "reset"
  /\ Left # <<>>
  /\ Len(outbuf[peer]) = SendCap
  /\ UNCHANGED <<net, open>>
  /\ EL!Yield

\* The connection was reset and write() fails with ECONNRESET: krk_coro_error.
WriteFails ==
  /\ At("write")
  /\ phase[peer] = "reset"
  /\ Left # <<>>
  /\ Vanish
  /\ EL!Error

\* Or, if the peer had shut it down before, with EPIPE, and SIGPIPE is raised.
WriteKills ==
  /\ At("write")
  /\ phase[peer] = "reset"
  /\ Left # <<>>
  /\ killed' = TRUE
  /\ UNCHANGED <<loop, task, conn, backlog, phase, sent, inbuf, outbuf, got>>

Done_CloseOnly ==  \* mutant: the handler closes its socket and only yields
  /\ At("write") /\ Left = <<>> /\ Vanish
  /\ UNCHANGED <<running, coros, pollfds, state, home, pc, i, due>>

\* krk_coro_finish; the loop closes the connection.
Done ==
  /\ At("write")
  /\ Left = <<>>
  /\ Vanish
  /\ EL!Finish

-----------------------------------------------------------------------------
(* The peers.  They act while the process runs. *)

Alive == ~killed /\ pc # "exited"

Connect(p) ==
  /\ Alive /\ phase[p] = "new" /\ Listener \in open
  /\ phase' = [phase EXCEPT ![p] = "open"]
  /\ backlog' = Append(backlog, p)
  /\ UNCHANGED <<loop, task, conn, sent, inbuf, outbuf, got, killed>>

Send(p) ==
  /\ Alive /\ phase[p] = "open" /\ sent[p] < MaxSend[p]
  /\ sent' = [sent EXCEPT ![p] = @ + 1]
  /\ inbuf' = [inbuf EXCEPT ![p] = Append(@, <<p, sent[p] + 1>>)]
  /\ UNCHANGED <<loop, task, conn, backlog, phase, outbuf, got, killed>>

Shut(p) ==
  /\ Alive /\ phase[p] = "open"
  /\ phase' = [phase EXCEPT ![p] = "shut"]
  /\ UNCHANGED <<loop, task, conn, backlog, sent, inbuf, outbuf, got, killed>>

Reset(p) ==
  /\ Alive /\ p \in Resetters /\ phase[p] \in {"open", "shut"}
  /\ phase' = [phase EXCEPT ![p] = "reset"]
  /\ UNCHANGED <<loop, task, conn, backlog, sent, inbuf, outbuf, got, killed>>

Recv(p) ==
  /\ phase[p] # "reset" /\ outbuf[p] # <<>>
  /\ got' = [got EXCEPT ![p] = @ \o outbuf[p]]
  /\ outbuf' = [outbuf EXCEPT ![p] = <<>>]
  /\ UNCHANGED <<loop, task, conn, backlog, phase, sent, inbuf, killed>>

Init ==
  /\ conn = << >>
  /\ backlog = <<>>
  /\ phase = [p \in Peers |-> "new"]
  /\ sent = [p \in Peers |-> 0]
  /\ inbuf = [p \in Peers |-> <<>>]
  /\ outbuf = [p \in Peers |-> <<>>]
  /\ got = [p \in Peers |-> <<>>]
  /\ killed = FALSE
  /\ EL!Init
  /\ task = [c \in EL!live |-> [NewTask EXCEPT !.at = "accept"]]

Process ==
  \/ LoopRuns \/ LoopEnds
  \/ Accept \/ Accepted \/ AcceptFails
  \/ ReadSome \/ ReadEnd \/ ReadWaits \/ ReadFails
  \/ Check
  \/ WriteSome \/ WriteWaits \/ WriteFails \/ WriteKills \/ Done

Next ==
  \/ Process
  \/ \E p \in Peers : Connect(p) \/ Send(p) \/ Shut(p) \/ Reset(p) \/ Recv(p)

Spec == Init /\ [][Next]_vars

\* The process is scheduled, and a peer reads what reaches it.  No peer has to
\* connect, to send or to stop sending.
FairSpec == Spec /\ WF_vars(Process) /\ \A p \in Peers : WF_vars(Recv(p))

-----------------------------------------------------------------------------
(* Properties *)

\* The bytes the handler has to send back to peer p: the first Want of its own.
Expected(p) == [k \in 1 .. (IF sent[p] < Want THEN sent[p] ELSE Want) |-> <<p, k>>]

\* A peer is only ever sent its own bytes, in order, from the first, without
\* gaps or repetitions, although descriptors and coroutine memory are reused
\* by later connections and reads and writes are partial.
Echo == \A p \in Peers : IsPrefix(got[p] \o outbuf[p], Expected(p))

\* The accepting coroutine calls accept() only when a connection waits: one
\* accept per resumption, so it never meets EAGAIN, which it would treat as a
\* failure and which would end the server (net.c:46).
AcceptFindsOne ==
  pc = "handler" /\ task[me].at = "accept" => backlog # <<>>

\* A peer gets its whole echo, however little its socket takes at a time, if it
\* stopped sending or sent more than the handler reads: either keeps its socket
\* readable, and a writer that waits is resumed for input only.  What other
\* peers do does not matter, unless one quits or has the process killed; if
\* accept() fails, those that were accepted by then are still served.
EchoComplete ==
  \A p \in Peers :
    phase[p] = "shut" \/ (phase[p] = "open" /\ sent[p] > Want)
      ~> \/ got[p] = Expected(p)
         \/ phase[p] = "reset"
         \/ ~running \/ killed
         \/ Listener \notin open /\ p \in Range(backlog)

\* The server is an instance of the event loop of EventLoop.tla.
Implements == EL!Spec
=============================================================================
