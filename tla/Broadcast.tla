------------------------------ MODULE Broadcast -------------------------------
(***************************************************************************)
(* c/krimskrams/test/main.c: the server also sends what it reads from      *)
(* standard input to all its clients.  The first client's coroutine adds   *)
(* standard input to the loop; its coroutine, stdinReader, walks the loop's *)
(* entries by position and writes a line to each.  When a socket has no    *)
(* room it yields in the middle, and by the time it is resumed, which      *)
(* takes the next input, entries have moved and descriptors have new       *)
(* owners.                                                                 *)
(*                                                                         *)
(* The loop is EventLoop's; NetServer has what the clients' own coroutines *)
(* do, of which only their coming and going matters here.                  *)
(***************************************************************************)
EXTENDS LoopState, Naturals, Sequences, SequencesExt, Functions, FiniteSets

CONSTANTS
  Stdin,    \* STDIN_FILENO
  Line,     \* bytes that stdinReader reads at once
  MaxLines, \* bound: how often there is input
  MaxConns  \* bound: the connections ever made

\* What the proofs assume of them; STDIN_FILENO is not the listening socket.
BroadcastAssumption ==
  /\ Listener \in Fds /\ Stdin \in Fds /\ Stdin # Listener
  /\ Coros # {}
  /\ Line \in Nat \ {0} /\ MaxLines \in Nat

VARIABLES
  added,   \* stdinAdded
  reader,  \* stdinReader: where it is, its index, target and bytes written
  input,   \* lines that wait on standard input
  line,    \* history: the number of the line it read last
  conn,    \* the number of the connection behind each descriptor
  backlog, \* connections that wait to be accepted
  ready,   \* the connections with input for their own coroutines
  got,     \* history: the bytes of each line that each connection was sent
  born,    \* history: the line that was being written when it was accepted
  moved    \* history: an entry was deleted since the line was read

env == <<input, backlog, ready>>
hist == <<line, got, born, moved>>
broadcastVars == <<loop, added, reader, conn, env, hist>>

Kernel ==
  [f \in Fds |->
     IF \/ f \notin open
        \/ f = Stdin /\ f \notin DOMAIN conn /\ input = 0
        \/ f = Listener /\ f \notin DOMAIN conn /\ backlog = 0
        \/ f \in DOMAIN conn /\ conn[f] \notin ready
     THEN {} ELSE {"IN"}]

EL == INSTANCE EventLoop WITH
        kernel <- Kernel, ErrorHandler <- "NULL", HandlersDelete <- FALSE, Events <- {"IN"}

me == home[coros[i]]  \* the descriptor whose coroutine runs
Runs(f) == pc = "handler" /\ me = f /\ f \notin DOMAIN conn
RunsClient == pc = "handler" /\ me \in DOMAIN conn
Count == Len(got)

-----------------------------------------------------------------------------
(* The loop and the other coroutines *)

LoopRuns ==
  /\ UNCHANGED <<open, added, reader, conn, env, hist>>
  /\ EL!Poll \/ EL!Skip \/ EL!Resume \/ EL!EndPass

\* multiServerAccept.  Standard input is open before it is in the loop.
Accept ==
  /\ Runs(Listener) /\ backlog > 0
  /\ \E f \in Fds \ (open \cup (IF added THEN {} ELSE {Stdin})), c \in Coros \ EL!live :
       /\ conn' = [g \in DOMAIN conn \cup {f} |-> IF g = f THEN Count + 1 ELSE conn[g]]
       /\ coros' = Append(coros, c)
       /\ pollfds' = Append(pollfds, EL!Slot(f))
       /\ home' = [d \in DOMAIN home \cup {c} |-> IF d = c THEN f ELSE home[d]]
       /\ state' = [d \in DOMAIN home \cup {c} |->
                      IF d = c THEN "INVALID" ELSE IF d = coros[i] THEN "PAUSED" ELSE state[d]]
       /\ open' = open \cup {f}
  /\ pc' = "scan" /\ i' = i + 1
  /\ backlog' = backlog - 1
  /\ got' = Append(got, [l \in 1 .. MaxLines |-> <<>>])
  /\ born' = Append(born, IF reader.at = "write" THEN line ELSE 0)
  /\ UNCHANGED <<running, due, added, reader, input, ready, line, moved>>

\* accept() fails: the loop deletes the listening socket, its first entry.
AcceptFails ==
  /\ Runs(Listener) /\ backlog > 0
  /\ open' = open \ {Listener}
  /\ moved' = TRUE
  /\ UNCHANGED <<added, reader, conn, env, line, got, born>>
  /\ EL!Error

\* client: the first thing the first of them does.
AddStdin ==
  /\ RunsClient /\ ~added
  /\ \E c \in Coros \ EL!live : EL!AddFd(c, Stdin)
  /\ added' = TRUE
  /\ UNCHANGED <<running, pc, i, due, reader, conn, env, hist>>

\* It reads what there is and waits for more, ...
ClientReads ==
  /\ RunsClient /\ added /\ conn[me] \in ready
  /\ ready' = ready \ {conn[me]}
  /\ UNCHANGED <<loop, added, reader, input, conn, backlog, hist>>

ClientWaits ==
  /\ RunsClient /\ added /\ conn[me] \notin ready
  /\ UNCHANGED <<open, added, reader, conn, env, hist>>
  /\ EL!Yield

\* ... or has answered, or lost its connection: the loop deletes it.
ClientEnds ==
  /\ RunsClient /\ added /\ conn[me] \notin ready
  /\ conn' = Restrict(conn, DOMAIN conn \ {me})
  /\ open' = open \ {me}
  /\ moved' = TRUE
  /\ UNCHANGED <<added, reader, env, line, got, born>>
  /\ EL!Finish

-----------------------------------------------------------------------------
(* stdinReader *)

Targets_Behind(k) == {j \in k .. Len(pollfds) : j > i}  \* mutant: from its own entry on
\* Positions from k on that it writes to: not the first, and not its own.
Targets(k) == {j \in k .. Len(pollfds) : j # 1 /\ pollfds[j].fd # Stdin}

ReadLine ==
  /\ Runs(Stdin) /\ reader.at = "read" /\ input > 0
  /\ input' = input - 1
  /\ line' = line + 1
  /\ moved' = FALSE
  /\ reader' = [reader EXCEPT !.at = "next", !.k = 1]
  /\ UNCHANGED <<loop, added, conn, backlog, ready, got, born>>

\* The next target: its descriptor is looked up once.
NextTarget ==
  /\ Runs(Stdin) /\ reader.at = "next"
  /\ \E j \in Targets(reader.k) :
       /\ \A l \in Targets(reader.k) : j <= l
       /\ reader' = [at |-> "write", k |-> j, target |-> pollfds[j].fd, put |-> 0]
  /\ UNCHANGED <<loop, added, conn, env, hist>>

LineDone ==
  /\ Runs(Stdin) /\ reader.at = "next" /\ Targets(reader.k) = {}
  /\ reader' = [reader EXCEPT !.at = "read"]
  /\ UNCHANGED <<open, added, conn, env, hist>>
  /\ EL!Yield

NextIndex_Same == reader.k  \* mutant: the same entry again
NextIndex == reader.k + 1

\* krk_net_writeAll: one write() that accepts n bytes.
WriteSome ==
  /\ Runs(Stdin) /\ reader.at = "write" /\ reader.target \in DOMAIN conn
  /\ \E n \in 1 .. Line - reader.put :
       /\ got' = [got EXCEPT ![conn[reader.target]][line] =
                    @ \o [b \in 1 .. n |-> reader.put + b]]
       /\ reader' = IF reader.put + n = Line
                    THEN [reader EXCEPT !.at = "next", !.k = NextIndex]
                    ELSE [reader EXCEPT !.put = @ + n]
  /\ UNCHANGED <<loop, added, conn, env, line, born, moved>>

\* EAGAIN: it is resumed when there is more on standard input.
WriteWaits ==
  /\ Runs(Stdin) /\ reader.at = "write" /\ reader.target \in DOMAIN conn
  /\ UNCHANGED <<open, added, reader, conn, env, hist>>
  /\ EL!Yield

\* The target's client has reset it (ECONNRESET), or it is not open any more
\* (EBADF): krk_coro_error, and the loop deletes and closes standard input.
\* Where write() raises SIGPIPE there is nothing more to say.
WriteFails ==
  /\ Runs(Stdin) /\ reader.at = "write"
  /\ reader' = [reader EXCEPT !.at = "failed"]
  /\ moved' = TRUE
  /\ open' = open \ {Stdin}
  /\ UNCHANGED <<added, conn, env, line, got, born>>
  /\ EL!Error

-----------------------------------------------------------------------------
(* The clients and the terminal *)

Connect ==
  /\ Listener \in open /\ Listener \notin DOMAIN conn /\ Count + backlog < MaxConns
  /\ backlog' = backlog + 1
  /\ UNCHANGED <<loop, added, reader, input, conn, ready, hist>>

Send ==
  /\ \E c \in Range(conn) \ ready : ready' = ready \cup {c}
  /\ UNCHANGED <<loop, added, reader, input, conn, backlog, hist>>

Type ==
  /\ input + line < MaxLines
  /\ input' = input + 1
  /\ UNCHANGED <<loop, added, reader, conn, backlog, ready, hist>>

BroadcastInit ==
  /\ added = FALSE
  /\ reader = [at |-> "read", k |-> 1, target |-> Listener, put |-> 0]
  /\ input = 0 /\ backlog = 0 /\ ready = {}
  /\ conn = << >>
  /\ line = 0 /\ got = <<>> /\ born = <<>> /\ moved = FALSE
  /\ EL!Init

BroadcastNext ==
  \/ LoopRuns \/ Accept \/ AcceptFails \/ AddStdin \/ ClientReads \/ ClientWaits \/ ClientEnds
  \/ ReadLine \/ NextTarget \/ LineDone \/ WriteSome \/ WriteWaits \/ WriteFails
  \/ Connect \/ Send \/ Type

BroadcastSpec == BroadcastInit /\ [][BroadcastNext]_broadcastVars

-----------------------------------------------------------------------------
(* Properties *)

Whole == [b \in 1 .. Line |-> b]
IsCurrent(l) == l = line /\ reader.at # "read"

\* Every connection is sent each line at most once, from its start and to its
\* end unless it is being written, or the connection or stdinReader ended.
\* Only one that was accepted while a line was being written may be sent the
\* rest of that line first: in place of one that left, whose descriptor it has.
BroadcastAtMostOnce ==
  \A c \in 1 .. Count, l \in 1 .. line :
    \/ got[c][l] \in {<<>>, Whole}
    \/ IsPrefix(got[c][l], Whole) /\ (IsCurrent(l) \/ c \notin Range(conn))
    \/ /\ born[c] = l
       /\ \E b \in 1 .. Line : IsPrefix(got[c][l], SubSeq(Whole, b, Line) \o Whole)

\* Whoever is connected when a line is done was sent it, unless an entry was
\* deleted while it was being written.
BroadcastNobodyMissed ==
  reader.at = "next" /\ Targets(reader.k) = {} /\ ~moved =>
    \A c \in Range(conn) : pollfds[1].fd = Listener => got[c][line] = Whole
=============================================================================
