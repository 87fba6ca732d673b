-------------------------------- MODULE Bridge --------------------------------
(***************************************************************************)
(* c/unix-tcp-bridge.c: a TCP client joined to a server on a UNIX socket   *)
(* by two processes.  The handler (a child of main) connects to the server *)
(* and forks; its child pumps from the client "up" to the server, itself   *)
(* pumps what comes "down".  Each pump reads a buffer, writes it, and at   *)
(* the end of its input shuts its own two ends down.                       *)
(*                                                                         *)
(* A blocking write copies into the socket's buffer bit by bit.  The       *)
(* child's exit sends the parent SIGCHLD, which has a handler: a write     *)
(* that has copied something returns short, any other call is restarted.   *)
(* Units count the bytes of a direction: 1 is the first.                   *)
(***************************************************************************)
EXTENDS Naturals, Sequences, SequencesExt

CONSTANTS
  Buf,     \* BUFSIZ
  Gap,     \* room in the socket buffer between a pump and its reader
  MaxSend  \* bound: units sent in each direction

ASSUME BridgeAssumption == Buf \in Nat \ {0}

VARIABLES
  bpc,   \* where each pump is; "down" is the handler before it forks
  bbuf,  \* what each pump has read
  put,   \* its counter `written`
  now,   \* units the write it is in has copied
  chld,  \* SIGCHLD is pending for the parent
  held,  \* main still has its copy of the connection
  in,    \* units that wait to be read by each pump
  out,   \* units that wait to be read by the other end
  sent,  \* the number of units that were sent
  shut,  \* the source of the direction has stopped sending
  eof,   \* the end that direction writes to has been shut down for writing
  over,  \* the directions whose input end has been shut down for reading
  gone,  \* the sink of the direction has closed its socket
  got    \* history: all that the sink has read

proc == <<bpc, bbuf, put, now, chld, held>>
bridgeVars == <<proc, in, out, sent, shut, eof, over, gone, got>>

Pumps == {"up", "down"}
Back(d) == IF d = "up" THEN "down" ELSE "up"
PumpTo(d, l) == bpc' = [bpc EXCEPT ![d] = l]

\* No process has the two sockets any more.
Closed == ~held /\ \A d \in Pumps : bpc[d] = "done"

\* exit(): SIGCHLD is sent to the parent while there is one.
Exit(d) ==
  /\ PumpTo(d, "done")
  /\ chld' = (chld \/ (d = "up" /\ bpc["down"] # "done"))

-----------------------------------------------------------------------------
(* handler() *)

Connect ==
  /\ bpc["down"] = "connect"
  /\ PumpTo("down", "fork")
  /\ UNCHANGED <<bbuf, put, now, chld, held, in, out, sent, shut, eof, over, gone, got>>

\* socket(), connect() or fork() fails: exit(1).
SetupFails ==
  /\ bpc["down"] \in {"connect", "fork"}
  /\ bpc' = [d \in Pumps |-> "done"]
  /\ UNCHANGED <<bbuf, put, now, chld, held, in, out, sent, shut, eof, over, gone, got>>

Fork ==
  /\ bpc["down"] = "fork"
  /\ bpc' = [d \in Pumps |-> "read"]
  /\ UNCHANGED <<bbuf, put, now, chld, held, in, out, sent, shut, eof, over, gone, got>>

MainCloses_Not == UNCHANGED bridgeVars  \* mutant: main keeps its copy
\* main closes its copy after its own fork.
MainCloses ==
  /\ held /\ held' = FALSE
  /\ UNCHANGED <<bpc, bbuf, put, now, chld, in, out, sent, shut, eof, over, gone, got>>

-----------------------------------------------------------------------------
(* pump() *)

Read(d) ==
  LET n == IF Len(in[d]) < Buf THEN Len(in[d]) ELSE Buf
  IN  /\ bpc[d] = "read" /\ in[d] # <<>>
      /\ bbuf' = [bbuf EXCEPT ![d] = SubSeq(in[d], 1, n)]
      /\ in' = [in EXCEPT ![d] = SubSeq(@, n + 1, Len(@))]
      /\ put' = [put EXCEPT ![d] = 0]
      /\ PumpTo(d, "write")
      /\ UNCHANGED <<now, chld, held, out, sent, shut, eof, over, gone, got>>

ShutDown_Both(d) ==  \* mutant: SHUT_RDWR on both sockets
  eof' = [e \in Pumps |-> TRUE] /\ over' = Pumps
\* shutdown(fd1, SHUT_RD), shutdown(fd2, SHUT_WR)
ShutDown(d) ==
  eof' = [eof EXCEPT ![d] = TRUE] /\ over' = over \cup {d}

\* read() returns 0, or fails.
InputEnds(d) ==
  /\ bpc[d] = "read" /\ in[d] = <<>> /\ (shut[d] \/ d \in over)
  /\ ShutDown(d)
  /\ PumpTo(d, "exit")
  /\ UNCHANGED <<bbuf, put, now, chld, held, in, out, sent, shut, gone, got>>

ExitPump(d) ==
  /\ bpc[d] = "exit"
  /\ Exit(d)
  /\ UNCHANGED <<bbuf, put, now, held, in, out, sent, shut, eof, over, gone, got>>

\* write() in progress.  Each call starts at the front of the buffer.
CopyOut(d) ==
  /\ bpc[d] = "write" /\ now[d] < Len(bbuf[d])
  /\ ~gone[d] /\ ~eof[d] /\ Len(out[d]) < Gap
  /\ out' = [out EXCEPT ![d] = Append(@, bbuf[d][now[d] + 1])]
  /\ now' = [now EXCEPT ![d] = @ + 1]
  /\ UNCHANGED <<bpc, bbuf, put, chld, held, in, sent, shut, eof, over, gone, got>>

Enough(d, n) == n >= Len(bbuf[d])

\* write() returns what it has copied; the loop goes on until it is enough.
Return(d) ==
  /\ put' = [put EXCEPT ![d] = @ + now[d]]
  /\ now' = [now EXCEPT ![d] = 0]
  /\ PumpTo(d, IF Enough(d, put[d] + now[d]) THEN "read" ELSE "write")

WriteReturns(d) ==
  /\ bpc[d] = "write" /\ now[d] = Len(bbuf[d])
  /\ Return(d)
  /\ UNCHANGED <<bbuf, chld, held, in, out, sent, shut, eof, over, gone, got>>

\* SIGPIPE ends the process, or write() fails and the handler exits: nothing
\* is shut down.  (A write whose sink goes away under it may first return what
\* it has copied, which nobody reads, and fail at the next call: one step here.)
WriteFails(d) ==
  /\ bpc[d] = "write" /\ now[d] < Len(bbuf[d]) /\ (gone[d] \/ eof[d])
  /\ Exit(d)
  /\ UNCHANGED <<bbuf, put, now, held, in, out, sent, shut, eof, over, gone, got>>

\* The handler of SIGCHLD runs in the parent.
Signal ==
  /\ chld /\ bpc["down"] # "done"
  /\ chld' = FALSE
  /\ IF bpc["down"] = "write" /\ now["down"] \in 1 .. Len(bbuf["down"]) - 1
     THEN Return("down")
     ELSE UNCHANGED <<bpc, put, now>>
  /\ UNCHANGED <<bbuf, held, in, out, sent, shut, eof, over, gone, got>>

-----------------------------------------------------------------------------
(* The client and the server, each the source of one direction and the     *)
(* sink of the other.                                                      *)

Send(d) ==
  /\ ~shut[d] /\ ~Closed /\ sent[d] < MaxSend[d]
  /\ sent' = [sent EXCEPT ![d] = @ + 1]
  /\ in' = [in EXCEPT ![d] = Append(@, sent[d] + 1)]
  /\ UNCHANGED <<proc, out, shut, eof, over, gone, got>>

Shut(d) ==
  /\ ~shut[d]
  /\ shut' = [shut EXCEPT ![d] = TRUE]
  /\ UNCHANGED <<proc, in, out, sent, eof, over, gone, got>>

CloseSink(d) ==
  /\ ~gone[d]
  /\ gone' = [gone EXCEPT ![d] = TRUE]
  /\ shut' = [shut EXCEPT ![Back(d)] = TRUE]
  /\ UNCHANGED <<proc, in, out, sent, eof, over, got>>

Recv(d) ==
  /\ ~gone[d] /\ out[d] # <<>>
  /\ got' = [got EXCEPT ![d] = @ \o out[d]]
  /\ out' = [out EXCEPT ![d] = <<>>]
  /\ UNCHANGED <<proc, in, sent, shut, eof, over, gone>>

BridgeInit ==
  /\ bpc = [d \in Pumps |-> IF d = "up" THEN "unborn" ELSE "connect"]
  /\ bbuf = [d \in Pumps |-> <<>>]
  /\ put = [d \in Pumps |-> 0]
  /\ now = [d \in Pumps |-> 0]
  /\ chld = FALSE
  /\ held = TRUE
  /\ in = [d \in Pumps |-> <<>>]
  /\ out = [d \in Pumps |-> <<>>]
  /\ sent = [d \in Pumps |-> 0]
  /\ shut = [d \in Pumps |-> FALSE]
  /\ eof = [d \in Pumps |-> FALSE]
  /\ over = {}
  /\ gone = [d \in Pumps |-> FALSE]
  /\ got = [d \in Pumps |-> <<>>]

Pump(d) == Read(d) \/ InputEnds(d) \/ ExitPump(d) \/ CopyOut(d) \/ WriteReturns(d) \/ WriteFails(d)
HandlerProc == Connect \/ SetupFails \/ Fork \/ Signal
Peer(d) == Send(d) \/ Shut(d) \/ CloseSink(d) \/ Recv(d)

BridgeNext == HandlerProc \/ MainCloses \/ \E d \in Pumps : Pump(d) \/ Peer(d)
BridgeSpec == BridgeInit /\ [][BridgeNext]_bridgeVars

\* The processes run, and an end that is open reads what reaches it.
BridgeFairSpec ==
  /\ BridgeSpec
  /\ WF_bridgeVars(HandlerProc) /\ WF_bridgeVars(MainCloses)
  /\ \A d \in Pumps : WF_bridgeVars(Pump(d)) /\ WF_bridgeVars(Recv(d))

-----------------------------------------------------------------------------
(* Properties *)

Counting(n) == [k \in 1 .. n |-> k]
Delivered(d) == got[d] \o out[d]

\* The child copies exactly.  The parent does as long as its child runs; the
\* child's exit can cut one write short, whose whole buffer is then written
\* again: one stretch of the stream comes twice, and nothing is left out.
OneReplay ==
  /\ IsPrefix(Delivered("up"), Counting(sent["up"]))
  /\ \/ IsPrefix(Delivered("down"), Counting(sent["down"]))
     \/ /\ bpc["up"] = "done" /\ ~chld
        /\ \E j \in 1 .. sent["down"] : \E i \in 1 .. j :
             /\ j - i < Buf - 1
             /\ IsPrefix(Delivered("down"),
                         Counting(j) \o SubSeq(Counting(sent["down"]), i, sent["down"]))

\* A pump shuts its sink's end only when its source has stopped sending and all
\* that it sent has been passed on, whatever the pump of the other direction,
\* which has the same two sockets, has done to them before.
EndIsComplete ==
  \A d \in Pumps : eof[d] => shut[d] /\ ToSet(Delivered(d)) = 1 .. sent[d]

\* Nothing is changed, lost or reordered, but for one stretch of the server's
\* stream that comes twice when the end of the other pump cuts a write short;
\* an end is passed on only after everything that came before it.
BridgeFaithful == OneReplay /\ EndIsComplete

\* When a source stops, its sink, if it is there, gets all that was sent and
\* then the end; only when the server could not be reached there is just the
\* end, which main's copy of the connection does not hold back.
BridgeDrains ==
  \A d \in Pumps :
    shut[d] ~> \/ gone[d]
               \/ eof[d] /\ ToSet(got[d]) = 1 .. sent[d]
               \/ Closed /\ ~eof[d]
=============================================================================
