-------------------------------- MODULE Hose ---------------------------------
(***************************************************************************)
(* go/2zeo/hose.go: a connection in memory.  Its two halves are joined by  *)
(* a buffered channel of byte slices in each direction; a half that is     *)
(* read with less room than a slice needs keeps the rest in `buf`.         *)
(*                                                                         *)
(* A slice is memory of the writer: Write sends the slice it was given and *)
(* not a copy.  What a reader gets is what that memory holds when the read *)
(* copies it, one unit after the other.  A unit is a part of a message     *)
(* that is not divided further here; every array holds two.                *)
(*                                                                         *)
(* The users of a hose take any io.ReadWriter, so `conn` also allows for a *)
(* socket: it copies at once, and a read returns as soon as it likes.      *)
(***************************************************************************)
EXTENDS Naturals, Sequences

CONSTANT Cap  \* the capacity of a channel (100 in NewHose)

ASSUME HoseAssumption == Cap \in Nat \ {0}

VARIABLES
  conn,   \* "hose" or "socket"
  mem,    \* the two units in each array
  chan,   \* what each side has written and the other has not received
  buf,    \* half.buf; <<>> for nil
  closed, \* the sides that have closed their channel
  into,   \* the array the Read in progress of each side copies to, and the
          \* number of units it has room for, or NoRead
  count   \* how many units it has copied

hoseVars == <<conn, mem, chan, buf, closed, into, count>>

Sides == {1, 2}
Other(s) == 3 - s
NoRead == <<>>
Reading(s) == into[s] # NoRead

-----------------------------------------------------------------------------
(* half.Write and half.Close *)

Sent(a) == IF conn = "hose" THEN <<<<a, 1>>, <<a, 2>>>> ELSE mem[a]

Full_Never(s) == FALSE  \* mutant: a channel without a capacity
Full(s) == Len(chan[s]) = Cap

\* Write blocks while the channel is full.
Write(s, a) ==
  /\ s \notin closed /\ ~Full(s)
  /\ chan' = [chan EXCEPT ![s] = Append(@, Sent(a))]

\* A second Close of the same half, which no user of a hose makes, would panic.
Close(s) ==
  /\ s \notin closed
  /\ closed' = closed \cup {s}
  /\ UNCHANGED <<conn, mem, chan, buf, into, count>>

-----------------------------------------------------------------------------
(* half.Read *)

Begin(s, a, n) ==
  /\ into' = [into EXCEPT ![s] = <<a, n>>]
  /\ count' = [count EXCEPT ![s] = 0]

Room(s) == Reading(s) /\ count[s] < into[s][2]

\* Read receives a slice only when nothing is left of the last one.
Receive(s) ==
  /\ Room(s) /\ buf[s] = <<>> /\ chan[Other(s)] # <<>>
  /\ conn = "hose" => count[s] = 0
  /\ buf' = [buf EXCEPT ![s] = Head(chan[Other(s)])]
  /\ chan' = [chan EXCEPT ![Other(s)] = Tail(@)]
  /\ UNCHANGED <<conn, mem, closed, into, count>>

Unit(u) == IF conn = "hose" THEN mem[u[1]][u[2]] ELSE u

Copy(s) ==
  /\ Room(s) /\ buf[s] # <<>>
  /\ mem' = [mem EXCEPT ![into[s][1]][count[s] + 1] = Unit(Head(buf[s]))]
  /\ buf' = [buf EXCEPT ![s] = Tail(@)]
  /\ count' = [count EXCEPT ![s] = @ + 1]
  /\ UNCHANGED <<conn, chan, closed, into>>

Kept_Nil(s) == <<>>  \* mutant: what did not fit is forgotten
Kept(s) == buf[s]

\* copy() stops when either side is used up.
Returns(s) ==
  /\ Reading(s) /\ count[s] > 0
  /\ conn = "hose" => ~Room(s) \/ buf[s] = <<>>
  /\ into' = [into EXCEPT ![s] = NoRead]
  /\ buf' = [buf EXCEPT ![s] = Kept(s)]
  /\ UNCHANGED <<conn, mem, chan, closed, count>>

Drained(s) == chan[Other(s)] = <<>>

\* Read fails: the channel is closed.
Fails(s) ==
  /\ Reading(s) /\ count[s] = 0 /\ buf[s] = <<>>
  /\ Other(s) \in closed /\ Drained(s)
  /\ into' = [into EXCEPT ![s] = NoRead]
  /\ UNCHANGED <<conn, mem, chan, buf, closed, count>>
=============================================================================
