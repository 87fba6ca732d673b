--------------------------------- MODULE MSS ---------------------------------
(***************************************************************************)
(* c++/libmss: a server for many clients in one thread.  MSS::receive      *)
(* waits with select() and either accepts one client or reads every client *)
(* that has sent something, and tells its caller about it in one message.  *)
(*                                                                         *)
(* Inside the class, close(sd) is MSS::close(int client_id), not close(2): *)
(* it takes the descriptor for the number of a slot, calls itself with the *)
(* descriptor in that slot, and then empties the slot.  No call of it ever *)
(* closes a descriptor.  The calls it has begun are `stack`.               *)
(*                                                                         *)
(* Clients are numbered in the order in which they connect.  Two bytes     *)
(* stand for any number of bytes above one.                                *)
(***************************************************************************)
EXTENDS Integers, Sequences, FiniteSets, FiniteSetsExt

CONSTANTS
  MaxClients,   \* number of slots (5 in mss-server.cpp)
  Master,       \* the descriptor of the listening socket (3 in mss-server.cpp)
  MaxFd,        \* the largest descriptor the process may have
  NClients      \* how many clients there are

ASSUME MSSAssumption ==
  /\ MaxClients \in Nat \ {0} /\ Master \in Nat \ {0}
  /\ MaxFd \in Nat /\ Master < MaxFd
  /\ NClients \in Nat

VARIABLES
  slots,    \* clientSockets: a descriptor in each slot, or 0
  newSocket,\* what accept returned last, or 0
  owner,    \* the client of each open descriptor but Master
  msg,      \* the last message to the caller
  ready,    \* socketSet after select
  pc,       \* "app": in the caller, "scan": in the loop over the slots, "drop":
            \* in its branch for a client that is gone, "exit": error() was called
  i,        \* the position of that loop
  stack,    \* arguments of the calls of MSS::close that have not returned
  joined,   \* the clients 1 .. joined have connected
  accepted, \* the clients 1 .. accepted have been accepted
  bytes,    \* what each client has sent and nobody has read
  ended     \* the clients that have shut their connection

srvVars == <<slots, newSocket, owner, msg, ready, pc, i, stack, accepted>>
cltVars == <<joined, bytes, ended>>
vars == <<srvVars, cltVars>>

Clients == 1 .. NClients
Slots == 0 .. MaxClients - 1
Fds == Master + 1 .. MaxFd

-----------------------------------------------------------------------------
(* MSS::receive *)

Speaks(c) == bytes[c] > 0 \/ c \in ended
Active == {fd \in DOMAIN owner : (\E s \in Slots : slots[s] = fd) /\ Speaks(owner[fd])}
Free == {s \in Slots : slots[s] = 0}

NoSlot_Count == MaxClients  \* mutant: a bad sentinel for a full server
NoSlot == -1

\* The new descriptor is the smallest one that is not open.
Unused == Fds \ DOMAIN owner
Filled_All == Free  \* mutant: the loop over the slots does not stop
Filled == IF Free = {} THEN {} ELSE {Min(Free)}

\* select reports the listening socket: one client is accepted.
Accept ==
  /\ pc = "app" /\ stack = <<>>
  /\ accepted < joined
  /\ Unused # {}
  /\ newSocket' = Min(Unused)
  /\ accepted' = accepted + 1
  /\ owner' = [fd \in DOMAIN owner \cup {newSocket'} |->
                 IF fd = newSocket' THEN accepted' ELSE owner[fd]]
  /\ slots' = [s \in Slots |-> IF s \in Filled THEN newSocket' ELSE slots[s]]
  /\ msg' = [isNewClient |-> TRUE, length |-> 0,
             client_id |-> IF Free = {} THEN NoSlot ELSE Min(Free)]
  /\ stack' = IF Free = {} THEN <<newSocket'>> ELSE <<>>
  /\ UNCHANGED <<ready, pc, i, cltVars>>

\* accept fails, for want of a descriptor or because the connection is broken
\* already: error() ends the process.
AcceptFails ==
  /\ pc = "app" /\ stack = <<>>
  /\ accepted < joined
  /\ pc' = "exit"
  /\ UNCHANGED <<slots, newSocket, owner, msg, ready, i, stack, accepted, cltVars>>

\* select fails (when it is interrupted, say): error() ends the process.
SelectFails ==
  /\ pc = "app" /\ stack = <<>>
  /\ pc' = "exit"
  /\ UNCHANGED <<slots, newSocket, owner, msg, ready, i, stack, accepted, cltVars>>

\* select reports clients only.
Select ==
  /\ pc = "app" /\ stack = <<>>
  /\ accepted = joined
  /\ Active # {}
  /\ ready' = Active
  /\ pc' = "scan" /\ i' = 0
  /\ UNCHANGED <<slots, newSocket, owner, msg, stack, accepted, cltVars>>

Scanning == pc = "scan" /\ stack = <<>> /\ i < MaxClients

Skip ==
  /\ Scanning /\ slots[i] \notin ready
  /\ i' = i + 1
  /\ UNCHANGED <<slots, newSocket, owner, msg, ready, pc, stack, accepted, cltVars>>

Gone(n) == n <= 1

\* A client is read.  One byte counts as the end of the connection.
Read ==
  /\ Scanning /\ slots[i] \in ready
  /\ LET c == owner[slots[i]]
     IN  /\ bytes' = [bytes EXCEPT ![c] = 0]
         /\ msg' = [isNewClient |-> FALSE, client_id |-> i,
                    length |-> IF Gone(bytes[c]) THEN 0 ELSE bytes[c]]
         /\ IF Gone(bytes[c])
              THEN pc' = "drop" /\ stack' = <<slots[i]>> /\ UNCHANGED i
              ELSE i' = i + 1 /\ UNCHANGED <<pc, stack>>
  /\ UNCHANGED <<slots, newSocket, owner, ready, accepted, joined, ended>>

\* After close(sd)
Drop ==
  /\ pc = "drop" /\ stack = <<>>
  /\ pc' = "scan" /\ i' = i + 1
  /\ ready' = ready \ {slots[i]}
  /\ slots' = [slots EXCEPT ![i] = 0]
  /\ UNCHANGED <<newSocket, owner, msg, stack, accepted, cltVars>>

Received ==
  /\ pc = "scan" /\ i = MaxClients
  /\ pc' = "app" /\ i' = 0 /\ ready' = {}
  /\ UNCHANGED <<slots, newSocket, owner, msg, stack, accepted, cltVars>>

-----------------------------------------------------------------------------
(* MSS::close *)

Top == stack[Len(stack)]
Client_exists(id) == id \in Slots /\ slots[id] # 0

\* The caller ends a connection.
Close(id) ==
  /\ pc = "app" /\ stack = <<>>
  /\ stack' = <<id>>
  /\ UNCHANGED <<slots, newSocket, owner, msg, ready, pc, i, accepted, cltVars>>

\* A call for a client that exists calls itself with its descriptor ...
Enter ==
  /\ stack # <<>> /\ Client_exists(Top)
  /\ stack' = Append(stack, slots[Top])
  /\ UNCHANGED <<slots, newSocket, owner, msg, ready, pc, i, accepted, cltVars>>

Left == SubSeq(stack, 1, Len(stack) - 1)

\* ... and any other call returns; its caller, if that was close, goes on.
Return ==
  /\ stack # <<>> /\ ~Client_exists(Top)
  /\ LET id == Left[Len(Left)]
     IN  IF Left = <<>>
           THEN stack' = <<>> /\ UNCHANGED <<slots, ready>>
           ELSE /\ slots' = [slots EXCEPT ![id] = 0]
                /\ ready' = ready \ {Top}
                /\ stack' = Left
  /\ UNCHANGED <<newSocket, owner, msg, pc, i, accepted, cltVars>>
-----------------------------------------------------------------------------
(* Clients *)

\* Clients act between two calls of receive: what they do during one has the
\* same effect as before it, for those select reported, or after it.  A client
\* that was accepted and has no slot is never read; what it does is left out.
Present(c) == \E s \in Slots : slots[s] # 0 /\ owner[slots[s]] = c
Acts(c) == pc = "app" /\ stack = <<>> /\ (c > accepted \/ Present(c)) /\ c \notin ended

Connect ==
  /\ pc = "app" /\ stack = <<>>
  /\ joined < NClients
  /\ joined' = joined + 1
  /\ UNCHANGED <<srvVars, bytes, ended>>

Send(c) ==
  /\ Acts(c) /\ bytes[c] < 2
  /\ bytes' = [bytes EXCEPT ![c] = @ + 1]
  /\ UNCHANGED <<srvVars, joined, ended>>

End(c) ==
  /\ Acts(c)
  /\ ended' = ended \cup {c}
  /\ UNCHANGED <<srvVars, joined, bytes>>

-----------------------------------------------------------------------------
Init ==
  /\ slots = [s \in Slots |-> 0]
  /\ newSocket = 0 /\ owner = [fd \in {} |-> 0]
  /\ msg = [isNewClient |-> FALSE, client_id |-> 0, length |-> 0]
  /\ ready = {} /\ pc = "app" /\ i = 0 /\ stack = <<>>
  /\ joined = 0 /\ accepted = 0
  /\ bytes = [c \in Clients |-> 0] /\ ended = {}

Receive ==
  Accept \/ AcceptFails \/ SelectFails \/ Select \/ Skip \/ Read \/ Drop \/ Received
Closing == Enter \/ Return

Next ==
  \/ Receive \/ Closing \/ Connect
  \/ \E id \in Slots : Close(id)
  \/ \E c \in 1 .. joined : Send(c) \/ End(c)

Spec == Init /\ [][Next]_vars

-----------------------------------------------------------------------------
(* Properties *)

TypeOK ==
  /\ slots \in [Slots -> {0} \cup Fds]
  /\ newSocket \in {0} \cup Fds
  /\ DOMAIN owner \subseteq Fds /\ \A fd \in DOMAIN owner : owner[fd] \in 1 .. accepted
  /\ msg \in [isNewClient : BOOLEAN, client_id : -1 .. MaxClients - 1, length : 0 .. 2]
  /\ ready \subseteq Fds
  /\ pc \in {"app", "scan", "drop", "exit"}
  /\ i \in 0 .. MaxClients
  /\ stack \in Seq(Nat)
  /\ joined \in 0 .. NClients /\ accepted \in 0 .. joined
  /\ bytes \in [Clients -> 0 .. 2] /\ ended \subseteq Clients

\* No two slots hold the same client, whatever slots were emptied and filled
\* again, and every slot holds an open descriptor.
SlotsSound ==
  /\ \A s \in Slots : slots[s] \in {0} \cup DOMAIN owner
  /\ \A s, t \in Slots : slots[s] = slots[t] /\ s # t => slots[s] = 0

\* MSS::close calls itself with a descriptor in place of a slot.  Its arguments
\* always grow, so that it returns and no call meets a slot already being
\* emptied: the descriptor in a slot is larger than the slot's number.
CloseReturns ==
  \A j, k \in 1 .. Len(stack) : j < k => stack[j] < stack[k]

\* MSS.cpp:78 says of a client for which there is no slot: "close its socket".
RefusedIsClosed ==
  pc = "app" /\ stack = <<>> /\ msg.client_id = -1 => newSocket \notin DOMAIN owner
=============================================================================
