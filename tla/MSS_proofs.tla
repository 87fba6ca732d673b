------------------------------ MODULE MSS_proofs ------------------------------
(***************************************************************************)
(* Proofs about MSS, for any number of slots and clients and any listening *)
(* descriptor above 0: slots never share a client, and MSS::close returns  *)
(* although it calls itself with a descriptor for a slot.                  *)
(***************************************************************************)
EXTENDS MSS, TLAPS, SequenceTheorems, WellFoundedInduction

\* Nothing is ever closed, so the open descriptors are an interval.
Interval == DOMAIN owner = Master + 1 .. Master + accepted

\* A slot is given the first free number, and a descriptor larger than all the
\* ones before: the descriptor is larger than the number.
Above == \A s \in Slots : slots[s] # 0 => slots[s] > s

\* The loop over the slots is inside its bounds when it drops a client.
InLoop == pc = "drop" => i < MaxClients

IInv == TypeOK /\ Interval /\ Above /\ InLoop /\ SlotsSound /\ CloseReturns

LEMMA MinProperties ==
  ASSUME NEW S \in SUBSET Nat, S # {}
  PROVE  Min(S) \in S /\ \A y \in S : Min(S) <= y
<1>1. PICK x \in S : \A y \in S : ~(y < x)
  <2>1. PICK x \in S : \A y \in S : <<y, x>> \notin OpToRel(<, Nat)
    BY NatLessThanWellFounded, WFMin, Zenon
  <2>2. \A y \in S : <<y, x>> \in Nat \X Nat
    OBVIOUS
  <2> QED BY <2>1, <2>2, Zenon DEF OpToRel
<1>2. \A y \in S : x <= y
  BY <1>1
<1> QED BY <1>2 DEF Min

\* What a call of close adds to the ones begun already, and what it leaves
LEMMA OneCall ==
  ASSUME NEW x \in Nat
  PROVE  <<x>> \in Seq(Nat) /\ Len(<<x>>) = 1
<1> QED OBVIOUS

LEMMA NoCall ==
  <<>> \in Seq(Nat) /\ Len(<<>>) = 0
<1> QED OBVIOUS

\* The next descriptor is the one after the interval.
LEMMA NextDescriptor ==
  ASSUME IInv, Unused # {}
  PROVE  Min(Unused) = Master + 1 + accepted /\ Min(Unused) \in Fds
<1>1. Unused \in SUBSET Nat
  BY MSSAssumption DEF Unused, Fds
<1>2. Min(Unused) \in Unused /\ \A y \in Unused : Min(Unused) <= y
  BY <1>1, MinProperties
<1>3. accepted \in Nat /\ Master \in Nat /\ MaxFd \in Nat
  BY MSSAssumption DEF IInv, TypeOK
<1>4. Unused = {fd \in Master + 1 .. MaxFd : fd > Master + accepted}
  BY <1>3 DEF IInv, Interval, Unused, Fds
<1>5. Master + 1 + accepted \in Unused
  BY <1>2, <1>3, <1>4
<1> QED BY <1>2, <1>3, <1>4, <1>5 DEF Fds

\* A new client's descriptor is larger than the number of its slot.
LEMMA FirstFree ==
  ASSUME IInv, Unused # {}, Free # {}
  PROVE  /\ Min(Free) \in Slots /\ slots[Min(Free)] = 0
         /\ Min(Free) < Min(Unused)
<1> DEFINE k == Min(Free)
<1>1. Free \in SUBSET Nat /\ Free \subseteq Slots
  BY MSSAssumption DEF Free, Slots
<1>2. k \in Free /\ \A y \in Free : k <= y
  BY <1>1, MinProperties
<1>3. k \in Slots /\ slots[k] = 0 /\ k \in Nat
  BY <1>1, <1>2 DEF Free
<1>4. Min(Unused) = Master + 1 + accepted /\ Master \in Nat /\ accepted \in Nat
  BY NextDescriptor, MSSAssumption DEF IInv, TypeOK
<1>5. CASE k = 0
  BY <1>3, <1>4, <1>5
<1>6. CASE k > 0
  <2>1. k - 1 \in Slots /\ k - 1 \notin Free
    BY <1>2, <1>3, <1>6, MSSAssumption DEF Slots
  <2>2. slots[k - 1] # 0 /\ slots[k - 1] > k - 1 /\ slots[k - 1] \in DOMAIN owner
    BY <2>1 DEF Free, IInv, Above, SlotsSound
  <2>3. slots[k - 1] <= Master + accepted /\ slots[k - 1] \in Nat
    BY <2>2, <1>4 DEF IInv, Interval
  <2> QED BY <2>2, <2>3, <1>3, <1>4
<1> QED BY <1>3, <1>5, <1>6

LEMMA InitInv == Init => IInv
<1> SUFFICES ASSUME Init PROVE IInv
  OBVIOUS
<1>1. TypeOK
  BY MSSAssumption DEF Init, TypeOK, Slots, Fds, Clients
<1>2. Interval /\ Above /\ InLoop /\ SlotsSound /\ CloseReturns
  BY MSSAssumption DEF Init, Interval, Above, InLoop, SlotsSound, CloseReturns, Slots
<1> QED BY <1>1, <1>2 DEF IInv

LEMMA AcceptKeepsInv == ASSUME IInv, Accept PROVE IInv'
<1> DEFINE f == newSocket'
<1>1. /\ f = Master + 1 + accepted /\ f \in Fds /\ f \in Nat
      /\ Master \in Nat /\ MaxFd \in Nat /\ accepted \in Nat /\ f > 0
  BY NextDescriptor, MSSAssumption DEF Accept, IInv, TypeOK, Fds
<1>2. /\ accepted' = accepted + 1 /\ accepted' \in 0 .. joined'
      /\ DOMAIN owner' = DOMAIN owner \cup {f}
      /\ \A fd \in DOMAIN owner' : owner'[fd] \in 1 .. accepted'
  <2>1. accepted' = accepted + 1 /\ joined' = joined /\ accepted < joined /\ joined \in Nat
    BY DEF Accept, IInv, TypeOK, cltVars
  <2>2. owner' = [fd \in DOMAIN owner \cup {f} |-> IF fd = f THEN accepted' ELSE owner[fd]]
    BY DEF Accept
  <2> HIDE DEF f
  <2> QED BY <1>1, <2>1, <2>2 DEF IInv, TypeOK
<1>3. \A s \in Filled : /\ Filled = {s} /\ s \in Slots /\ slots[s] = 0 /\ s < f
  BY FirstFree DEF Filled, Accept
<1>4. \A s \in Slots : slots[s] # f
  BY <1>1 DEF IInv, SlotsSound, Interval
<1>5. TypeOK'
  <2>1. msg' \in [isNewClient : BOOLEAN, client_id : -1 .. MaxClients - 1, length : 0 .. 2]
    BY FirstFree, MSSAssumption DEF Accept, NoSlot, Slots
  <2>2. slots' \in [Slots -> {0} \cup Fds]
    BY <1>1 DEF Accept, IInv, TypeOK
  <2>3. stack' \in Seq(Nat)
    BY <1>1, OneCall, NoCall DEF Accept
  <2>4. DOMAIN owner' \subseteq Fds /\ f \in {0} \cup Fds
    BY <1>1, <1>2 DEF IInv, TypeOK
  <2> QED BY <1>2, <2>1, <2>2, <2>3, <2>4 DEF Accept, IInv, TypeOK, cltVars
<1>6. Interval'
  BY <1>1, <1>2 DEF IInv, Interval
<1>7. Above' /\ InLoop'
  BY <1>1, <1>3 DEF Accept, IInv, Above, InLoop
<1>8. SlotsSound'
  <2>1. \A s \in Slots : slots'[s] = (IF s \in Filled THEN f ELSE slots[s])
    BY DEF Accept
  <2> QED BY <1>2, <1>3, <1>4, <2>1 DEF IInv, SlotsSound
<1>9. CloseReturns'
  BY <1>1 DEF Accept, CloseReturns
<1> QED BY <1>5, <1>6, <1>7, <1>8, <1>9 DEF IInv

\* The steps of receive that change neither a slot nor the descriptors
LEMMA ReceiveKeepsInv ==
  ASSUME IInv, AcceptFails \/ SelectFails \/ Select \/ Skip \/ Read \/ Received
  PROVE  IInv'
<1>1. CASE AcceptFails \/ SelectFails \/ Select \/ Skip \/ Received
  <2>1. TypeOK'
    <3>1. CASE AcceptFails
      BY <3>1 DEF IInv, TypeOK, AcceptFails, cltVars
    <3>5. CASE SelectFails
      BY <3>5 DEF IInv, TypeOK, SelectFails, cltVars
    <3>2. CASE Select
      BY <3>2, MSSAssumption DEF IInv, TypeOK, Select, Active, cltVars
    <3>3. CASE Skip
      BY <3>3, MSSAssumption DEF IInv, TypeOK, Skip, Scanning, cltVars
    <3>4. CASE Received
      BY <3>4, MSSAssumption DEF IInv, TypeOK, Received, cltVars
    <3> QED BY <1>1, <3>1, <3>2, <3>3, <3>4, <3>5
  <2>2. (Interval /\ Above /\ InLoop /\ SlotsSound /\ CloseReturns)'
    <3>1. UNCHANGED <<slots, owner, stack, accepted>> /\ pc' # "drop"
      BY <1>1 DEF AcceptFails, SelectFails, Select, Skip, Scanning, Received
    <3> QED BY <3>1 DEF IInv, Interval, Above, InLoop, SlotsSound, CloseReturns
  <2> QED BY <2>1, <2>2 DEF IInv
<1>2. CASE Read
  <2> DEFINE c == owner[slots[i]]
  <2>1. i \in Slots /\ i \in 0 .. MaxClients - 1 /\ i + 1 \in 0 .. MaxClients
    BY <1>2, MSSAssumption DEF Read, Scanning, IInv, TypeOK, Slots
  <2>2. slots[i] \in DOMAIN owner /\ slots[i] \in Nat
    BY <1>2, <2>1, MSSAssumption DEF Read, IInv, TypeOK, SlotsSound, Fds
  <2>3. c \in Clients
    BY <2>2, MSSAssumption DEF IInv, TypeOK, Clients
  <2>4. TypeOK'
    <3>1. msg' \in [isNewClient : BOOLEAN, client_id : -1 .. MaxClients - 1, length : 0 .. 2]
      BY <1>2, <2>1, <2>3, MSSAssumption DEF Read, IInv, TypeOK
    <3>2. bytes' \in [Clients -> 0 .. 2]
      BY <1>2, <2>3 DEF Read, IInv, TypeOK
    <3>3. \/ pc' = "drop" /\ stack' = <<slots[i]>> /\ i' = i
          \/ pc' = "scan" /\ stack' = <<>> /\ i' = i + 1
      BY <1>2 DEF Read, Scanning
    <3>4. stack' \in Seq(Nat)
      BY <2>2, <3>3, OneCall, NoCall
    <3>5. i' \in 0 .. MaxClients /\ pc' \in {"scan", "drop"}
      BY <2>1, <3>3, MSSAssumption
    <3> QED BY <3>4, <3>5, <1>2, <3>1, <3>2, <3>3 DEF Read, IInv, TypeOK
  <2>5. (Interval /\ Above /\ InLoop /\ SlotsSound)'
    BY <1>2 DEF Read, Scanning, IInv, Interval, Above, InLoop, SlotsSound
  <2>6. CloseReturns'
    BY <1>2 DEF Read, Scanning, CloseReturns
  <2> QED BY <2>4, <2>5, <2>6 DEF IInv
<1> QED BY <1>1, <1>2

LEMMA DropKeepsInv == ASSUME IInv, Drop PROVE IInv'
<1>1. TypeOK'
  <2>1. slots' \in [Slots -> {0} \cup Fds]
    BY DEF Drop, IInv, TypeOK
  <2>2. i' \in 0 .. MaxClients
    BY MSSAssumption DEF Drop, IInv, TypeOK, InLoop
  <2> QED BY <2>1, <2>2 DEF Drop, IInv, TypeOK, cltVars
<1>2. (Interval /\ Above /\ InLoop)'
  BY DEF Drop, IInv, TypeOK, Interval, Above, InLoop
<1>3. (SlotsSound /\ CloseReturns)'
  BY DEF Drop, IInv, TypeOK, SlotsSound, CloseReturns
<1> QED BY <1>1, <1>2, <1>3 DEF IInv

LEMMA CloseKeepsInv == ASSUME IInv, NEW id \in Slots, Close(id) PROVE IInv'
<1>1. id \in Nat /\ stack' = <<id>>
  BY MSSAssumption DEF Slots, Close
<1>2. TypeOK'
  BY <1>1, OneCall DEF Close, IInv, TypeOK, cltVars
<1>3. (Interval /\ Above /\ InLoop /\ SlotsSound)'
  BY DEF Close, IInv, Interval, Above, InLoop, SlotsSound
<1>4. CloseReturns'
  BY <1>1 DEF CloseReturns
<1> QED BY <1>2, <1>3, <1>4 DEF IInv

LEMMA EnterKeepsInv == ASSUME IInv, Enter PROVE IInv'
<1> DEFINE n == Len(stack)
<1>1. stack \in Seq(Nat) /\ n \in Nat \ {0}
  BY DEF Enter, IInv, TypeOK
<1>2. Top \in Slots /\ slots[Top] \in Fds /\ slots[Top] > Top
  BY DEF Enter, Client_exists, IInv, TypeOK, Above
<1>3. slots[Top] \in Nat /\ Top \in Nat
  BY <1>2, MSSAssumption DEF Fds, Slots
<1>4. stack' = Append(stack, slots[Top]) /\ stack' \in Seq(Nat)
  BY <1>1, <1>3 DEF Enter
<1>5. /\ Len(stack') = n + 1
      /\ \A k \in 1 .. n : stack'[k] = stack[k]
      /\ stack'[n + 1] = slots[Top]
  BY <1>1, <1>3, <1>4
<1>6. TypeOK'
  BY <1>4 DEF Enter, IInv, TypeOK, cltVars
<1>7. (Interval /\ Above /\ InLoop /\ SlotsSound)'
  BY DEF Enter, IInv, Interval, Above, InLoop, SlotsSound
<1>8. CloseReturns'
  <2>1. \A j \in 1 .. n : stack[j] <= Top /\ stack[j] \in Nat
    BY <1>1, ElementOfSeq DEF IInv, CloseReturns, Top
  <2>2. \A j, k \in 1 .. n : j < k => stack[j] < stack[k]
    BY DEF IInv, CloseReturns
  <2>3. SUFFICES ASSUME NEW j \in 1 .. n + 1, NEW k \in 1 .. n + 1, j < k
                 PROVE  stack'[j] < stack'[k]
    BY <1>5 DEF CloseReturns
  <2> HIDE DEF n
  <2>4. j \in 1 .. n /\ stack'[j] = stack[j]
    BY <1>1, <1>5, <2>3
  <2>5. CASE k \in 1 .. n
    BY <1>5, <2>2, <2>3, <2>4, <2>5
  <2>6. CASE k = n + 1
    BY <1>2, <1>3, <1>5, <2>1, <2>4, <2>6
  <2> QED BY <1>1, <2>5, <2>6
<1> QED BY <1>6, <1>7, <1>8 DEF IInv

LEMMA ReturnKeepsInv == ASSUME IInv, Return PROVE IInv'
<1> DEFINE n == Len(stack)
<1>1. stack \in Seq(Nat) /\ n \in Nat \ {0}
  BY DEF Return, IInv, TypeOK
<1>2. /\ Left \in Seq(Nat) /\ Len(Left) = n - 1
      /\ \A k \in 1 .. n - 1 : Left[k] = stack[k]
  <2>1. \A k \in 1 .. n - 1 : stack[k] \in Nat
    BY <1>1, ElementOfSeq
  <2>2. 1 \in Int /\ n - 1 \in Int
    BY <1>1
  <2> HIDE DEF n
  <2>3. /\ SubSeq(stack, 1, n - 1) \in Seq(Nat)
        /\ Len(SubSeq(stack, 1, n - 1)) = IF 1 <= n - 1 THEN (n - 1) - 1 + 1 ELSE 0
        /\ \A k \in 1 .. (n - 1) - 1 + 1 : SubSeq(stack, 1, n - 1)[k] = stack[1 + k - 1]
    BY <2>1, <2>2, SubSeqProperties
  <2>4. Left = SubSeq(stack, 1, n - 1)
    BY DEF Left, n
  <2> QED BY <1>1, <2>3, <2>4
<1>3. stack' = Left
  BY <1>2 DEF Return
<1>4. \A s \in Slots : slots'[s] \in {0, slots[s]}
  BY DEF Return, IInv, TypeOK
<1>5. TypeOK'
  <2>1. slots' \in [Slots -> {0} \cup Fds]
    BY DEF Return, IInv, TypeOK
  <2>2. ready' \subseteq Fds
    BY DEF Return, IInv, TypeOK
  <2> QED BY <1>2, <1>3, <2>1, <2>2 DEF Return, IInv, TypeOK, cltVars
<1>6. (Interval /\ Above /\ InLoop /\ SlotsSound)'
  BY <1>4 DEF Return, IInv, Interval, Above, InLoop, SlotsSound
<1>7. CloseReturns'
  <2>1. Len(stack') = n - 1 /\ \A k \in 1 .. n - 1 : stack'[k] = stack[k]
    BY <1>2, <1>3
  <2>2. \A j, k \in 1 .. n : j < k => stack[j] < stack[k]
    BY DEF IInv, CloseReturns
  <2> HIDE DEF n
  <2> QED BY <1>1, <2>1, <2>2 DEF CloseReturns
<1> QED BY <1>5, <1>6, <1>7 DEF IInv

\* Clients change nothing the invariants speak of.
LEMMA ClientsKeepInv ==
  ASSUME IInv, Connect \/ (\E c \in 1 .. joined : Send(c) \/ End(c))
  PROVE  IInv'
<1>1. TypeOK'
  <2>1. CASE Connect
    BY <2>1, MSSAssumption DEF IInv, TypeOK, Connect, srvVars
  <2>2. ASSUME NEW c \in 1 .. joined, Send(c) \/ End(c) PROVE TypeOK'
    <3>1. c \in Clients
      BY MSSAssumption DEF IInv, TypeOK, Clients
    <3>2. CASE Send(c)
      BY <3>1, <3>2 DEF IInv, TypeOK, Send, srvVars
    <3>3. CASE End(c)
      BY <3>1, <3>3 DEF IInv, TypeOK, End, srvVars
    <3> QED BY <2>2, <3>2, <3>3
  <2> QED BY <2>1, <2>2
<1>2. (Interval /\ Above /\ InLoop /\ SlotsSound /\ CloseReturns)'
  BY DEF IInv, Interval, Above, InLoop, SlotsSound, CloseReturns, Connect, Send, End,
    srvVars
<1> QED BY <1>1, <1>2 DEF IInv

LEMMA NextKeepsInv == IInv /\ [Next]_vars => IInv'
<1> SUFFICES ASSUME IInv, [Next]_vars PROVE IInv'
  OBVIOUS
<1>1. CASE Receive
  BY <1>1, AcceptKeepsInv, ReceiveKeepsInv, DropKeepsInv DEF Receive
<1>2. CASE Closing
  BY <1>2, EnterKeepsInv, ReturnKeepsInv DEF Closing
<1>3. CASE \E id \in Slots : Close(id)
  BY <1>3, CloseKeepsInv
<1>4. CASE Connect \/ (\E c \in 1 .. joined : Send(c) \/ End(c))
  BY <1>4, ClientsKeepInv
<1>5. CASE UNCHANGED vars
  BY <1>5 DEF vars, srvVars, cltVars, IInv, TypeOK, Interval, Above, InLoop, SlotsSound,
    CloseReturns
<1> QED BY <1>1, <1>2, <1>3, <1>4, <1>5 DEF Next

\* IInv is an invariant of the server.
THEOREM Inductive == Spec => []IInv
<1> QED BY InitInv, NextKeepsInv, PTL DEF Spec

\* No client is in two slots (MSS.cpp:70-76).
THEOREM ClientsHaveOneSlot == Spec => []SlotsSound
<1>1. IInv => SlotsSound BY DEF IInv
<1> QED BY <1>1, Inductive, PTL

\* The calls of MSS::close inside each other have growing arguments, which only
\* go on while they are numbers of slots: they end (MSS.cpp:110-118).
THEOREM CloseEnds == Spec => []CloseReturns
<1>1. IInv => CloseReturns BY DEF IInv
<1> QED BY <1>1, Inductive, PTL
=============================================================================
