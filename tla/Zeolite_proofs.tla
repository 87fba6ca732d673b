---------------------------- MODULE Zeolite_proofs ----------------------------
(***************************************************************************)
(* For every capacity of a hose and all numbers of messages: a session is  *)
(* with the peer whose key was checked (SessionsAreAuthentic), and reads   *)
(* what the peer has sent, in order and once (SessionsKeepOrder).          *)
(***************************************************************************)
EXTENDS Zeolite, SequenceTheorems, TLAPS

Places == {"hello", "readHello", "check", "header", "readHeader", "up", "ended", "failed"}
Addresses == {<<k, s>> : k \in {"hello", "rbuf", "header", "p"}, s \in Sides}
               \cup UNION {{<<"msg", s, k>> : k \in 1 .. MaxMsgs[s]} : s \in Sides}
Reads == {<<a, n>> : a \in Addresses, n \in 1 .. 2}
Data == {<<k, s>> : k \in {"id", "eph", "header1", "header2", "zero"}, s \in 0 .. 2}
          \cup {<<"data", s, k>> : s \in Sides, k \in Nat}

\* What is in a channel: references to memory, or what it held.
Unsent == IF conn = "hose" THEN Addresses \X (1 .. 2) ELSE Data

TypeOK ==
  /\ mem \in [Addresses -> [1 .. 2 -> Data]]
  /\ chan \in [Sides -> Seq([1 .. 2 -> Unsent])]
  /\ buf \in [Sides -> Seq(Unsent)]
  /\ count \in [Sides -> 0 .. 2]
  /\ pc \in [Sides -> Places]
  /\ into \in [Sides -> {NoRead} \cup Reads]
  /\ wrote \in [Sides -> Seq(Data)]

\* A read copies only to the array of its place, and only in its place.
Aims(s) ==
  /\ pc[s] \in {"hello", "check", "header", "failed", "ended"} => into[s] = NoRead
  /\ pc[s] = "readHello" => into[s] = <<<<"rbuf", s>>, 2>>
  /\ pc[s] = "readHeader" => into[s] = <<<<"header", s>>, 2>>
  /\ pc[s] = "up" => into[s] = NoRead \/ \E n \in 1 .. 2 : into[s] = <<<<"p", s>>, n>>

HelloKept == \A s \in Sides : mem[<<"hello", s>>] = Hello(s)

SentHello(s) == IF conn = "hose" THEN <<<<<<"hello", s>>, 1>>, <<<<"hello", s>>, 2>>>> ELSE Hello(s)
HalfHello(s) == <<Hello(s)[1], Zero[2]>>

\* The first message of s is the first thing in its channel, or will be if it can
\* be sent.
Coming(s) ==
  IF chan[s] = <<>> THEN pc[s] \in {"hello", "failed"} ELSE Head(chan[s]) = SentHello(s)

\* The first thing that a side reads is the first message of the other, of which
\* it may be given the half.
FirstMessage(s) ==
  /\ pc[s] = "hello" => count[s] = 0 /\ buf[s] = <<>>
  /\ pc[s] \in {"hello", "readHello"} =>
       \/ count[s] = 0 /\ mem[<<"rbuf", s>>] = Zero /\ buf[s] = <<>> /\ Coming(Other(s))
       \/ count[s] = 0 /\ mem[<<"rbuf", s>>] = Zero /\ buf[s] = SentHello(Other(s))
       \/ count[s] = 1 /\ mem[<<"rbuf", s>>] = HalfHello(Other(s)) /\ buf[s] = Tail(SentHello(Other(s)))
       \/ count[s] = 2 /\ mem[<<"rbuf", s>>] = Hello(Other(s))
  /\ pc[s] = "check" => mem[<<"rbuf", s>>] \in {Hello(Other(s)), HalfHello(Other(s))}

\* What was checked stays as it was.
Checked(s) ==
  pc[s] \in {"header", "readHeader", "up", "ended"} =>
    /\ s \in trusts /\ proto[s] = proto[Other(s)]
    /\ mem[<<"rbuf", s>>] = Hello(Other(s))

Sound(s) == Aims(s) /\ FirstMessage(s) /\ Checked(s)

IInv == TypeOK /\ HelloKept /\ \A s \in Sides : Sound(s)

-----------------------------------------------------------------------------
LEMMA OtherSide == \A s \in Sides : Other(s) \in Sides /\ Other(s) # s /\ Other(Other(s)) = s
BY DEF Sides, Other

LEMMA Names ==
  \A s \in Sides : /\ \A k \in {"hello", "rbuf", "header", "p"} : <<k, s>> \in Addresses
                   /\ \A k \in 1 .. MaxMsgs[s] : <<"msg", s, k>> \in Addresses
BY DEF Addresses

LEMMA ReadTypes ==
  ASSUME NEW s \in Sides
  PROVE  /\ <<<<"rbuf", s>>, 2>> \in Reads /\ <<<<"header", s>>, 2>> \in Reads
         /\ \A n \in 1 .. 2 : <<<<"p", s>>, n>> \in Reads
<1>1. \A a \in Addresses, n \in 1 .. 2 : <<a, n>> \in Reads
  BY DEF Reads
<1>2. <<"rbuf", s>> \in Addresses /\ <<"header", s>> \in Addresses /\ <<"p", s>> \in Addresses
  BY Names
<1>3. 2 \in 1 .. 2
  OBVIOUS
<1>. QED
  BY <1>1, <1>2, <1>3, Zenon

LEMMA DataTypes ==
  /\ Zero \in [1 .. 2 -> Data]
  /\ \A s \in Sides : {Hello(s), Header(s), HalfHello(s)} \subseteq [1 .. 2 -> Data]
  /\ \A s \in Sides, k \in Nat \ {0} : Msg(s, k) \in [1 .. 2 -> Data]
<1>1. \A a, b \in Data : <<a, b>> \in [1 .. 2 -> Data]
  OBVIOUS
<1>2. <<"zero", 0>> \in Data
  BY DEF Data
<1>3. \A s \in Sides : {<<"id", s>>, <<"eph", s>>, <<"header1", s>>, <<"header2", s>>} \subseteq Data
  BY DEF Data, Sides
<1>4. \A s \in Sides, k \in Nat \ {0} : {<<"data", s, 2 * k - 1>>, <<"data", s, 2 * k>>} \subseteq Data
  BY DEF Data
<1>. QED
  BY <1>1, <1>2, <1>3, <1>4 DEF Zero, Hello, Header, HalfHello, Msg

LEMMA InitMemory ==
  ASSUME Init
  PROVE  /\ mem = [a \in Addresses |-> mem[a]]
         /\ \A s \in Sides :
              /\ mem[<<"hello", s>>] = Hello(s) /\ mem[<<"header", s>>] = Header(s)
              /\ mem[<<"rbuf", s>>] = Zero /\ mem[<<"p", s>>] = Zero
              /\ \A k \in 1 .. MaxMsgs[s] : mem[<<"msg", s, k>>] = Msg(s, k)
<1>1. mem = [a \in Addresses |->
               IF a[1] = "hello" THEN Hello(a[2])
               ELSE IF a[1] = "header" THEN Header(a[2])
               ELSE IF a[1] = "msg" THEN Msg(a[2], a[3]) ELSE Zero]
  BY DEF Init, Addresses
<1>2. ASSUME NEW s \in Sides
      PROVE  /\ mem[<<"hello", s>>] = Hello(s) /\ mem[<<"header", s>>] = Header(s)
             /\ mem[<<"rbuf", s>>] = Zero /\ mem[<<"p", s>>] = Zero
             /\ \A k \in 1 .. MaxMsgs[s] : mem[<<"msg", s, k>>] = Msg(s, k)
  BY <1>1, Names
<1>. QED
  BY <1>1, <1>2

LEMMA InitOK == Init => IInv
<1> SUFFICES ASSUME Init PROVE IInv
  OBVIOUS
<1>1. mem \in [Addresses -> [1 .. 2 -> Data]] /\ HelloKept /\ \A s \in Sides : mem[<<"rbuf", s>>] = Zero
  <2>2. ASSUME NEW s \in Sides
        PROVE  /\ mem[<<"hello", s>>] = Hello(s) /\ mem[<<"header", s>>] = Header(s)
               /\ mem[<<"rbuf", s>>] = Zero /\ mem[<<"p", s>>] = Zero
               /\ \A k \in 1 .. MaxMsgs[s] : mem[<<"msg", s, k>>] = Msg(s, k)
    BY InitMemory
  <2>1. mem = [a \in Addresses |-> mem[a]]
    BY InitMemory
  <2>3. ASSUME NEW a \in Addresses PROVE mem[a] \in [1 .. 2 -> Data]
    <3>1. CASE \E s \in Sides : a \in {<<"hello", s>>, <<"rbuf", s>>, <<"header", s>>, <<"p", s>>}
      BY <3>1, <2>2, DataTypes
    <3>2. CASE \E s \in Sides : \E k \in 1 .. MaxMsgs[s] : a = <<"msg", s, k>>
      <4>1. PICK s \in Sides : \E k \in 1 .. MaxMsgs[s] : a = <<"msg", s, k>>
        BY <3>2
      <4>2. PICK k \in 1 .. MaxMsgs[s] : a = <<"msg", s, k>>
        BY <4>1
      <4>3. k \in Nat \ {0}
        BY ZeoliteAssumption
      <4>4. mem[<<"msg", s, k>>] = Msg(s, k)
        BY <2>2
      <4>5. Msg(s, k) \in [1 .. 2 -> Data]
        BY <4>3, DataTypes
      <4>. QED
        BY <4>2, <4>4, <4>5
    <3>. QED
      BY <3>1, <3>2 DEF Addresses
  <2>. QED
    BY <2>1, <2>2, <2>3 DEF HelloKept
<1>2. TypeOK
  BY <1>1 DEF Init, TypeOK, Places
<1>3. \A s \in Sides : Sound(s)
  BY <1>1, OtherSide DEF Init, Sound, Aims, FirstMessage, Coming, Checked
<1>. QED
  BY <1>1, <1>2, <1>3 DEF IInv

-----------------------------------------------------------------------------
(* NewSession *)

LEMMA PairIsSequence == ASSUME NEW S, NEW q \in [1 .. 2 -> S] PROVE q \in Seq(S)
BY SeqDef

LEMMA Halves == \A n \in Nat : n \div 2 + 1 \in Nat \ {0}
OBVIOUS

\* Who comes first in a queue remains first.
LEMMA AppendKeepsHead ==
  ASSUME NEW S, NEW q \in Seq(S), NEW e \in S
  PROVE  /\ Append(q, e) \in Seq(S) /\ Append(q, e) # <<>>
         /\ Head(Append(q, e)) = IF q = <<>> THEN e ELSE Head(q)
<1>1. /\ Append(q, e) \in Seq(S) /\ Append(q, e) # <<>> /\ Len(Append(q, e)) = Len(q) + 1
      /\ \A i \in 1 .. Len(q) : Append(q, e)[i] = q[i]
      /\ Append(q, e)[Len(q) + 1] = e
  BY AppendProperties
<1>2. Head(Append(q, e)) = Append(q, e)[1]
  BY <1>1
<1>3. CASE q = <<>>
  BY <1>1, <1>2, <1>3
<1>4. CASE q # <<>>
  <2>1. Len(q) \in Nat \ {0} /\ Head(q) = q[1]
    BY <1>4
  <2>. QED
    BY <1>1, <1>2, <1>4, <2>1
<1>. QED
  BY <1>1, <1>3, <1>4

LEMMA SentType ==
  ASSUME IInv, NEW a \in Addresses
  PROVE  Sent(a) \in [1 .. 2 -> Unsent]
<1>1. CASE conn = "hose"
  <2>1. <<a, 1>> \in Unsent /\ <<a, 2>> \in Unsent
    BY <1>1 DEF Unsent
  <2>. QED
    BY <1>1, <2>1 DEF Sent
<1>2. CASE conn # "hose"
  BY <1>2 DEF Sent, Unsent, IInv, TypeOK
<1>. QED
  BY <1>1, <1>2

\* What a side writes comes behind what it has written: the first message of a
\* channel remains the first.
LEMMA WriteKeeps ==
  ASSUME IInv, NEW s \in Sides, NEW a \in Addresses, Write(s, a),
         UNCHANGED <<conn, mem, buf>>, pc[s] # "failed", pc[s] = "hello" => a = <<"hello", s>>,
         \A r \in Sides \ {s} : pc'[r] = pc[r]
  PROVE  /\ chan' \in [Sides -> Seq([1 .. 2 -> Unsent])] /\ Unsent' = Unsent
         /\ \A r \in Sides : SentHello(r)' = SentHello(r)
         /\ \A r \in Sides : Coming(r) => Coming(r)'
<1>1. Sent(a) \in [1 .. 2 -> Unsent]
  BY SentType
<1>2. chan' = [chan EXCEPT ![s] = Append(chan[s], Sent(a))]
  BY DEF Write
<1>3. chan \in [Sides -> Seq([1 .. 2 -> Unsent])] /\ chan[s] \in Seq([1 .. 2 -> Unsent])
  BY DEF IInv, TypeOK
<1>4. /\ Append(chan[s], Sent(a)) \in Seq([1 .. 2 -> Unsent]) /\ Append(chan[s], Sent(a)) # <<>>
      /\ Head(Append(chan[s], Sent(a))) = IF chan[s] = <<>> THEN Sent(a) ELSE Head(chan[s])
  BY <1>1, <1>3, AppendKeepsHead
<1>5. Unsent' = Unsent /\ \A r \in Sides : SentHello(r)' = SentHello(r)
  BY DEF Unsent, SentHello
<1>6. a = <<"hello", s>> => Sent(a) = SentHello(s)
  BY DEF Sent, SentHello, IInv, HelloKept
<1>7. chan' \in [Sides -> Seq([1 .. 2 -> Unsent])]
  BY <1>2, <1>3, <1>4, Zenon
<1>8. /\ chan'[s] = Append(chan[s], Sent(a))
      /\ \A r \in Sides \ {s} : chan'[r] = chan[r]
  BY <1>2, <1>3
<1>9. ASSUME NEW r \in Sides, Coming(r) PROVE Coming(r)'
  <2>1. CASE r = s
    BY <2>1, <1>4, <1>5, <1>6, <1>8, <1>9 DEF Coming
  <2>2. CASE r # s
    BY <2>2, <1>5, <1>8, <1>9 DEF Coming
  <2>. QED
    BY <2>1, <2>2
<1>. QED
  BY <1>5, <1>7, <1>9

\* A step of one side leaves the other sound.
LEMMA OtherStaysSound ==
  ASSUME IInv, NEW s \in Sides, UNCHANGED <<conn, proto, trusts>>,
         LET r == Other(s)
         IN  /\ pc'[r] = pc[r] /\ into'[r] = into[r] /\ count'[r] = count[r] /\ buf'[r] = buf[r]
             /\ mem'[<<"rbuf", r>>] = mem[<<"rbuf", r>>],
         Coming(s) => Coming(s)'
  PROVE  Sound(Other(s))'
<1>1. Other(s) \in Sides /\ Other(Other(s)) = s /\ Sound(Other(s))
  BY OtherSide DEF IInv
<1>2. SentHello(s)' = SentHello(s)
  BY DEF SentHello
<1>3. Aims(Other(s))' /\ Checked(Other(s))'
  BY <1>1 DEF Sound, Aims, Checked
<1>4. FirstMessage(Other(s))'
  BY <1>1, <1>2 DEF Sound, FirstMessage
<1>. QED
  BY <1>3, <1>4 DEF Sound

LEMMA SendHelloKeeps ==
  ASSUME IInv, NEW s \in Sides, SendHello(s)
  PROVE  IInv'
<1>1. /\ pc[s] = "hello" /\ Write(s, <<"hello", s>>) /\ UNCHANGED <<conn, mem, buf, trusts, proto, wrote>>
      /\ pc' = [pc EXCEPT ![s] = "readHello"]
      /\ into' = [into EXCEPT ![s] = <<<<"rbuf", s>>, 2>>] /\ count' = [count EXCEPT ![s] = 0]
  BY DEF SendHello, Begin, GoTo, histVars
<1>2. \A r \in Sides \ {s} : pc'[r] = pc[r] /\ count'[r] = count[r] /\ into'[r] = into[r]
  BY <1>1 DEF IInv, TypeOK
<1>3. /\ chan' \in [Sides -> Seq([1 .. 2 -> Unsent])] /\ Unsent' = Unsent
      /\ \A r \in Sides : SentHello(r)' = SentHello(r)
      /\ \A r \in Sides : Coming(r) => Coming(r)'
  BY <1>1, <1>2, Names, WriteKeeps
<1>4. TypeOK'
  <2>1. /\ mem' \in [Addresses -> [1 .. 2 -> Data]] /\ buf' \in [Sides -> Seq(Unsent)]
        /\ count' \in [Sides -> 0 .. 2] /\ pc' \in [Sides -> Places] /\ wrote' \in [Sides -> Seq(Data)]
    BY <1>1 DEF IInv, TypeOK, Places
  <2>2. into' \in [Sides -> {NoRead} \cup Reads]
    BY <1>1, ReadTypes, Zenon DEF IInv, TypeOK
  <2>. QED
    BY <1>3, <2>1, <2>2, Zenon DEF TypeOK
<1>5. HelloKept'
  BY <1>1 DEF IInv, HelloKept
<1>6. Sound(s)'
  <2>1. pc'[s] = "readHello" /\ count[s] = 0 /\ count'[s] = 0 /\ into'[s] = <<<<"rbuf", s>>, 2>>
    BY <1>1 DEF IInv, Sound, FirstMessage, TypeOK
  <2>2. FirstMessage(s) /\ Other(s) \in Sides
    BY OtherSide DEF IInv, Sound
  <2>. QED
    BY <1>1, <1>3, <2>1, <2>2 DEF Sound, Aims, FirstMessage, Checked
<1>7. Sound(Other(s))'
  BY <1>1, <1>2, <1>3, OtherSide, OtherStaysSound
<1>. QED
  BY <1>4, <1>5, <1>6, <1>7 DEF IInv, Sides, Other

\* A step of one side that neither writes nor copies.
LEMMA LocalStep ==
  ASSUME IInv, NEW s \in Sides, UNCHANGED <<conn, proto, trusts, wrote, mem, chan>>, pc[s] \notin {"hello", "failed"},
         NEW l \in Places \ {"hello"}, pc' = [pc EXCEPT ![s] = l],
         NEW t \in {NoRead} \cup Reads, into' = [into EXCEPT ![s] = t],
         NEW b \in Seq(Unsent), buf' = [buf EXCEPT ![s] = b],
         NEW n \in 0 .. 2, count' = [count EXCEPT ![s] = n],
         Aims(s)', FirstMessage(s)', Checked(s)'
  PROVE  IInv'
<1>1. TypeOK'
  <2>1. Unsent' = Unsent
    BY DEF Unsent
  <2>2. into' \in [Sides -> {NoRead} \cup Reads]
    BY Zenon DEF IInv, TypeOK
  <2>3. buf' \in [Sides -> Seq(Unsent)] /\ pc' \in [Sides -> Places]
    BY Zenon DEF IInv, TypeOK
  <2>4. count' \in [Sides -> 0 .. 2]
    BY DEF IInv, TypeOK
  <2>. QED
    BY <2>1, <2>2, <2>3, <2>4, Zenon DEF IInv, TypeOK
<1>2. HelloKept'
  BY DEF IInv, HelloKept
<1>3. \A r \in Sides \ {s} : pc'[r] = pc[r] /\ count'[r] = count[r] /\ into'[r] = into[r] /\ buf'[r] = buf[r]
  BY DEF IInv, TypeOK
<1>4. Coming(s) => Coming(s)'
  BY DEF Coming, SentHello
<1>5. Sound(Other(s))'
  BY <1>3, <1>4, OtherSide, OtherStaysSound
<1>. QED
  BY <1>1, <1>2, <1>5 DEF IInv, Sound, Sides, Other

\* The values before the step, for what a step leaves alone.
LEMMA Before ==
  ASSUME IInv, NEW s \in Sides
  PROVE  /\ pc[s] \in Places /\ into[s] \in {NoRead} \cup Reads /\ buf[s] \in Seq(Unsent) /\ count[s] \in 0 .. 2
         /\ pc = [pc EXCEPT ![s] = pc[s]] /\ into = [into EXCEPT ![s] = into[s]]
         /\ buf = [buf EXCEPT ![s] = buf[s]] /\ count = [count EXCEPT ![s] = count[s]]
         /\ Sound(s) /\ NoRead \in {NoRead} \cup Reads
<1>1. pc[s] \in Places /\ pc = [pc EXCEPT ![s] = pc[s]]
  BY DEF IInv, TypeOK
<1>2. into[s] \in {NoRead} \cup Reads /\ into = [into EXCEPT ![s] = into[s]]
  BY DEF IInv, TypeOK
<1>3. buf[s] \in Seq(Unsent) /\ buf = [buf EXCEPT ![s] = buf[s]]
  BY DEF IInv, TypeOK
<1>4. count[s] \in 0 .. 2 /\ count = [count EXCEPT ![s] = count[s]]
  BY DEF IInv, TypeOK
<1>. QED
  BY <1>1, <1>2, <1>3, <1>4, Zenon DEF IInv

\* A read that returns, or fails.
LEMMA ReadEnds ==
  ASSUME IInv, NEW s \in Sides, Returns(s) \/ Fails(s), NEW l \in Places \ {"hello", "readHello", "readHeader"}, GoTo(s, l),
         UNCHANGED <<proto, trusts, wrote>>
  PROVE  /\ pc[s] # "hello" /\ UNCHANGED <<conn, mem, chan>>
         /\ pc' = [pc EXCEPT ![s] = l] /\ pc'[s] = l
         /\ into' = [into EXCEPT ![s] = NoRead] /\ into'[s] = NoRead
         /\ buf' = [buf EXCEPT ![s] = buf[s]] /\ count' = [count EXCEPT ![s] = count[s]]
         /\ FirstMessage(s)' /\ Checked(s)' => IInv'
<1>1. /\ pc' = [pc EXCEPT ![s] = l] /\ into' = [into EXCEPT ![s] = NoRead]
      /\ buf' = [buf EXCEPT ![s] = buf[s]] /\ count' = [count EXCEPT ![s] = count[s]]
      /\ into[s] # NoRead /\ UNCHANGED <<conn, mem, chan>>
  BY Before DEF Returns, Fails, GoTo, Kept, Reading
<1>2. pc[s] \notin {"hello", "failed"}
  BY <1>1 DEF IInv, Sound, Aims
<1>3. pc'[s] = l /\ into'[s] = NoRead
  BY <1>1 DEF IInv, TypeOK
<1>4. Aims(s)'
  BY <1>3 DEF Aims
<1>5. ASSUME FirstMessage(s)', Checked(s)' PROVE IInv'
  <2>1. buf[s] \in Seq(Unsent) /\ count[s] \in 0 .. 2 /\ NoRead \in {NoRead} \cup Reads
    BY Before
  <2>2. l \in Places \ {"hello"}
    OBVIOUS
  <2>. QED
    BY <1>1, <1>2, <1>4, <1>5, <2>1, <2>2, LocalStep
<1>. QED
  BY <1>1, <1>2, <1>3, <1>5

LEMMA ReadHelloKeeps ==
  ASSUME IInv, NEW s \in Sides, ReadHello(s)
  PROVE  IInv'
<1>1. Returns(s) /\ pc[s] = "readHello" /\ GoTo(s, "check") /\ UNCHANGED <<proto, trusts, wrote>> /\ count[s] > 0
  BY DEF ReadHello, histVars, Returns
<1>2. pc'[s] = "check" /\ mem' = mem /\ (FirstMessage(s)' /\ Checked(s)' => IInv')
  BY <1>1, ReadEnds DEF Places
<1>3. mem[<<"rbuf", s>>] \in {Hello(Other(s)), HalfHello(Other(s))}
  BY <1>1 DEF IInv, Sound, FirstMessage
<1>. QED
  BY <1>2, <1>3 DEF FirstMessage, Checked

LEMMA ReadFailsKeeps ==
  ASSUME IInv, NEW s \in Sides, ReadFails(s) \/ ReadEnd(s)
  PROVE  IInv'
<1>1. CASE ReadFails(s)
  <2>1. pc'[s] = "failed" /\ (FirstMessage(s)' /\ Checked(s)' => IInv')
    BY <1>1, ReadEnds DEF ReadFails, histVars, Places
  <2>. QED
    BY <2>1 DEF FirstMessage, Checked
<1>2. CASE ReadEnd(s)
  <2>1. /\ pc[s] = "up" /\ pc'[s] = "ended" /\ UNCHANGED <<mem, proto, trusts>>
        /\ FirstMessage(s)' /\ Checked(s)' => IInv'
    BY <1>2, ReadEnds DEF ReadEnd, histVars, Places
  <2>. QED
    BY <2>1 DEF IInv, Sound, FirstMessage, Checked
<1>. QED
  BY <1>1, <1>2

LEMMA ReadHeaderKeeps ==
  ASSUME IInv, NEW s \in Sides, ReadHeader(s) \/ ReadData(s)
  PROVE  IInv'
<1>1. pc[s] \in {"readHeader", "up"} /\ Returns(s) /\ GoTo(s, "up") /\ UNCHANGED <<proto, trusts, wrote>>
  BY DEF ReadHeader, ReadData, histVars, GoTo, IInv, TypeOK
<1>2. /\ pc'[s] = "up" /\ UNCHANGED mem
      /\ FirstMessage(s)' /\ Checked(s)' => IInv'
  BY <1>1, ReadEnds DEF Places
<1>. QED
  BY <1>1, <1>2 DEF IInv, Sound, FirstMessage, Checked

\* What passes the check is the whole first message: of half of one, the
\* signature does not open.
LEMMA CheckKeeps ==
  ASSUME IInv, NEW s \in Sides, Check(s)
  PROVE  IInv'
<1>1. /\ pc[s] = "check" /\ UNCHANGED <<conn, mem, chan, buf, into, count, proto, trusts, wrote>>
      /\ FirstMessage(s) /\ Aims(s)
  BY DEF Check, hoseVars, histVars, IInv, Sound
<1>2. PICK l \in {"header", "failed"} :
        /\ pc' = [pc EXCEPT ![s] = l]
        /\ l = "header" => /\ proto[s] = proto[Other(s)] /\ s \in trusts
                          /\ SignOpen(mem[<<"rbuf", s>>])
  BY DEF Check, GoTo
<1>3. ~SignOpen(HalfHello(Other(s)))
  BY DEF SignOpen, HalfHello, Zero, Hello
<1>4. l = "header" => mem[<<"rbuf", s>>] = Hello(Other(s))
  BY <1>1, <1>2, <1>3 DEF FirstMessage
<1>5. pc'[s] = l
  BY <1>2 DEF IInv, TypeOK
<1>6. Aims(s)' /\ FirstMessage(s)' /\ Checked(s)'
  BY <1>1, <1>2, <1>4, <1>5 DEF Aims, FirstMessage, Checked
<1>7. l \in Places \ {"hello"}
  BY DEF Places
<1>. QED
  BY <1>1, <1>2, <1>6, <1>7, Before, LocalStep

LEMMA SendFailsKeeps ==
  ASSUME IInv, NEW s \in Sides, SendFails(s)
  PROVE  IInv'
<1>1. /\ pc[s] \in {"hello", "header"} /\ pc' = [pc EXCEPT ![s] = "failed"]
      /\ UNCHANGED <<conn, mem, chan, buf, into, count, proto, trusts, wrote>>
  BY DEF SendFails, GoTo, hoseVars, histVars
<1>2. pc'[s] = "failed" /\ \A r \in Sides \ {s} : pc'[r] = pc[r]
  BY <1>1 DEF IInv, TypeOK
<1>3. TypeOK' /\ HelloKept'
  BY <1>1 DEF IInv, TypeOK, Unsent, HelloKept, Places
<1>4. \A r \in Sides : (Coming(r) => Coming(r)') /\ SentHello(r)' = SentHello(r)
  BY <1>1, <1>2 DEF Coming, SentHello
<1>5. ASSUME NEW r \in Sides PROVE Sound(r)'
  <2>1. Sound(r) /\ Other(r) \in Sides
    BY OtherSide DEF IInv
  <2>2. CASE r = s
    BY <1>1, <1>2, <2>1, <2>2 DEF Sound, Aims, FirstMessage, Checked
  <2>3. CASE r # s
    BY <1>1, <1>2, <1>4, <2>1, <2>3 DEF Sound, Aims, FirstMessage, Checked
  <2>. QED
    BY <2>2, <2>3
<1>. QED
  BY <1>3, <1>5 DEF IInv

LEMMA BeginDataKeeps ==
  ASSUME IInv, NEW s \in Sides, BeginData(s)
  PROVE  IInv'
<1>1. PICK n \in 1 .. 2 : into' = [into EXCEPT ![s] = <<<<"p", s>>, n>>] /\ count' = [count EXCEPT ![s] = 0]
  BY DEF BeginData, Begin
<1>2. pc[s] = "up" /\ UNCHANGED <<conn, mem, chan, buf, pc, proto, trusts, wrote>>
  BY DEF BeginData, histVars
<1>3. into'[s] = <<<<"p", s>>, n>> /\ pc'[s] = "up"
  BY <1>1, <1>2 DEF IInv, TypeOK
<1>4. Aims(s)' /\ FirstMessage(s)' /\ Checked(s)'
  BY <1>2, <1>3 DEF IInv, Sound, Aims, FirstMessage, Checked
<1>5. <<<<"p", s>>, n>> \in {NoRead} \cup Reads
  BY ReadTypes, Zenon
<1>6. "up" \in Places \ {"hello"} /\ 0 \in 0 .. 2
  BY DEF Places
<1>. QED
  BY <1>1, <1>2, <1>4, <1>5, <1>6, Before, LocalStep

LEMMA FrameKeeps ==
  ASSUME IInv, UNCHANGED <<conn, mem, chan, buf, into, count, pc, proto, trusts, wrote>>
  PROVE  IInv'
<1>1. TypeOK' /\ HelloKept'
  BY DEF IInv, TypeOK, Unsent, HelloKept
<1>2. \A s \in Sides : Coming(s)' = Coming(s) /\ SentHello(s)' = SentHello(s)
  BY DEF Coming, SentHello
<1>3. ASSUME NEW s \in Sides PROVE Sound(s)'
  <2>1. Sound(s) /\ Other(s) \in Sides
    BY OtherSide DEF IInv
  <2>. QED
    BY <1>2, <2>1 DEF Sound, Aims, FirstMessage, Checked
<1>. QED
  BY <1>1, <1>3 DEF IInv

\* The header and the data come behind the first message.
LEMMA SendsKeep ==
  ASSUME IInv, NEW s \in Sides, SendHeader(s) \/ SendData(s)
  PROVE  IInv'
<1>1. PICK a \in Addresses : Write(s, a)
  <2>1. CASE SendHeader(s)
    BY <2>1, Names DEF SendHeader
  <2>2. CASE SendData(s)
    <3>1. Len(wrote[s]) \in Nat
      BY DEF IInv, TypeOK
    <3>2. PICK k \in Nat \ {0} : k <= MaxMsgs[s] /\ Write(s, <<"msg", s, k>>)
      BY <2>2, <3>1, Halves DEF SendData
    <3>3. k \in 1 .. MaxMsgs[s]
      BY <3>2, ZeoliteAssumption
    <3>. QED
      BY <3>2, <3>3, Names
  <2>. QED
    BY <2>1, <2>2
<1>2. /\ pc[s] \in {"header", "up"} /\ UNCHANGED <<conn, mem, buf, trusts, proto>>
      /\ \A r \in Sides \ {s} : pc'[r] = pc[r] /\ count'[r] = count[r] /\ into'[r] = into[r]
      /\ pc' \in [Sides -> Places] /\ count' \in [Sides -> 0 .. 2] /\ wrote' \in [Sides -> Seq(Data)]
      /\ into' \in [Sides -> {NoRead} \cup Reads]
      /\ pc'[s] \in {"readHeader", "up"} /\ Aims(s)'
  <2>1. CASE SendHeader(s)
    <3>1. /\ pc' = [pc EXCEPT ![s] = "readHeader"] /\ count' = [count EXCEPT ![s] = 0]
          /\ into' = [into EXCEPT ![s] = <<<<"header", s>>, 2>>] /\ UNCHANGED wrote
          /\ pc[s] = "header" /\ UNCHANGED <<conn, mem, buf, trusts, proto>>
      BY <2>1 DEF SendHeader, GoTo, Begin, histVars
    <3>2. /\ pc'[s] = "readHeader" /\ into'[s] = <<<<"header", s>>, 2>>
          /\ \A r \in Sides \ {s} : pc'[r] = pc[r] /\ count'[r] = count[r] /\ into'[r] = into[r]
      BY <3>1 DEF IInv, TypeOK
    <3>3. into' \in [Sides -> {NoRead} \cup Reads]
      BY <3>1, ReadTypes, Zenon DEF IInv, TypeOK
    <3>4. pc' \in [Sides -> Places] /\ count' \in [Sides -> 0 .. 2] /\ wrote' \in [Sides -> Seq(Data)]
      BY <3>1 DEF IInv, TypeOK, Places
    <3>. QED
      BY <3>1, <3>2, <3>3, <3>4 DEF Aims
  <2>2. CASE SendData(s)
    <3>1. wrote' \in [Sides -> Seq(Data)]
      <4>1. Len(wrote[s]) \div 2 + 1 \in Nat \ {0} /\ wrote[s] \in Seq(Data)
        BY Halves DEF IInv, TypeOK
      <4>2. Msg(s, Len(wrote[s]) \div 2 + 1) \in Seq(Data)
        BY <4>1, DataTypes, PairIsSequence
      <4>3. wrote[s] \o Msg(s, Len(wrote[s]) \div 2 + 1) \in Seq(Data)
        BY <4>1, <4>2, ConcatProperties
      <4>. QED
        BY <2>2, <4>3 DEF SendData, IInv, TypeOK
    <3>2. pc[s] = "up" /\ UNCHANGED <<conn, mem, buf, trusts, proto, pc, count, into>>
      BY <2>2 DEF SendData
    <3>. QED
      BY <3>1, <3>2 DEF IInv, TypeOK, Sound, Aims
  <2>. QED
    BY <2>1, <2>2
<1>3. /\ chan' \in [Sides -> Seq([1 .. 2 -> Unsent])] /\ Unsent' = Unsent
      /\ \A r \in Sides : Coming(r) => Coming(r)'
  BY <1>1, <1>2, WriteKeeps
<1>4. TypeOK'
  BY <1>2, <1>3, Zenon DEF IInv, TypeOK
<1>5. HelloKept'
  BY <1>2 DEF IInv, HelloKept
<1>6. Sound(s)'
  BY <1>2 DEF IInv, Sound, FirstMessage, Checked
<1>7. Sound(Other(s))'
  BY <1>2, <1>3, OtherSide, OtherStaysSound
<1>. QED
  BY <1>4, <1>5, <1>6, <1>7 DEF IInv, Sides, Other

-----------------------------------------------------------------------------
(* half.Read *)

LEMMA ReceiveKeeps ==
  ASSUME IInv, NEW s \in Sides, Receive(s), UNCHANGED <<pc, proto, trusts, wrote>>
  PROVE  IInv'
<1> DEFINE o == Other(s)
           first == Head(chan[o])
<1>1. /\ into[s] # NoRead /\ buf[s] = <<>> /\ chan[o] # <<>>
      /\ buf' = [buf EXCEPT ![s] = first] /\ chan' = [chan EXCEPT ![o] = Tail(@)]
      /\ UNCHANGED <<conn, mem, into, count>>
  BY DEF Receive, Room, Reading
<1>2. o \in Sides /\ o # s /\ Other(o) = s
  BY OtherSide
<1>3. first \in [1 .. 2 -> Unsent] /\ Tail(chan[o]) \in Seq([1 .. 2 -> Unsent])
  <2>1. chan[o] \in Seq([1 .. 2 -> Unsent])
    BY <1>2 DEF IInv, TypeOK
  <2>. QED
    BY <1>1, <2>1, HeadTailProperties
<1>4. first \in Seq(Unsent)
  BY <1>3, PairIsSequence
<1>5. Unsent' = Unsent /\ \A r \in Sides : SentHello(r)' = SentHello(r)
  BY <1>1 DEF Unsent, SentHello
<1>6. TypeOK'
  <2>1. buf' \in [Sides -> Seq(Unsent)]
    BY <1>1, <1>4, Zenon DEF IInv, TypeOK
  <2>2. chan' \in [Sides -> Seq([1 .. 2 -> Unsent])]
    BY <1>1, <1>2, <1>3, Zenon DEF IInv, TypeOK
  <2>. QED
    BY <1>1, <1>5, <2>1, <2>2, Zenon DEF IInv, TypeOK
<1>7. HelloKept'
  BY <1>1 DEF IInv, HelloKept
<1>8. buf'[s] = first /\ buf'[o] = buf[o] /\ chan'[s] = chan[s]
  BY <1>1, <1>2 DEF IInv, TypeOK
<1>9. Sound(s)'
  <2>1. Sound(s) /\ pc[s] # "hello"
    BY <1>1 DEF IInv, Sound, Aims
  <2>2. pc[s] = "readHello" /\ Coming(o) => first = SentHello(o)
    BY <1>1 DEF Coming
  <2>3. Tail(SentHello(o)) # <<>> /\ SentHello(o) # <<>>
    BY DEF SentHello, Hello
  <2>4. FirstMessage(s)'
    BY <1>1, <1>2, <1>5, <1>8, <2>1, <2>2, <2>3 DEF Sound, FirstMessage
  <2>. QED
    BY <1>1, <2>1, <2>4 DEF Sound, Aims, Checked
<1>10. Sound(o)'
  BY <1>1, <1>5, <1>8, OtherStaysSound DEF Coming
<1>. QED
  BY <1>6, <1>7, <1>9, <1>10 DEF IInv, Sides, Other

\* What the units of a first message are when they are copied.
LEMMA HelloUnits ==
  ASSUME IInv, NEW s \in Sides
  PROVE  /\ Unit(Head(SentHello(s))) = Hello(s)[1]
         /\ Unit(Head(Tail(SentHello(s)))) = Hello(s)[2]
         /\ Tail(SentHello(s)) # <<>> /\ Tail(Tail(SentHello(s))) = <<>> /\ SentHello(s) # <<>>
<1>1. mem[<<"hello", s>>] = Hello(s)
  BY DEF IInv, HelloKept
<1>2. CASE conn = "hose"
  <2>1. SentHello(s) = <<<<<<"hello", s>>, 1>>, <<<<"hello", s>>, 2>>>>
    BY <1>2 DEF SentHello
  <2>2. Unit(<<<<"hello", s>>, 1>>) = Hello(s)[1] /\ Unit(<<<<"hello", s>>, 2>>) = Hello(s)[2]
    BY <1>1, <1>2 DEF Unit
  <2>3. \A a, b : /\ Head(<<a, b>>) = a /\ Tail(<<a, b>>) = <<b>> /\ Head(<<b>>) = b
                  /\ Tail(<<b>>) = <<>> /\ <<b>> # <<>> /\ <<a, b>> # <<>>
    OBVIOUS
  <2>. QED
    BY <2>1, <2>2, <2>3, Zenon
<1>3. CASE conn # "hose"
  BY <1>3 DEF SentHello, Unit, Hello
<1>. QED
  BY <1>2, <1>3

\* A step of Copy, with the array that it copies to and the unit.
LEMMA CopyStep ==
  ASSUME IInv, NEW s \in Sides, Copy(s)
  PROVE  \E a \in Addresses, c \in 1 .. 2, u \in Data :
           /\ c = count[s] + 1 /\ u = Unit(Head(buf[s]))
           /\ mem' = [mem EXCEPT ![a] = [mem[a] EXCEPT ![c] = u]]
           /\ pc[s] \in {"readHello", "readHeader", "up"}
           /\ a = CASE pc[s] = "readHello" -> <<"rbuf", s>>
                    [] pc[s] = "readHeader" -> <<"header", s>>
                    [] OTHER -> <<"p", s>>
<1>1. into[s] # NoRead /\ count[s] < into[s][2] /\ buf[s] # <<>>
  BY DEF Copy, Room, Reading
<1>2. PICK k \in {"rbuf", "header", "p"}, n \in 1 .. 2 :
        /\ into[s] = <<<<k, s>>, n>> /\ pc[s] \in {"readHello", "readHeader", "up"}
        /\ k = CASE pc[s] = "readHello" -> "rbuf" [] pc[s] = "readHeader" -> "header" [] OTHER -> "p"
  BY <1>1 DEF IInv, TypeOK, Places, Sound, Aims
<1>3. <<k, s>> \in Addresses /\ count[s] + 1 \in 1 .. 2 /\ into[s][1] = <<k, s>>
  <2>1. <<k, s>> \in Addresses
    BY Names
  <2>2. into[s][1] = <<k, s>> /\ into[s][2] = n
    BY <1>2
  <2>3. count[s] \in 0 .. 2
    BY DEF IInv, TypeOK
  <2>. QED
    BY <1>1, <2>1, <2>2, <2>3
<1>4. Unit(Head(buf[s])) \in Data
  <2>1. Head(buf[s]) \in Unsent
    BY <1>1, HeadTailProperties DEF IInv, TypeOK
  <2>2. CASE conn = "hose"
    <3>1. PICK a \in Addresses, i \in 1 .. 2 : Head(buf[s]) = <<a, i>>
      BY <2>1, <2>2 DEF Unsent
    <3>. QED
      BY <2>2, <3>1 DEF Unit, IInv, TypeOK
  <2>3. CASE conn # "hose"
    BY <2>1, <2>3 DEF Unit, Unsent
  <2>. QED
    BY <2>2, <2>3
<1>5. mem' = [mem EXCEPT ![<<k, s>>] = [mem[<<k, s>>] EXCEPT ![count[s] + 1] = Unit(Head(buf[s]))]]
  BY <1>3 DEF Copy
<1>. QED
  BY <1>2, <1>3, <1>4, <1>5

LEMMA CopyKeeps ==
  ASSUME IInv, NEW s \in Sides, Copy(s), UNCHANGED <<pc, proto, trusts, wrote>>
  PROVE  IInv'
<1> DEFINE o == Other(s)
<1>1. PICK a \in Addresses, c \in 1 .. 2, u \in Data :
           /\ c = count[s] + 1 /\ u = Unit(Head(buf[s]))
           /\ mem' = [mem EXCEPT ![a] = [mem[a] EXCEPT ![c] = u]]
           /\ pc[s] \in {"readHello", "readHeader", "up"}
           /\ a = CASE pc[s] = "readHello" -> <<"rbuf", s>>
                    [] pc[s] = "readHeader" -> <<"header", s>>
                    [] OTHER -> <<"p", s>>
  BY CopyStep
<1>2. /\ buf[s] # <<>> /\ buf' = [buf EXCEPT ![s] = Tail(@)] /\ count' = [count EXCEPT ![s] = c]
      /\ UNCHANGED <<conn, chan, into>>
  BY <1>1 DEF Copy
<1>3. o \in Sides /\ o # s /\ Other(o) = s /\ Sound(s)
  BY OtherSide DEF IInv
<1>4. Unsent' = Unsent /\ \A r \in Sides : SentHello(r)' = SentHello(r)
  BY <1>2 DEF Unsent, SentHello
<1>5. TypeOK'
  <2>1. mem' \in [Addresses -> [1 .. 2 -> Data]]
    <3>1. [mem[a] EXCEPT ![c] = u] \in [1 .. 2 -> Data]
      BY DEF IInv, TypeOK
    <3>. QED
      BY <1>1, <3>1, Zenon DEF IInv, TypeOK
  <2>2. buf' \in [Sides -> Seq(Unsent)]
    <3>1. Tail(buf[s]) \in Seq(Unsent)
      BY <1>2, HeadTailProperties DEF IInv, TypeOK
    <3>. QED
      BY <1>2, <3>1, Zenon DEF IInv, TypeOK
  <2>3. count' \in [Sides -> 0 .. 2]
    BY <1>2 DEF IInv, TypeOK
  <2>. QED
    BY <1>2, <1>4, <2>1, <2>2, <2>3, Zenon DEF IInv, TypeOK
<1>6. \A b \in Addresses : b # a => mem'[b] = mem[b]
  BY <1>1 DEF IInv, TypeOK
<1>7. \A r \in Sides : <<"hello", r>> # a /\ <<"hello", r>> \in Addresses /\ <<"rbuf", r>> \in Addresses
  BY <1>1, Names
<1>8. HelloKept'
  BY <1>6, <1>7 DEF IInv, HelloKept
<1>9. buf'[s] = Tail(buf[s]) /\ buf'[o] = buf[o] /\ count'[s] = c /\ count'[o] = count[o]
  BY <1>2, <1>3 DEF IInv, TypeOK
<1>10. <<"rbuf", o>> # a
  BY <1>1, <1>3
<1>11. Sound(o)'
  BY <1>2, <1>3, <1>4, <1>6, <1>7, <1>9, <1>10, OtherStaysSound DEF Coming
<1>12. Sound(s)'
  <2>1. CASE pc[s] = "readHello"
    <3>1. mem'[<<"rbuf", s>>] = [mem[<<"rbuf", s>>] EXCEPT ![c] = u]
      BY <1>1, <2>1 DEF IInv, TypeOK
    <3>2. CASE count[s] = 0 /\ buf[s] = SentHello(o) /\ mem[<<"rbuf", s>>] = Zero
      <4>1. u = Hello(o)[1] /\ c = 1 /\ buf'[s] = Tail(SentHello(o))
        BY <1>1, <1>3, <1>9, <3>2, HelloUnits
      <4>2. [Zero EXCEPT ![1] = Hello(o)[1]] = HalfHello(o)
        BY DEF Zero, HalfHello
      <4>. QED
        BY <1>2, <1>3, <1>4, <1>9, <2>1, <3>1, <3>2, <4>1, <4>2 DEF Sound, Aims, FirstMessage, Checked
    <3>3. CASE count[s] = 1 /\ buf[s] = Tail(SentHello(o)) /\ mem[<<"rbuf", s>>] = HalfHello(o)
      <4>1. u = Hello(o)[2] /\ c = 2
        BY <1>1, <1>3, <3>3, HelloUnits
      <4>2. [HalfHello(o) EXCEPT ![2] = Hello(o)[2]] = Hello(o)
        BY DEF HalfHello, Hello
      <4>. QED
        BY <1>2, <1>3, <1>4, <1>9, <2>1, <3>1, <3>3, <4>1, <4>2 DEF Sound, Aims, FirstMessage, Checked
    <3>4. count[s] # 2
      BY <1>1
    <3>5. \/ count[s] = 0 /\ mem[<<"rbuf", s>>] = Zero /\ buf[s] = SentHello(o)
          \/ count[s] = 1 /\ mem[<<"rbuf", s>>] = HalfHello(o) /\ buf[s] = Tail(SentHello(o))
      BY <1>2, <1>3, <2>1, <3>4, Zenon DEF Sound, FirstMessage
    <3>. QED
      BY <3>2, <3>3, <3>5
  <2>2. CASE pc[s] # "readHello"
    <3>1. <<"rbuf", s>> # a /\ pc[s] \in {"readHeader", "up"}
      BY <1>1, <2>2
    <3>. QED
      BY <1>2, <1>3, <1>6, <1>7, <3>1 DEF Sound, Aims, FirstMessage, Checked
  <2>. QED
    BY <2>1, <2>2
<1>. QED
  BY <1>3, <1>5, <1>8, <1>11, <1>12 DEF IInv, Sides, Other

-----------------------------------------------------------------------------
LEMMA StepOK == IInv /\ [Next]_vars => IInv'
<1> SUFFICES ASSUME IInv, [Next]_vars PROVE IInv'
  OBVIOUS
<1>1. ASSUME NEW s \in Sides, NewSession(s) PROVE IInv'
  <2>1. CASE (Receive(s) \/ Copy(s)) /\ UNCHANGED sessVars
    BY <2>1, ReceiveKeeps, CopyKeeps DEF sessVars, histVars
  <2>. QED
    BY <1>1, <2>1, SendHelloKeeps, ReadHelloKeeps, ReadFailsKeeps, CheckKeeps, SendFailsKeeps,
       SendsKeep, ReadHeaderKeeps DEF NewSession
<1>2. ASSUME NEW s \in Sides, Session(s) PROVE IInv'
  <2>1. CASE CloseConn(s)
    BY <2>1, FrameKeeps DEF CloseConn, Close, histVars
  <2>. QED
    BY <1>2, <2>1, SendsKeep, BeginDataKeeps, ReadHeaderKeeps, ReadFailsKeeps DEF Session
<1>3. CASE UNCHANGED vars
  BY <1>3, FrameKeeps DEF vars, hoseVars
<1>. QED
  BY <1>1, <1>2, <1>3 DEF Next

\* A session is with the side whose key is trusted and whose first message was
\* read whole, whatever is read in part and however the reads and writes of the
\* two sides fall together (zeolite.go:43-131): although the number of bytes read
\* is ignored, the signature of half a message does not open.
THEOREM SessionsAreAuthentic == Spec => []Authentic
<1>1. IInv => Authentic
  BY DEF IInv, Sound, Checked, Authentic, HasSession
<1>. QED
  BY InitOK, StepOK, <1>1, PTL DEF Spec

-----------------------------------------------------------------------------
(* What is on its way *)

\* The slices that side s sends, by number: where they are and what they say.
Array(s, i) == CASE i = 1 -> <<"hello", s>> [] i = 2 -> <<"header", s>> [] OTHER -> <<"msg", s, i - 2>>
Content(s, i) == CASE i = 1 -> Hello(s) [] i = 2 -> Header(s) [] OTHER -> Msg(s, i - 2)
Slice(s, i) ==
  IF conn = "hose" THEN <<<<Array(s, i), 1>>, <<Array(s, i), 2>>>> ELSE Content(s, i)

\* The units behind the first message, by number; the first message has 1 and 2.
Value(s, j) == IF j \in {3, 4} THEN Header(s)[j - 2] ELSE <<"data", s, j - 4>>

\* A side has written n slices.
Written(s, n) ==
  /\ pc[s] = "hello" => n = 0
  /\ pc[s] \in {"readHello", "check", "header"} => n = 1
  /\ pc[s] \in {"readHeader", "up", "ended"} => 2 * n = 4 + Len(wrote[s])
  /\ pc[s] = "failed" => n \in 0 .. 2

\* The number of units that a side has copied.
Taken(s) ==
  CASE pc[s] \in {"readHello", "check"} -> count[s]
    [] pc[s] = "header" -> 2
    [] pc[s] = "readHeader" -> 2 + count[s]
    [] pc[s] \in {"up", "ended"} -> 2 + cut[s] + Len(rcvd[s]) + (IF Reading(s) THEN count[s] ELSE 0)
    [] OTHER -> 0

\* A side has received n slices of the other, and of the last of them what is
\* left is in its buffer; those that follow are in the channel.
Received(s, n) ==
  LET o == Other(s)
  IN  /\ \A i \in 1 .. Len(chan[o]) : chan[o][i] = Slice(o, n + i)
      /\ \/ buf[s] = <<>>
         \/ n > 0 /\ buf[s] = Slice(o, n)
         \/ n > 0 /\ buf[s] = Tail(Slice(o, n))
      /\ 2 * n = Taken(s) + Len(buf[s])
      /\ Written(o, n + Len(chan[o]))

InFlight(s) == pc[s] # "failed" => \E n \in Nat : Received(s, n)

\* The messages stay as they are; a header until it is sent.
MessagesKept ==
  \A s \in Sides :
    /\ \A k \in 1 .. MaxMsgs[s] : mem[<<"msg", s, k>>] = Msg(s, k)
    /\ pc[s] \in {"hello", "readHello", "check", "header"} => mem[<<"header", s>>] = Header(s)

\* What a session has sent and read, and what its read has copied.
History(s) ==
  /\ \A j \in 1 .. Len(wrote[s]) : wrote[s][j] = <<"data", s, j>>
  /\ Len(wrote[s]) <= 2 * MaxMsgs[s] /\ Len(wrote[s]) = 2 * (Len(wrote[s]) \div 2)
  /\ ~HasSession(s) => wrote[s] = <<>> /\ rcvd[s] = <<>>
  /\ HasSession(s) => cut[s] \in 1 .. 2 /\ (conn = "hose" => cut[s] = 2)
  /\ \A j \in 1 .. Len(rcvd[s]) : rcvd[s][j] = Value(Other(s), 2 + cut[s] + j)
  /\ pc[s] = "up" /\ Reading(s) =>
       \A j \in 1 .. count[s] :
         mem[<<"p", s>>][j] = Value(Other(s), 2 + cut[s] + Len(rcvd[s]) + j)
  /\ pc[s] = "check" => count[s] = 2 \/ mem[<<"rbuf", s>>] = HalfHello(Other(s))
  /\ s \in closed => pc[s] \in {"up", "failed", "ended"}
  /\ pc[s] = "ended" => Other(s) \in closed /\ chan[Other(s)] = <<>> /\ buf[s] = <<>>

HistoryTypes ==
  /\ cut \in [Sides -> 0 .. 2] /\ rcvd \in [Sides -> Seq(Data)]
  /\ closed \in SUBSET Sides

JInv == IInv /\ HistoryTypes /\ MessagesKept /\ \A s \in Sides : History(s) /\ InFlight(s)

LEMMA Pairs ==
  ASSUME NEW a, NEW b
  PROVE  /\ Len(<<a, b>>) = 2 /\ <<a, b>> # <<>> /\ Tail(<<a, b>>) = <<b>> /\ <<b>> # <<>>
         /\ Len(<<b>>) = 1 /\ Tail(<<b>>) = <<>> /\ Head(<<a, b>>) = a /\ Head(<<b>>) = b
         /\ <<a, b>>[1] = a /\ <<a, b>>[2] = b
OBVIOUS

LEMMA SliceShape ==
  ASSUME NEW s, NEW n
  PROVE  /\ Len(Slice(s, n)) = 2 /\ Slice(s, n) # <<>>
         /\ Tail(Slice(s, n)) # <<>> /\ Len(Tail(Slice(s, n))) = 1
         /\ Tail(Tail(Slice(s, n))) = <<>>
         /\ Head(Slice(s, n)) = Slice(s, n)[1] /\ Head(Tail(Slice(s, n))) = Slice(s, n)[2]
<1>1. PICK a, b : Slice(s, n) = <<a, b>>
  <2>1. CASE conn = "hose"
    BY <2>1 DEF Slice
  <2>2. CASE conn # "hose"
    <3>1. Content(s, n) \in {Hello(s), Header(s), Msg(s, n - 2)}
      BY DEF Content
    <3>2. CASE Content(s, n) = Hello(s)
      BY <2>2, <3>2, Zenon DEF Slice, Hello
    <3>3. CASE Content(s, n) = Header(s)
      BY <2>2, <3>3, Zenon DEF Slice, Header
    <3>4. CASE Content(s, n) = Msg(s, n - 2)
      BY <2>2, <3>4, Zenon DEF Slice, Msg
    <3>. QED
      BY <3>1, <3>2, <3>3, <3>4
  <2>. QED
    BY <2>1, <2>2
<1>. QED
  BY <1>1, Pairs

\* What is left of the last slice, by its length.
LEMMA Remainder ==
  ASSUME NEW s \in Sides, NEW n \in Nat, Received(s, n)
  PROVE  /\ Len(buf[s]) \in 0 .. 2
         /\ Len(buf[s]) = 0 <=> buf[s] = <<>>
         /\ Len(buf[s]) = 1 => n > 0 /\ buf[s] = Tail(Slice(Other(s), n))
         /\ Len(buf[s]) = 2 => n > 0 /\ buf[s] = Slice(Other(s), n)
<1>1. Len(<<>>) = 0
  OBVIOUS
<1>2. CASE buf[s] = <<>>
  BY <1>1, <1>2
<1>3. CASE n > 0 /\ buf[s] = Slice(Other(s), n)
  <2>1. Len(buf[s]) = 2 /\ buf[s] # <<>>
    BY <1>3, SliceShape
  <2>. QED
    BY <1>3, <2>1
<1>4. CASE n > 0 /\ buf[s] = Tail(Slice(Other(s), n))
  <2>1. Len(buf[s]) = 1 /\ buf[s] # <<>>
    BY <1>4, SliceShape
  <2>2. 1 \in 0 .. 2 /\ 1 # 0 /\ 1 # 2
    OBVIOUS
  <2>. QED
    BY <1>4, <2>1, <2>2, Zenon
<1>. QED
  BY <1>2, <1>3, <1>4 DEF Received

\* What a step of s leaves of the other side.
Alone(s) ==
  LET r == Other(s)
  IN  /\ pc'[r] = pc[r] /\ into'[r] = into[r] /\ count'[r] = count[r] /\ buf'[r] = buf[r]
      /\ wrote'[r] = wrote[r] /\ rcvd'[r] = rcvd[r] /\ cut'[r] = cut[r]
      /\ r \in closed' <=> r \in closed
      /\ mem'[<<"p", r>>] = mem[<<"p", r>>] /\ mem'[<<"rbuf", r>>] = mem[<<"rbuf", r>>]
      /\ s \in closed => s \in closed' /\ chan'[s] = chan[s]
      /\ conn' = conn

\* A step that sends nothing.
LEMMA NothingSent ==
  ASSUME JInv, NEW s \in Sides, Alone(s), chan'[s] = chan[s],
         \A n \in Nat : Written(s, n) => Written(s, n)'
  PROVE  InFlight(Other(s))'
<1> DEFINE r == Other(s)
<1>1. r \in Sides /\ Other(r) = s
  BY OtherSide
<1> SUFFICES ASSUME pc[r] # "failed" PROVE \E n \in Nat : Received(r, n)'
  BY DEF InFlight, Alone
<1>2. PICK n \in Nat : Received(r, n)
  BY <1>1 DEF JInv, InFlight
<1>3. Taken(r)' = Taken(r)
  BY DEF Alone, Taken, Reading
<1>4. \A i : Slice(s, i)' = Slice(s, i)
  BY DEF Alone, Slice
<1>5. n + Len(chan[s]) \in Nat
  BY DEF JInv, IInv, TypeOK
<1>6. Received(r, n)'
  BY <1>1, <1>2, <1>3, <1>4, <1>5 DEF Received, Alone
<1>. QED
  BY <1>6

\* A step that sends the next slice.
LEMMA SliceSent ==
  ASSUME JInv, NEW s \in Sides, Alone(s), NEW slice, chan' = [chan EXCEPT ![s] = Append(@, slice)],
         slice \in [1 .. 2 -> Unsent],
         \A n \in Nat : Written(s, n) => slice = Slice(s, n + 1) /\ Written(s, n + 1)'
  PROVE  InFlight(Other(s))'
<1> DEFINE r == Other(s)
           q == chan[s]
<1>1. r \in Sides /\ Other(r) = s
  BY OtherSide
<1> SUFFICES ASSUME pc[r] # "failed" PROVE \E n \in Nat : Received(r, n)'
  BY DEF InFlight, Alone
<1>2. PICK n \in Nat : Received(r, n)
  BY <1>1 DEF JInv, InFlight
<1>3. Taken(r)' = Taken(r)
  BY DEF Alone, Taken, Reading
<1>4. \A i : Slice(s, i)' = Slice(s, i)
  BY DEF Alone, Slice
<1>5. q \in Seq([1 .. 2 -> Unsent]) /\ chan'[s] = Append(q, slice)
  BY DEF JInv, IInv, TypeOK
<1>6. PICK k \in Nat : k = Len(q)
  BY <1>5
<1>7. /\ Len(Append(q, slice)) = k + 1
      /\ \A i \in 1 .. k : Append(q, slice)[i] = q[i]
      /\ Append(q, slice)[k + 1] = slice
  BY <1>5, <1>6, AppendProperties
<1>8. (\A i \in 1 .. k : q[i] = Slice(s, n + i)) /\ Written(s, n + k)
  BY <1>1, <1>2, <1>6 DEF Received
<1>9. slice = Slice(s, n + (k + 1)) /\ Written(s, n + (k + 1))'
  <2>1. n + k \in Nat /\ n + k + 1 = n + (k + 1)
    OBVIOUS
  <2>. QED
    BY <1>8, <2>1
<1>10. \A i \in 1 .. k + 1 : chan'[s][i] = Slice(s, n + i)
  <2>1. \A i \in 1 .. k + 1 : i \in 1 .. k \/ i = k + 1
    OBVIOUS
  <2>. HIDE DEF q
  <2>. QED
    BY <1>5, <1>7, <1>8, <1>9, <2>1
<1>11. Len(chan'[s]) = k + 1
  BY <1>5, <1>7
<1>12. Received(r, n)'
  <2>1. \A i \in 1 .. Len(chan'[s]) : chan'[s][i] = Slice(s, n + i)'
    BY <1>4, <1>10, <1>11
  <2>2. Written(s, n + Len(chan[s]))'
    BY <1>9, <1>11
  <2>3. buf'[r] = buf[r] /\ (buf[r] = <<>> \/ (n > 0 /\ buf[r] = Slice(s, n)) \/ (n > 0 /\ buf[r] = Tail(Slice(s, n))))
    BY <1>1, <1>2 DEF Received, Alone
  <2>4. 2 * n = Taken(r)' + Len(buf'[r])
    BY <1>2, <1>3, <2>3 DEF Received
  <2>. QED
    BY <1>1, <1>4, <2>1, <2>2, <2>3, <2>4 DEF Received
<1>. QED
  BY <1>12

\* What remains to be shown of a step of s.
LEMMA SideStep ==
  ASSUME JInv, NEW s \in Sides, Alone(s), IInv', HistoryTypes', MessagesKept',
         History(s)', InFlight(s)', InFlight(Other(s))'
  PROVE  JInv'
<1> DEFINE r == Other(s)
<1>1. r \in Sides /\ Other(r) = s
  BY OtherSide
<1>2. History(r)
  BY <1>1 DEF JInv
<1>3. History(r)'
  BY <1>1, <1>2 DEF History, Alone, Reading, HasSession
<1>. QED
  BY <1>1, <1>3 DEF JInv, Sides, Other

LEMMA InitJ == Init => JInv
<1> SUFFICES ASSUME Init PROVE JInv
  OBVIOUS
<1>1. IInv /\ HistoryTypes /\ MessagesKept
  BY InitOK, InitMemory DEF Init, HistoryTypes, MessagesKept
<1>2. /\ \A s \in Sides : chan[s] = <<>> /\ buf[s] = <<>> /\ pc[s] = "hello" /\ Taken(s) = 0
      /\ \A s \in Sides : into[s] = NoRead /\ count[s] = 0 /\ wrote[s] = <<>> /\ rcvd[s] = <<>>
      /\ closed = {}
  BY DEF Init, Taken
<1>3. \A s \in Sides : Received(s, 0)
  BY <1>2, OtherSide DEF Received, Written
<1>4. \A s \in Sides : History(s)
  <2>1. Len(<<>>) = 0 /\ 0 = 2 * (0 \div 2) /\ \A s \in Sides : 0 <= 2 * MaxMsgs[s]
    BY ZeoliteAssumption
  <2>2. \A j : j \notin 1 .. 0
    OBVIOUS
  <2>. QED
    BY <1>2, <2>1, <2>2, Zenon DEF History, Reading, HasSession
<1>. QED
  BY <1>1, <1>3, <1>4 DEF JInv, InFlight

\* A step after which s has copied as much as before.
LEMMA NothingRead ==
  ASSUME JInv, NEW s \in Sides, Alone(s), pc[s] # "failed",
         Taken(s)' = Taken(s), buf'[s] = buf[s], chan'[Other(s)] = chan[Other(s)]
  PROVE  InFlight(s)'
<1> DEFINE r == Other(s)
<1>1. PICK n \in Nat : Received(s, n)
  BY DEF JInv, InFlight
<1>2. \A i : Slice(r, i)' = Slice(r, i)
  BY DEF Alone, Slice
<1>3. \A k : Written(r, k)' <=> Written(r, k)
  BY DEF Alone, Written
<1>4. Received(s, n)'
  BY <1>1, <1>2, <1>3 DEF Received
<1>. QED
  BY <1>4 DEF InFlight

LEMMA SendHelloKeepsJ ==
  ASSUME JInv, IInv', NEW s \in Sides, SendHello(s)
  PROVE  JInv'
<1>1. /\ pc[s] = "hello" /\ Write(s, <<"hello", s>>)
      /\ UNCHANGED <<conn, mem, buf, closed, wrote, rcvd, cut>>
      /\ pc' = [pc EXCEPT ![s] = "readHello"]
      /\ into' = [into EXCEPT ![s] = <<<<"rbuf", s>>, 2>>] /\ count' = [count EXCEPT ![s] = 0]
  BY DEF SendHello, Begin, GoTo, histVars
<1>2. /\ pc'[s] = "readHello" /\ count'[s] = 0 /\ Other(s) \in Sides /\ Other(s) # s
      /\ chan' = [chan EXCEPT ![s] = Append(@, Sent(<<"hello", s>>))] /\ s \notin closed
  BY <1>1, OtherSide DEF JInv, IInv, TypeOK, Write
<1>3. Alone(s) /\ chan'[Other(s)] = chan[Other(s)]
  BY <1>1, <1>2 DEF Alone, JInv, IInv, TypeOK
<1>4. HistoryTypes' /\ MessagesKept'
  BY <1>1, <1>2, OtherSide DEF JInv, HistoryTypes, MessagesKept, IInv, TypeOK
<1>5. History(s)'
  BY <1>1, <1>2 DEF JInv, History, HasSession, Reading
<1>6. InFlight(s)'
  BY <1>1, <1>2, <1>3, NothingRead DEF Taken
<1>7. Sent(<<"hello", s>>) \in [1 .. 2 -> Unsent]
  <2>1. <<"hello", s>> \in Addresses
    BY Names
  <2>. QED
    BY <2>1, SentType DEF JInv
<1>8. \A n \in Nat : Written(s, n) => Sent(<<"hello", s>>) = Slice(s, n + 1) /\ Written(s, n + 1)'
  <2>1. Sent(<<"hello", s>>) = Slice(s, 1)
    BY DEF Sent, Slice, Array, Content, JInv, IInv, HelloKept
  <2>2. Written(s, 1)'
    BY <1>2 DEF Written
  <2>. QED
    BY <1>1, <2>1, <2>2 DEF Written
<1>9. InFlight(Other(s))'
  BY <1>2, <1>3, <1>7, <1>8, SliceSent
<1>. QED
  BY <1>3, <1>4, <1>5, <1>6, <1>9, SideStep

LEMMA SendHeaderKeepsJ ==
  ASSUME JInv, IInv', NEW s \in Sides, SendHeader(s)
  PROVE  JInv'
<1>1. /\ pc[s] = "header" /\ Write(s, <<"header", s>>)
      /\ UNCHANGED <<conn, mem, buf, closed, wrote, rcvd, cut>>
      /\ pc' = [pc EXCEPT ![s] = "readHeader"]
      /\ into' = [into EXCEPT ![s] = <<<<"header", s>>, 2>>] /\ count' = [count EXCEPT ![s] = 0]
  BY DEF SendHeader, Begin, GoTo, histVars
<1>2. /\ pc'[s] = "readHeader" /\ count'[s] = 0 /\ Other(s) \in Sides /\ Other(s) # s
      /\ chan' = [chan EXCEPT ![s] = Append(@, Sent(<<"header", s>>))] /\ s \notin closed
  BY <1>1, OtherSide DEF JInv, IInv, TypeOK, Write
<1>3. Alone(s) /\ chan'[Other(s)] = chan[Other(s)]
  BY <1>1, <1>2 DEF Alone, JInv, IInv, TypeOK
<1>4. HistoryTypes' /\ MessagesKept'
  BY <1>1, <1>2, OtherSide DEF JInv, HistoryTypes, MessagesKept, IInv, TypeOK
<1>5. History(s)'
  BY <1>1, <1>2 DEF JInv, History, HasSession, Reading
<1>6. InFlight(s)'
  BY <1>1, <1>2, <1>3, NothingRead DEF Taken
<1>7. Sent(<<"header", s>>) \in [1 .. 2 -> Unsent]
  <2>1. <<"header", s>> \in Addresses
    BY Names
  <2>. QED
    BY <2>1, SentType DEF JInv
<1>8. \A n \in Nat : Written(s, n) => Sent(<<"header", s>>) = Slice(s, n + 1) /\ Written(s, n + 1)'
  <2>1. Sent(<<"header", s>>) = Slice(s, 2)
    BY <1>1 DEF Sent, Slice, Array, Content, JInv, MessagesKept
  <2>2. Len(wrote[s]) = 0
    <3>1. wrote[s] = <<>>
      BY <1>1, Zenon DEF JInv, History, HasSession
    <3>. QED
      BY <3>1
  <2>3. Written(s, 2)'
    BY <1>1, <1>2, <2>2 DEF Written
  <2>. QED
    BY <1>1, <2>1, <2>3 DEF Written
<1>9. InFlight(Other(s))'
  BY <1>2, <1>3, <1>7, <1>8, SliceSent
<1>. QED
  BY <1>3, <1>4, <1>5, <1>6, <1>9, SideStep

LEMMA HalfOf == \A n \in Nat : n \div 2 \in Nat
OBVIOUS

LEMMA SendDataKeepsJ ==
  ASSUME JInv, IInv', NEW s \in Sides, SendData(s)
  PROVE  JInv'
<1>1. PICK k : k = Len(wrote[s]) \div 2 + 1
  OBVIOUS
<1>2. /\ pc[s] = "up" /\ k <= MaxMsgs[s] /\ Write(s, <<"msg", s, k>>)
      /\ wrote' = [wrote EXCEPT ![s] = @ \o Msg(s, k)]
      /\ UNCHANGED <<conn, mem, buf, closed, into, count, pc, rcvd, cut>>
  BY <1>1 DEF SendData
<1>3. /\ k \in Nat \ {0} /\ Len(wrote[s]) = 2 * (k - 1) /\ wrote[s] \in Seq(Data)
      /\ Other(s) \in Sides /\ Other(s) # s /\ MaxMsgs[s] \in Nat /\ k \in 1 .. MaxMsgs[s]
  <2>1. wrote[s] \in Seq(Data) /\ Len(wrote[s]) \in Nat
    BY DEF JInv, IInv, TypeOK
  <2>2. Len(wrote[s]) = 2 * (Len(wrote[s]) \div 2)
    BY DEF JInv, History
  <2>3. PICK h \in Nat : h = Len(wrote[s]) \div 2
    BY <2>1, HalfOf
  <2>4. k = h + 1 /\ Len(wrote[s]) = 2 * h /\ k \in Nat \ {0}
    <3>1. k = h + 1
      BY <1>1, <2>3, Zenon
    <3>2. Len(wrote[s]) = 2 * h
      BY <2>2, <2>3, Zenon
    <3>. QED
      BY <3>1, <3>2
  <2>5. MaxMsgs[s] \in Nat
    BY ZeoliteAssumption
  <2>6. k \in 1 .. MaxMsgs[s] /\ Len(wrote[s]) = 2 * (k - 1)
    BY <1>2, <2>4, <2>5
  <2>. QED
    BY <2>1, <2>4, <2>5, <2>6, OtherSide
<1>4. /\ chan' = [chan EXCEPT ![s] = Append(@, Sent(<<"msg", s, k>>))] /\ s \notin closed
      /\ wrote'[s] = wrote[s] \o Msg(s, k) /\ wrote'[Other(s)] = wrote[Other(s)]
  BY <1>2, <1>3 DEF Write, JInv, IInv, TypeOK
<1>5. Alone(s) /\ chan'[Other(s)] = chan[Other(s)]
  BY <1>2, <1>3, <1>4 DEF Alone, JInv, IInv, TypeOK
<1>6. HistoryTypes' /\ MessagesKept'
  BY <1>2 DEF JInv, HistoryTypes, MessagesKept
<1>7. /\ Len(wrote'[s]) = 2 * k
      /\ \A j \in 1 .. 2 * k : wrote'[s][j] = <<"data", s, j>>
  <2>1. Msg(s, k) \in Seq(Data) /\ Len(Msg(s, k)) = 2
    BY <1>3, DataTypes, PairIsSequence DEF Msg
  <2>2. Msg(s, k)[1] = <<"data", s, 2 * k - 1>> /\ Msg(s, k)[2] = <<"data", s, 2 * k>>
    BY DEF Msg
  <2>3. /\ Len(wrote[s] \o Msg(s, k)) = 2 * k
        /\ \A j \in 1 .. 2 * k : (wrote[s] \o Msg(s, k))[j] =
              IF j <= 2 * (k - 1) THEN wrote[s][j] ELSE Msg(s, k)[j - 2 * (k - 1)]
    <3>1. /\ Len(wrote[s] \o Msg(s, k)) = Len(wrote[s]) + Len(Msg(s, k))
          /\ \A j \in 1 .. Len(wrote[s]) + Len(Msg(s, k)) : (wrote[s] \o Msg(s, k))[j] =
                IF j <= Len(wrote[s]) THEN wrote[s][j] ELSE Msg(s, k)[j - Len(wrote[s])]
      BY <1>3, <2>1, ConcatProperties
    <3>2. Len(wrote[s]) + Len(Msg(s, k)) = 2 * k
      BY <1>3, <2>1
    <3>. QED
      BY <1>3, <3>1, <3>2
  <2>4. ASSUME NEW j \in 1 .. 2 * k PROVE (wrote[s] \o Msg(s, k))[j] = <<"data", s, j>>
    <3>1. CASE j <= 2 * (k - 1)
      <4>1. j \in 1 .. Len(wrote[s])
        BY <1>3, <3>1
      <4>. QED
        BY <2>3, <3>1, <4>1 DEF JInv, History
    <3>2. CASE j = 2 * k - 1
      <4>1. ~(j <= 2 * (k - 1)) /\ j - 2 * (k - 1) = 1
        BY <1>3, <3>2
      <4>. QED
        BY <2>2, <2>3, <3>2, <4>1
    <3>3. CASE j = 2 * k
      <4>1. ~(j <= 2 * (k - 1)) /\ j - 2 * (k - 1) = 2
        BY <1>3, <3>3
      <4>. QED
        BY <2>2, <2>3, <3>3, <4>1
    <3>4. j <= 2 * (k - 1) \/ j = 2 * k - 1 \/ j = 2 * k
      BY <1>3
    <3>. QED
      BY <3>1, <3>2, <3>3, <3>4
  <2>. QED
    BY <1>4, <2>3, <2>4
<1>8. History(s)'
  <2>1. 2 * k <= 2 * MaxMsgs[s] /\ 2 * k = 2 * ((2 * k) \div 2)
    BY <1>2, <1>3
  <2>2. History(s)
    BY DEF JInv
  <2>3. Len(wrote'[s]) <= 2 * MaxMsgs[s] /\ Len(wrote'[s]) = 2 * (Len(wrote'[s]) \div 2)
    BY <1>7, <2>1
  <2>4. \A j \in 1 .. Len(wrote'[s]) : wrote'[s][j] = <<"data", s, j>>
    BY <1>7
  <2>5. pc'[s] = "up" /\ s \notin closed' /\ HasSession(s) /\ HasSession(s)'
    BY <1>2, <1>4 DEF HasSession
  <2>. QED
    BY <1>2, <2>2, <2>3, <2>4, <2>5 DEF History, Reading
<1>9. InFlight(s)'
  BY <1>2, <1>5, NothingRead DEF Taken, Reading
<1>10. Sent(<<"msg", s, k>>) \in [1 .. 2 -> Unsent]
  <2>1. <<"msg", s, k>> \in Addresses
    BY <1>2, <1>3, Names
  <2>. QED
    BY <2>1, SentType DEF JInv
<1>11. ASSUME NEW n \in Nat, Written(s, n)
       PROVE  Sent(<<"msg", s, k>>) = Slice(s, n + 1) /\ Written(s, n + 1)'
  <2>1. n = k + 1
    BY <1>2, <1>3, <1>11 DEF Written
  <2>2. mem[<<"msg", s, k>>] = Msg(s, k)
    BY <1>2, <1>3 DEF JInv, MessagesKept
  <2>3. n + 1 # 1 /\ n + 1 # 2 /\ n + 1 - 2 = k
    BY <1>3, <2>1
  <2>4. Array(s, n + 1) = <<"msg", s, k>> /\ Content(s, n + 1) = Msg(s, k)
    BY <2>3 DEF Array, Content
  <2>5. Sent(<<"msg", s, k>>) = Slice(s, n + 1)
    BY <2>2, <2>4 DEF Sent, Slice
  <2>6. 2 * (n + 1) = 4 + Len(wrote'[s])
    BY <1>3, <1>7, <2>1
  <2>7. Written(s, n + 1)'
    BY <1>2, <2>6 DEF Written
  <2>. QED
    BY <2>5, <2>7
<1>12. InFlight(Other(s))'
  BY <1>4, <1>5, <1>10, <1>11, SliceSent
<1>. QED
  BY <1>5, <1>6, <1>8, <1>9, <1>12, SideStep

\* A step of one side that neither sends, nor receives, nor copies.
LEMMA QuietKeepsJ ==
  ASSUME JInv, IInv', NEW s \in Sides, Alone(s), UNCHANGED <<chan, mem, buf>>, HistoryTypes', History(s)',
         \A n \in Nat : Written(s, n) => Written(s, n)',
         pc'[s] # "failed" => pc[s] # "failed" /\ Taken(s)' = Taken(s),
         pc'[s] \in {"hello", "readHello", "check", "header"}
           => pc[s] \in {"hello", "readHello", "check", "header"}
  PROVE  JInv'
<1>1. InFlight(Other(s))'
  BY NothingSent
<1>2. InFlight(s)'
  <2>1. CASE pc'[s] = "failed"
    BY <2>1 DEF InFlight
  <2>2. CASE pc'[s] # "failed"
    BY <2>2, NothingRead
  <2>. QED
    BY <2>1, <2>2
<1>3. MessagesKept'
  BY OtherSide DEF JInv, MessagesKept, Alone, Sides, Other
<1>. QED
  BY <1>1, <1>2, <1>3, SideStep

\* Such a step, when it changes these variables only for s.
LEMMA AloneFacts ==
  ASSUME JInv, NEW s \in Sides, UNCHANGED <<conn, mem, chan, buf, closed, wrote>>,
         \A r \in Sides \ {s} :
           /\ pc'[r] = pc[r] /\ into'[r] = into[r] /\ count'[r] = count[r]
           /\ cut'[r] = cut[r] /\ rcvd'[r] = rcvd[r]
  PROVE  Alone(s)
BY OtherSide DEF Alone

LEMMA BeforeJ ==
  ASSUME JInv, NEW s \in Sides
  PROVE  /\ pc[s] \in Places /\ count[s] \in 0 .. 2 /\ cut[s] \in 0 .. 2 /\ rcvd[s] \in Seq(Data)
         /\ pc = [pc EXCEPT ![s] = pc[s]] /\ into = [into EXCEPT ![s] = into[s]]
         /\ count = [count EXCEPT ![s] = count[s]] /\ buf = [buf EXCEPT ![s] = buf[s]]
         /\ cut = [cut EXCEPT ![s] = cut[s]] /\ rcvd = [rcvd EXCEPT ![s] = rcvd[s]]
         /\ Sound(s) /\ History(s) /\ InFlight(s)
<1>1. /\ pc[s] \in Places /\ count[s] \in 0 .. 2
      /\ pc = [pc EXCEPT ![s] = pc[s]] /\ into = [into EXCEPT ![s] = into[s]]
      /\ count = [count EXCEPT ![s] = count[s]] /\ buf = [buf EXCEPT ![s] = buf[s]]
      /\ Sound(s)
  BY Before DEF JInv
<1>2. cut[s] \in 0 .. 2 /\ cut = [cut EXCEPT ![s] = cut[s]]
  BY DEF JInv, HistoryTypes
<1>3. rcvd[s] \in Seq(Data) /\ rcvd = [rcvd EXCEPT ![s] = rcvd[s]]
  BY DEF JInv, HistoryTypes
<1>. QED
  BY <1>1, <1>2, <1>3 DEF JInv

\* The steps of NewSession between its reads and writes.
LEMMA HandshakeKeepsJ ==
  ASSUME JInv, IInv', NEW s \in Sides, ReadHello(s) \/ ReadFails(s) \/ Check(s) \/ SendFails(s)
  PROVE  JInv'
<1>1. /\ UNCHANGED <<conn, mem, chan, buf, closed, wrote, count, cut, rcvd>>
      /\ pc[s] \in {"hello", "readHello", "check", "header", "readHeader"}
  <2>1. CASE ReadHello(s)
    BY <2>1, BeforeJ DEF ReadHello, Returns, Kept, histVars
  <2>2. CASE ReadFails(s)
    BY <2>2 DEF ReadFails, Fails, histVars
  <2>3. CASE Check(s)
    BY <2>3 DEF Check, hoseVars, histVars
  <2>4. CASE SendFails(s)
    BY <2>4 DEF SendFails, hoseVars, histVars
  <2>. QED
    BY <2>1, <2>2, <2>3, <2>4
<1>2. PICK l \in {"check", "header", "failed"}, t \in {NoRead, into[s]} :
        pc' = [pc EXCEPT ![s] = l] /\ into' = [into EXCEPT ![s] = t]
  BY BeforeJ DEF ReadHello, ReadFails, Returns, Fails, Check, SendFails, GoTo, hoseVars
<1>3. Alone(s) /\ pc'[s] = l /\ UNCHANGED <<count, cut, rcvd, wrote>>
  <2>1. /\ pc'[s] = l
        /\ \A r \in Sides \ {s} : /\ pc'[r] = pc[r] /\ into'[r] = into[r] /\ count'[r] = count[r]
                                  /\ cut'[r] = cut[r] /\ rcvd'[r] = rcvd[r]
    BY <1>1, <1>2 DEF JInv, IInv, TypeOK, HistoryTypes
  <2>2. Alone(s)
    BY <1>1, <1>2, <2>1, AloneFacts
  <2>. QED
    BY <2>1, <2>2, <1>1, <1>2, Zenon
<1>4. /\ l = "check" => pc[s] = "readHello" /\ count[s] > 0
      /\ l = "header" => pc[s] = "check" /\ SignOpen(mem[<<"rbuf", s>>])
      /\ pc[s] \in {"hello", "header", "readHeader"} => l = "failed"
      /\ pc[s] = "check" => l \in {"header", "failed"}
  BY <1>1, <1>2, BeforeJ DEF ReadHello, ReadFails, Returns, Check, SendFails, GoTo, JInv, IInv, TypeOK
<1>5. l = "check" => count[s] = 2 \/ mem[<<"rbuf", s>>] = HalfHello(Other(s))
  BY <1>4, BeforeJ DEF Sound, FirstMessage
<1>6. l = "header" => count[s] = 2
  <2>1. ~SignOpen(HalfHello(Other(s)))
    BY DEF SignOpen, HalfHello, Zero, Hello
  <2>. QED
    BY <1>4, <2>1, BeforeJ DEF History
<1>7. History(s)'
  <2>1. ~HasSession(s) /\ ~HasSession(s)' /\ History(s) /\ s \notin closed
    <3>1. pc'[s] \notin {"up", "ended"} /\ pc[s] \notin {"up", "ended", "failed"} /\ History(s)
      BY <1>1, <1>2, <1>3, BeforeJ
    <3>. QED
      BY <3>1 DEF HasSession, History
  <2>2. pc'[s] # "up" /\ pc'[s] # "ended" /\ s \notin closed'
    BY <1>1, <1>2, <1>3, <2>1
  <2>3. pc'[s] = "check" => count'[s] = 2 \/ mem'[<<"rbuf", s>>] = HalfHello(Other(s))
    BY <1>1, <1>3, <1>5
  <2>. QED
    BY <1>1, <2>1, <2>2, <2>3 DEF History
<1>8. HistoryTypes'
  BY <1>1 DEF JInv, HistoryTypes
<1>9. \A n \in Nat : Written(s, n) => Written(s, n)'
  <2>1. wrote[s] = <<>> /\ Len(<<>>) = 0
    BY <1>1, BeforeJ DEF History, HasSession
  <2>. QED
    BY <1>1, <1>3, <1>4, <2>1 DEF Written
<1>10. l # "failed" => Taken(s)' = Taken(s)
  BY <1>1, <1>3, <1>4, <1>6 DEF Taken
<1>. QED
  BY <1>1, <1>3, <1>4, <1>7, <1>8, <1>9, <1>10, QuietKeepsJ

LEMMA TakenType ==
  ASSUME JInv, NEW s \in Sides
  PROVE  Taken(s) \in Nat
<1>1. count[s] \in Nat /\ cut[s] \in Nat /\ Len(rcvd[s]) \in Nat
  BY BeforeJ
<1>2. PICK c \in Nat : c = IF Reading(s) THEN count[s] ELSE 0
  BY <1>1
<1>3. 2 + count[s] \in Nat /\ 2 + cut[s] + Len(rcvd[s]) + c \in Nat
  BY <1>1
<1>4. CASE pc[s] \in {"readHello", "check", "header", "readHeader"}
  BY <1>1, <1>3, <1>4 DEF Taken
<1>5. CASE pc[s] \in {"up", "ended"}
  BY <1>2, <1>3, <1>5 DEF Taken
<1>6. CASE pc[s] \notin {"readHello", "check", "header", "readHeader", "up", "ended"}
  BY <1>6 DEF Taken
<1>. QED
  BY <1>4, <1>5, <1>6

\* What s has taken is what it has received, less what is left.
LEMMA TakenCount ==
  ASSUME JInv, NEW s \in Sides, pc[s] # "failed"
  PROVE  \E n \in Nat, b \in 0 .. 2 :
           Received(s, n) /\ b = Len(buf[s]) /\ 2 * n = Taken(s) + b /\ (b = 0 <=> buf[s] = <<>>)
<1>1. PICK n \in Nat : Received(s, n)
  BY DEF JInv, InFlight
<1>2. Len(buf[s]) \in 0 .. 2 /\ (Len(buf[s]) = 0 <=> buf[s] = <<>>)
  BY <1>1, Remainder
<1>. QED
  BY <1>1, <1>2 DEF Received

LEMMA ReadHeaderKeepsJ ==
  ASSUME JInv, IInv', NEW s \in Sides, ReadHeader(s)
  PROVE  JInv'
<1>1. /\ pc[s] = "readHeader" /\ Returns(s) /\ cut' = [cut EXCEPT ![s] = count[s]]
      /\ pc' = [pc EXCEPT ![s] = "up"] /\ into' = [into EXCEPT ![s] = NoRead]
      /\ UNCHANGED <<conn, mem, chan, closed, wrote, count, rcvd>>
      /\ buf' = [buf EXCEPT ![s] = buf[s]]
  BY DEF ReadHeader, Returns, Kept, GoTo, histVars
<1>2. /\ UNCHANGED buf /\ count' = [count EXCEPT ![s] = count[s]]
      /\ rcvd' = [rcvd EXCEPT ![s] = rcvd[s]]
  BY <1>1, BeforeJ, Zenon
<1>3. Alone(s) /\ pc'[s] = "up" /\ into'[s] = NoRead /\ cut'[s] = count[s] /\ rcvd'[s] = rcvd[s]
  <2>1. /\ pc'[s] = "up" /\ into'[s] = NoRead /\ cut'[s] = count[s] /\ rcvd'[s] = rcvd[s]
        /\ \A r \in Sides \ {s} : /\ pc'[r] = pc[r] /\ into'[r] = into[r] /\ count'[r] = count[r]
                                  /\ cut'[r] = cut[r] /\ rcvd'[r] = rcvd[r]
    BY <1>1, <1>2 DEF JInv, IInv, TypeOK, HistoryTypes
  <2>2. Alone(s)
    BY <1>1, <1>2, <2>1, AloneFacts
  <2>. QED
    BY <2>1, <2>2, <1>1, <1>2, Zenon
<1>4. count[s] \in 1 .. 2
  BY <1>1, BeforeJ DEF Returns
<1>5. conn = "hose" => count[s] = 2
  <2>1. CASE Room(s) /\ conn = "hose"
    <3>1. PICK n \in Nat, b \in 0 .. 2 : 2 * n = Taken(s) + b /\ (b = 0 <=> buf[s] = <<>>)
      BY <1>1, TakenCount
    <3>2. Taken(s) = 2 + count[s]
      BY <1>1 DEF Taken
    <3>3. b = 0
      BY <1>1, <2>1, <3>1 DEF Returns
    <3>. QED
      BY <1>4, <3>1, <3>2, <3>3
  <2>2. CASE ~Room(s)
    <3>1. into[s] = <<<<"header", s>>, 2>> /\ Reading(s)
      BY <1>1, BeforeJ DEF Sound, Aims, Returns
    <3>. QED
      BY <1>4, <2>2, <3>1 DEF Room
  <2>. QED
    BY <2>1, <2>2
<1>6. wrote[s] = <<>> /\ rcvd[s] = <<>> /\ History(s)
  BY <1>1, BeforeJ DEF History, HasSession
<1>7. History(s)'
  <2>1. \A j \in 1 .. Len(rcvd[s]) : FALSE
    BY <1>6
  <2>2. ~Reading(s)' /\ HasSession(s)' /\ pc'[s] = "up"
    BY <1>3 DEF Reading, HasSession
  <2>. QED
    BY <1>1, <1>3, <1>4, <1>5, <1>6, <2>1, <2>2 DEF History
<1>8. HistoryTypes'
  BY <1>1, <1>4 DEF JInv, HistoryTypes
<1>9. \A n \in Nat : Written(s, n) => Written(s, n)'
  BY <1>1, <1>3 DEF Written
<1>10. Taken(s)' = Taken(s)
  <2>1. Len(rcvd[s]) = 0
    BY <1>6
  <2>. QED
    BY <1>1, <1>3, <1>4, <2>1 DEF Taken, Reading
<1>. QED
  BY <1>1, <1>2, <1>3, <1>7, <1>8, <1>9, <1>10, QuietKeepsJ

LEMMA BeginDataKeepsJ ==
  ASSUME JInv, IInv', NEW s \in Sides, BeginData(s)
  PROVE  JInv'
<1>1. PICK n \in 1 .. 2 :
        /\ into' = [into EXCEPT ![s] = <<<<"p", s>>, n>>] /\ count' = [count EXCEPT ![s] = 0]
  BY DEF BeginData, Begin
<1>2. /\ pc[s] = "up" /\ ~Reading(s)
      /\ UNCHANGED <<conn, mem, chan, buf, closed, pc, dec, cut, wrote, rcvd>>
  BY DEF BeginData, histVars
<1>3. /\ pc' = [pc EXCEPT ![s] = pc[s]] /\ cut' = [cut EXCEPT ![s] = cut[s]]
      /\ rcvd' = [rcvd EXCEPT ![s] = rcvd[s]]
  BY <1>2, BeforeJ, Zenon
<1>4. Alone(s) /\ pc'[s] = "up" /\ count'[s] = 0 /\ cut'[s] = cut[s] /\ rcvd'[s] = rcvd[s]
  <2>1. /\ pc'[s] = "up" /\ count'[s] = 0 /\ cut'[s] = cut[s] /\ rcvd'[s] = rcvd[s]
        /\ \A r \in Sides \ {s} : /\ pc'[r] = pc[r] /\ into'[r] = into[r] /\ count'[r] = count[r]
                                  /\ cut'[r] = cut[r] /\ rcvd'[r] = rcvd[r]
    BY <1>1, <1>2 DEF JInv, IInv, TypeOK, HistoryTypes
  <2>2. Alone(s)
    BY <1>1, <1>2, <2>1, AloneFacts
  <2>. QED
    BY <2>1, <2>2, <1>1, <1>2, Zenon
<1>5. History(s)'
  <2>1. \A j \in 1 .. count'[s] : FALSE
    BY <1>4
  <2>2. HasSession(s) /\ HasSession(s)' /\ History(s)
    BY <1>2, <1>4, BeforeJ DEF HasSession
  <2>. QED
    BY <1>2, <1>4, <2>1, <2>2 DEF History
<1>6. HistoryTypes'
  BY <1>2 DEF JInv, HistoryTypes
<1>7. \A k \in Nat : Written(s, k) => Written(s, k)'
  BY <1>2 DEF Written
<1>8. Taken(s)' = Taken(s)
  <2>1. rcvd[s] \in Seq(Data) /\ cut[s] \in 0 .. 2
    BY BeforeJ
  <2>. QED
    BY <1>2, <1>4, <2>1 DEF Taken
<1>. QED
  BY <1>2, <1>4, <1>5, <1>6, <1>7, <1>8, QuietKeepsJ

LEMMA ReadDataKeepsJ ==
  ASSUME JInv, IInv', NEW s \in Sides, ReadData(s)
  PROVE  JInv'
<1> DEFINE got == SubSeq(mem[<<"p", s>>], 1, count[s])
<1>1. /\ pc[s] = "up" /\ Reading(s) /\ into' = [into EXCEPT ![s] = NoRead]
      /\ UNCHANGED <<conn, mem, chan, closed, count, pc, cut, wrote>>
      /\ buf' = [buf EXCEPT ![s] = buf[s]] /\ rcvd' = [rcvd EXCEPT ![s] = rcvd[s] \o got]
  BY DEF ReadData, Returns, Kept
<1>2. /\ UNCHANGED buf /\ count' = [count EXCEPT ![s] = count[s]]
      /\ pc' = [pc EXCEPT ![s] = pc[s]] /\ cut' = [cut EXCEPT ![s] = cut[s]]
  BY <1>1, BeforeJ, Zenon
<1>3. Alone(s) /\ pc'[s] = "up" /\ into'[s] = NoRead /\ cut'[s] = cut[s] /\ rcvd'[s] = rcvd[s] \o got
  <2>1. /\ pc'[s] = "up" /\ into'[s] = NoRead /\ cut'[s] = cut[s] /\ rcvd'[s] = rcvd[s] \o got
        /\ \A r \in Sides \ {s} : /\ pc'[r] = pc[r] /\ into'[r] = into[r] /\ count'[r] = count[r]
                                  /\ cut'[r] = cut[r] /\ rcvd'[r] = rcvd[r]
    BY <1>1, <1>2 DEF JInv, IInv, TypeOK, HistoryTypes
  <2>2. Alone(s)
    BY <1>1, <1>2, <2>1, AloneFacts
  <2>. QED
    BY <2>1, <2>2, <1>1, <1>2, Zenon
<1>4. /\ rcvd[s] \in Seq(Data) /\ cut[s] \in 0 .. 2
      /\ got \in Seq(Data) /\ Len(got) = count[s] /\ \A i \in 1 .. count[s] : got[i] = mem[<<"p", s>>][i]
  <2>1. mem[<<"p", s>>] \in [1 .. 2 -> Data]
    BY Names DEF JInv, IInv, TypeOK
  <2>2. rcvd[s] \in Seq(Data) /\ cut[s] \in 0 .. 2 /\ count[s] \in 0 .. 2
    BY BeforeJ
  <2>3. \A i \in 1 .. count[s] : mem[<<"p", s>>][i] \in Data
    BY <2>1, <2>2
  <2>4. /\ got \in Seq(Data) /\ Len(got) = IF 1 <= count[s] THEN count[s] - 1 + 1 ELSE 0
        /\ \A i \in 1 .. count[s] - 1 + 1 : got[i] = mem[<<"p", s>>][1 + i - 1]
    <3>1. PICK c, array : c \in 0 .. 2 /\ c = count[s] /\ array = mem[<<"p", s>>]
      BY <2>2
    <3>2. 1 \in Int /\ c \in Int /\ \A i \in 1 .. c : array[i] \in Data
      BY <2>3, <3>1
    <3>3. /\ SubSeq(array, 1, c) \in Seq(Data)
          /\ Len(SubSeq(array, 1, c)) = IF 1 <= c THEN c - 1 + 1 ELSE 0
          /\ \A i \in 1 .. c - 1 + 1 : SubSeq(array, 1, c)[i] = array[1 + i - 1]
      BY <3>2, SubSeqProperties
    <3>. QED
      BY <3>1, <3>3
  <2>5. count[s] - 1 + 1 = count[s] /\ (~(1 <= count[s]) => count[s] = 0)
    BY <2>2
  <2>6. \A i \in 1 .. count[s] : 1 + i - 1 = i
    BY <2>2
  <2>. HIDE DEF got
  <2>. QED
    BY <2>2, <2>4, <2>5, <2>6
<1>5. PICK m \in Nat, c \in 0 .. 2, d \in 0 .. 2 : m = Len(rcvd[s]) /\ c = count[s] /\ d = cut[s]
  <2>1. Len(rcvd[s]) \in Nat /\ count[s] \in 0 .. 2 /\ cut[s] \in 0 .. 2
    BY <1>4, BeforeJ
  <2>. QED
    BY <2>1, Zenon
<1>6. /\ rcvd[s] \o got \in Seq(Data) /\ Len(rcvd[s] \o got) = m + c
      /\ \A i \in 1 .. m + c : (rcvd[s] \o got)[i] = IF i <= m THEN rcvd[s][i] ELSE got[i - m]
  <2>. HIDE DEF got
  <2>. QED
    BY <1>4, <1>5, ConcatProperties
<1>7. ASSUME NEW i \in 1 .. m + c PROVE (rcvd[s] \o got)[i] = Value(Other(s), 2 + d + i)
  <2>1. CASE i <= m
    <3>1. i \in 1 .. Len(rcvd[s])
      BY <1>5, <2>1
    <3>2. rcvd[s][i] = Value(Other(s), 2 + d + i)
      BY <1>5, <3>1, BeforeJ DEF History
    <3>. HIDE DEF got
    <3>. QED
      BY <1>6, <2>1, <3>2
  <2>2. CASE ~(i <= m)
    <3>1. PICK j \in 1 .. c : i = m + j /\ i - m = j
      BY <1>5, <2>2
    <3>2. mem[<<"p", s>>][j] = Value(Other(s), 2 + d + m + j)
      BY <1>1, <1>5, <3>1, BeforeJ DEF History
    <3>3. 2 + d + m + j = 2 + d + i
      BY <3>1
    <3>4. got[j] = mem[<<"p", s>>][j]
      BY <1>4, <1>5
    <3>. HIDE DEF got
    <3>. QED
      BY <1>6, <2>2, <3>1, <3>2, <3>3, <3>4
  <2>. QED
    BY <2>1, <2>2
<1> HIDE DEF got
<1>8. /\ rcvd'[s] \in Seq(Data) /\ Len(rcvd'[s]) = m + c
      /\ \A i \in 1 .. m + c : rcvd'[s][i] = Value(Other(s), 2 + cut'[s] + i)
  BY <1>3, <1>5, <1>6, <1>7
<1>9. History(s)'
  <2>1. HasSession(s) /\ HasSession(s)' /\ History(s) /\ ~Reading(s)'
    BY <1>1, <1>3, BeforeJ DEF HasSession, Reading
  <2>. QED
    BY <1>1, <1>3, <1>8, <2>1 DEF History
<1>10. HistoryTypes'
  BY <1>1, <1>6 DEF JInv, HistoryTypes
<1>11. \A n \in Nat : Written(s, n) => Written(s, n)'
  BY <1>1 DEF Written
<1>12. Taken(s)' = Taken(s)
  <2>1. Taken(s) = 2 + d + m + c
    BY <1>1, <1>5 DEF Taken
  <2>2. Taken(s)' = 2 + d + (m + c) + 0
    BY <1>3, <1>5, <1>8 DEF Taken, Reading
  <2>. QED
    BY <2>1, <2>2
<1>. QED
  BY <1>1, <1>2, <1>3, <1>9, <1>10, <1>11, <1>12, QuietKeepsJ

LEMMA ReadEndKeepsJ ==
  ASSUME JInv, IInv', NEW s \in Sides, ReadEnd(s)
  PROVE  JInv'
<1>1. /\ pc[s] = "up" /\ Fails(s) /\ pc' = [pc EXCEPT ![s] = "ended"]
      /\ into' = [into EXCEPT ![s] = NoRead]
      /\ UNCHANGED <<conn, mem, chan, buf, closed, count, cut, wrote, rcvd>>
  BY DEF ReadEnd, Fails, GoTo, histVars
<1>2. /\ count' = [count EXCEPT ![s] = count[s]] /\ cut' = [cut EXCEPT ![s] = cut[s]]
      /\ rcvd' = [rcvd EXCEPT ![s] = rcvd[s]]
  BY <1>1, BeforeJ, Zenon
<1>3. Alone(s) /\ pc'[s] = "ended" /\ into'[s] = NoRead /\ cut'[s] = cut[s] /\ rcvd'[s] = rcvd[s]
  <2>1. /\ pc'[s] = "ended" /\ into'[s] = NoRead /\ cut'[s] = cut[s] /\ rcvd'[s] = rcvd[s]
        /\ \A r \in Sides \ {s} : /\ pc'[r] = pc[r] /\ into'[r] = into[r] /\ count'[r] = count[r]
                                  /\ cut'[r] = cut[r] /\ rcvd'[r] = rcvd[r]
    BY <1>1, <1>2 DEF JInv, IInv, TypeOK, HistoryTypes
  <2>2. Alone(s)
    BY <1>1, <1>2, <2>1, AloneFacts
  <2>. QED
    BY <2>1, <2>2, <1>1, <1>2, Zenon
<1>4. Reading(s) /\ count[s] = 0 /\ buf[s] = <<>> /\ Other(s) \in closed /\ chan[Other(s)] = <<>>
  BY <1>1 DEF Fails, Drained
<1>5. History(s)'
  <2>1. HasSession(s) /\ HasSession(s)' /\ History(s)
    BY <1>1, <1>3, BeforeJ DEF HasSession
  <2>. QED
    BY <1>1, <1>3, <1>4, <2>1 DEF History
<1>6. HistoryTypes'
  BY <1>1 DEF JInv, HistoryTypes
<1>7. \A n \in Nat : Written(s, n) => Written(s, n)'
  BY <1>1, <1>3 DEF Written
<1>8. Taken(s)' = Taken(s)
  BY <1>1, <1>3, <1>4, BeforeJ DEF Taken, Reading
<1>. QED
  BY <1>1, <1>3, <1>5, <1>6, <1>7, <1>8, QuietKeepsJ

LEMMA CloseKeepsJ ==
  ASSUME JInv, IInv', NEW s \in Sides, CloseConn(s)
  PROVE  JInv'
<1>1. /\ pc[s] \in {"up", "failed", "ended"} /\ closed' = closed \cup {s} /\ s \notin closed
      /\ UNCHANGED <<conn, mem, chan, buf, into, count, pc, cut, wrote, rcvd>>
  BY DEF CloseConn, Close, histVars
<1>2. Alone(s)
  BY <1>1, OtherSide DEF Alone
<1>3. HistoryTypes' /\ History(s)'
  <2>1. HistoryTypes /\ History(s) /\ Other(s) \in Sides /\ (Other(s) \in closed => Other(s) \in closed')
    BY <1>1, BeforeJ, OtherSide DEF JInv
  <2>. QED
    BY <1>1, <2>1 DEF HistoryTypes, History, HasSession, Reading
<1>4. Taken(s)' = Taken(s) /\ \A n \in Nat : Written(s, n) => Written(s, n)'
  BY <1>1 DEF Taken, Written, Reading
<1>. QED
  BY <1>1, <1>2, <1>3, <1>4, QuietKeepsJ

LEMMA StutterKeepsJ ==
  ASSUME JInv, IInv', UNCHANGED vars
  PROVE  JInv'
<1>1. UNCHANGED <<conn, mem, chan, buf, closed, into, count, pc, proto, trusts, cut, wrote, rcvd>>
  BY DEF vars, hoseVars
<1>2. HistoryTypes' /\ MessagesKept'
  BY <1>1 DEF JInv, HistoryTypes, MessagesKept
<1>3. ASSUME NEW s \in Sides PROVE History(s)' /\ InFlight(s)'
  <2>1. History(s)'
    BY <1>1, BeforeJ DEF History, HasSession, Reading
  <2>2. \A n : Received(s, n) => Received(s, n)'
    <3>1. \A i : Slice(Other(s), i)' = Slice(Other(s), i)
      BY <1>1 DEF Slice
    <3>2. Taken(s)' = Taken(s) /\ \A k : Written(Other(s), k)' <=> Written(Other(s), k)
      BY <1>1 DEF Taken, Written, Reading
    <3>. QED
      BY <1>1, <3>1, <3>2 DEF Received
  <2>3. InFlight(s)'
    BY <1>1, <2>2, BeforeJ DEF InFlight
  <2>. QED
    BY <2>1, <2>3
<1>. QED
  BY <1>2, <1>3 DEF JInv

LEMMA ReceiveKeepsJ ==
  ASSUME JInv, IInv', NEW s \in Sides, Receive(s), UNCHANGED sessVars
  PROVE  JInv'
<1> DEFINE o == Other(s)
           q == chan[o]
<1>1. /\ Reading(s) /\ buf[s] = <<>> /\ q # <<>>
      /\ buf' = [buf EXCEPT ![s] = Head(q)] /\ chan' = [chan EXCEPT ![o] = Tail(q)]
      /\ UNCHANGED <<conn, mem, closed, into, count, pc, cut, wrote, rcvd>>
  BY DEF Receive, Room, sessVars, histVars
<1>2. o \in Sides /\ o # s /\ Other(o) = s
  BY OtherSide
<1>3. buf'[s] = Head(q) /\ chan'[o] = Tail(q) /\ chan'[s] = chan[s] /\ buf'[o] = buf[o]
  <2>. HIDE DEF q
  <2>. QED
    BY <1>1, <1>2 DEF JInv, IInv, TypeOK
<1>4. Alone(s)
  BY <1>1, <1>2, <1>3 DEF Alone
<1>5. HistoryTypes' /\ MessagesKept'
  BY <1>1 DEF JInv, HistoryTypes, MessagesKept
<1>6. pc[s] \notin {"failed", "ended"}
  BY <1>1, BeforeJ DEF Sound, Aims, Reading
<1>7. History(s)'
  <2>1. History(s) /\ pc'[s] # "ended"
    BY <1>1, <1>6, BeforeJ
  <2>. QED
    BY <1>1, <2>1 DEF History, HasSession, Reading
<1>8. InFlight(o)'
  <2>1. \A n \in Nat : Written(s, n) => Written(s, n)'
    BY <1>1 DEF Written
  <2>. QED
    BY <1>3, <1>4, <2>1, NothingSent
<1>9. InFlight(s)'
  <2>1. PICK n \in Nat : Received(s, n)
    BY <1>6, BeforeJ DEF InFlight
  <2>2. /\ Len(q) \in Nat \ {0} /\ Head(q) = q[1] /\ Len(Tail(q)) = Len(q) - 1
        /\ \A i \in 1 .. Len(q) - 1 : Tail(q)[i] = q[i + 1]
    <3>1. q \in Seq([1 .. 2 -> Unsent])
      BY <1>2 DEF JInv, IInv, TypeOK
    <3>2. Len(Tail(q)) = Len(q) - 1 /\ \A i \in 1 .. Len(Tail(q)) : Tail(q)[i] = q[i + 1]
      BY <1>1, <3>1, HeadTailProperties
    <3>3. Len(q) \in Nat \ {0} /\ Head(q) = q[1]
      BY <1>1, <3>1
    <3>. QED
      BY <3>2, <3>3
  <2>3. PICK k \in Nat : Len(q) = k + 1
    <3>1. Len(q) - 1 \in Nat /\ Len(q) = Len(q) - 1 + 1
      <4>. HIDE DEF q
      <4>. QED
        BY <2>2
    <3>. HIDE DEF q
    <3>. QED
      BY <3>1, Zenon
  <2>4. Len(Tail(q)) = k /\ \A i \in 1 .. k : Tail(q)[i] = q[i + 1]
    <3>. HIDE DEF q
    <3>. QED
      BY <2>2, <2>3
  <2>5. (\A i \in 1 .. k + 1 : q[i] = Slice(o, n + i)) /\ Written(o, n + (k + 1)) /\ 2 * n = Taken(s) + 0
    <3>1. Len(<<>>) = 0
      OBVIOUS
    <3>2. Len(buf[s]) = 0
      BY <1>1, <3>1
    <3>. QED
      BY <2>1, <2>3, <3>2 DEF Received
  <2>6. \A i : Slice(o, i)' = Slice(o, i)
    BY <1>1 DEF Slice
  <2>7. \A i \in 1 .. Len(chan'[o]) : chan'[o][i] = Slice(o, n + 1 + i)'
    <3>1. Len(chan'[o]) = k
      BY <1>3, <2>4
    <3>2. ASSUME NEW i \in 1 .. k PROVE chan'[o][i] = Slice(o, n + 1 + i)
      <4>1. chan'[o][i] = q[i + 1]
        <5>. HIDE DEF q
        <5>. QED
          BY <1>3, <2>4
      <4>2. i + 1 \in 1 .. k + 1 /\ n + (i + 1) = n + 1 + i
        OBVIOUS
      <4>. QED
        BY <2>5, <4>1, <4>2
    <3>. QED
      BY <2>6, <3>1, <3>2
  <2>8. buf'[s] = Slice(o, n + 1)
    <3>1. 1 \in 1 .. k + 1
      OBVIOUS
    <3>. QED
      BY <1>3, <2>2, <2>5, <3>1
  <2>9. 2 * (n + 1) = Taken(s)' + Len(buf'[s])
    <3>1. Taken(s)' = Taken(s)
      BY <1>1 DEF Taken, Reading
    <3>2. Len(buf'[s]) = 2
      BY <2>8, SliceShape
    <3>3. Taken(s) = 2 * n
      <4>1. PICK m \in Nat, b \in 0 .. 2 : 2 * m = Taken(s) + b /\ b = Len(buf[s]) /\ (b = 0 <=> buf[s] = <<>>)
        BY <1>6, TakenCount
      <4>2. Taken(s) \in Nat
        BY TakenType
      <4>. QED
        BY <2>5, <4>2
    <3>. QED
      BY <3>1, <3>2, <3>3
  <2>10. Written(o, n + 1 + Len(chan[o]))'
    <3>1. Len(chan'[o]) = k /\ n + 1 + k = n + (k + 1)
      BY <1>3, <2>4
    <3>2. Written(o, n + (k + 1))'
      BY <1>1, <2>5 DEF Written
    <3>. QED
      BY <3>1, <3>2
  <2>11. Received(s, n + 1)'
    <3>1. n + 1 > 0 /\ n + 1 \in Nat
      OBVIOUS
    <3>2. buf'[s] = Slice(o, n + 1)'
      BY <2>6, <2>8
    <3>. HIDE DEF q
    <3>. QED
      BY <2>7, <2>9, <2>10, <3>1, <3>2, Zenon DEF Received
  <2>. QED
    BY <2>11 DEF InFlight
<1>. QED
  BY <1>4, <1>5, <1>7, <1>8, <1>9, SideStep

\* The units of a slice behind the first message, when they are copied: those of
\* a header on a socket, for a hose may have another's in that place by then.
LEMMA SliceUnits ==
  ASSUME JInv, NEW s \in Sides, NEW n \in Nat, n >= 2, n <= MaxMsgs[s] + 2, n = 2 => conn # "hose"
  PROVE  Unit(Slice(s, n)[1]) = Value(s, 2 * n - 1) /\ Unit(Slice(s, n)[2]) = Value(s, 2 * n)
<1>1. CASE n = 2
  <2>1. Slice(s, n) = Header(s)
    BY <1>1 DEF Slice, Content
  <2>2. Value(s, 2 * n - 1) = Header(s)[1] /\ Value(s, 2 * n) = Header(s)[2]
    BY <1>1 DEF Value
  <2>. QED
    BY <1>1, <2>1, <2>2 DEF Unit
<1>2. CASE n # 2
  <2>1. PICK k \in 1 .. MaxMsgs[s] : k = n - 2 /\ n = k + 2
    BY <1>2, ZeoliteAssumption
  <2>2. Array(s, n) = <<"msg", s, k>> /\ Content(s, n) = Msg(s, k)
    BY <2>1 DEF Array, Content
  <2>3. mem[<<"msg", s, k>>] = Msg(s, k)
    BY DEF JInv, MessagesKept
  <2>4. Unit(Slice(s, n)[1]) = Msg(s, k)[1] /\ Unit(Slice(s, n)[2]) = Msg(s, k)[2]
    BY <2>2, <2>3 DEF Slice, Unit
  <2>5. Msg(s, k)[1] = <<"data", s, 2 * k - 1>> /\ Msg(s, k)[2] = <<"data", s, 2 * k>>
    BY DEF Msg
  <2>6. /\ 2 * n - 1 \notin {3, 4} /\ 2 * n \notin {3, 4}
        /\ 2 * n - 1 - 4 = 2 * k - 1 /\ 2 * n - 4 = 2 * k
    BY <2>1, ZeoliteAssumption
  <2>7. Value(s, 2 * n - 1) = <<"data", s, 2 * k - 1>> /\ Value(s, 2 * n) = <<"data", s, 2 * k>>
    BY <2>6 DEF Value
  <2>. QED
    BY <2>4, <2>5, <2>7
<1>. QED
  BY <1>1, <1>2

\* A slice that was received was written.
LEMMA SlicesBound ==
  ASSUME JInv, NEW s \in Sides, NEW n \in Nat, NEW k \in Nat, Written(s, n + k), n >= 2
  PROVE  /\ n <= MaxMsgs[s] + 2
         /\ pc[s] \in {"readHeader", "up", "ended", "failed"}
         /\ 2 * (n + k) = 4 + Len(wrote[s])
<1>1. PICK w \in Nat : w = Len(wrote[s]) /\ w <= 2 * MaxMsgs[s]
  <2>1. Len(wrote[s]) \in Nat
    BY DEF JInv, IInv, TypeOK
  <2>2. Len(wrote[s]) <= 2 * MaxMsgs[s]
    BY BeforeJ DEF History
  <2>. QED
    BY <2>1, <2>2, Zenon
<1>2. pc[s] \in Places /\ MaxMsgs[s] \in Nat
  BY ZeoliteAssumption, BeforeJ
<1>3. CASE pc[s] \in {"readHeader", "up", "ended"}
  <2>1. 2 * (n + k) = 4 + w
    BY <1>1, <1>3 DEF Written
  <2>. QED
    BY <1>1, <1>2, <1>3, <2>1
<1>4. CASE pc[s] = "failed"
  <2>1. n + k \in {1, 2}
    BY <1>4 DEF Written
  <2>2. n = 2 /\ k = 0
    BY <2>1
  <2>3. Len(wrote[s]) = 0
    <3>1. wrote[s] = <<>>
      BY <1>4, BeforeJ DEF History, HasSession
    <3>. QED
      BY <3>1
  <2>. QED
    BY <1>2, <1>4, <2>2, <2>3
<1>5. CASE pc[s] \in {"hello", "readHello", "check", "header"}
  <2>1. n + k \in {0, 1}
    BY <1>5 DEF Written
  <2>. QED
    BY <2>1
<1>. QED
  BY <1>2, <1>3, <1>4, <1>5 DEF Places

\* The next unit that a session copies is the next of what was sent to it.
LEMMA UnitsCome ==
  ASSUME JInv, NEW s \in Sides, pc[s] = "up", Reading(s), buf[s] # <<>>
  PROVE  Unit(Head(buf[s])) = Value(Other(s), 2 + cut[s] + Len(rcvd[s]) + (count[s] + 1))
<1> DEFINE o == Other(s)
<1>1. o \in Sides
  BY OtherSide
<1>2. PICK n \in Nat, b \in 1 .. 2 : Received(s, n) /\ b = Len(buf[s]) /\ 2 * n = Taken(s) + b
  <2>1. PICK n \in Nat, b \in 0 .. 2 :
          Received(s, n) /\ b = Len(buf[s]) /\ 2 * n = Taken(s) + b /\ (b = 0 <=> buf[s] = <<>>)
    BY TakenCount
  <2>2. b \in 1 .. 2
    BY <2>1
  <2>. QED
    BY <2>1, <2>2
<1>3. PICK m \in Nat, c \in 0 .. 2, d \in 1 .. 2 :
        m = Len(rcvd[s]) /\ c = count[s] /\ d = cut[s] /\ (conn = "hose" => d = 2)
  <2>1. Len(rcvd[s]) \in Nat /\ count[s] \in 0 .. 2
    BY BeforeJ
  <2>2. cut[s] \in 1 .. 2 /\ (conn = "hose" => cut[s] = 2)
    BY BeforeJ DEF History, HasSession
  <2>. QED
    BY <2>1, <2>2
<1>4. Taken(s) = 2 + d + m + c
  BY <1>3 DEF Taken
<1>5. n >= 2 /\ (n = 2 => conn # "hose")
  <2>1. 2 * n = 2 + d + m + c + b
    BY <1>2, <1>4
  <2>2. n >= 2 /\ (d = 2 => n > 2)
    BY <2>1
  <2>. QED
    BY <1>3, <2>2
<1>6. PICK k \in Nat : Written(o, n + k)
  <2>1. Len(chan[o]) \in Nat
    BY <1>1 DEF JInv, IInv, TypeOK
  <2>2. Written(o, n + Len(chan[o]))
    BY <1>2 DEF Received
  <2>. QED
    BY <2>1, <2>2, Zenon
<1>7. n <= MaxMsgs[o] + 2
  BY <1>1, <1>5, <1>6, SlicesBound
<1>8. Unit(Slice(o, n)[1]) = Value(o, 2 * n - 1) /\ Unit(Slice(o, n)[2]) = Value(o, 2 * n)
  BY <1>1, <1>5, <1>7, SliceUnits
<1>9. CASE b = 2
  <2>1. Head(buf[s]) = Slice(o, n)[1]
    <3>1. Len(buf[s]) = 2 /\ Received(s, n)
      BY <1>2, <1>9
    <3>2. buf[s] = Slice(o, n)
      BY <3>1, Remainder
    <3>. QED
      BY <3>2, SliceShape, Zenon
  <2>2. 2 * n - 1 = 2 + d + m + (c + 1)
    BY <1>2, <1>4, <1>9
  <2>. QED
    BY <1>3, <1>8, <2>1, <2>2
<1>10. CASE b = 1
  <2>1. Head(buf[s]) = Slice(o, n)[2]
    <3>1. Len(buf[s]) = 1 /\ Received(s, n)
      BY <1>2, <1>10
    <3>2. buf[s] = Tail(Slice(o, n))
      BY <3>1, Remainder
    <3>. QED
      BY <3>2, SliceShape, Zenon
  <2>2. 2 * n = 2 + d + m + (c + 1)
    BY <1>2, <1>4, <1>10
  <2>. QED
    BY <1>3, <1>8, <2>1, <2>2
<1>. QED
  BY <1>9, <1>10

LEMMA CopyKeepsJ ==
  ASSUME JInv, IInv', NEW s \in Sides, Copy(s), UNCHANGED sessVars
  PROVE  JInv'
<1> DEFINE o == Other(s)
<1>1. PICK a \in Addresses, c \in 1 .. 2, u \in Data :
        /\ c = count[s] + 1 /\ u = Unit(Head(buf[s]))
        /\ mem' = [mem EXCEPT ![a] = [mem[a] EXCEPT ![c] = u]]
        /\ pc[s] \in {"readHello", "readHeader", "up"}
        /\ a = CASE pc[s] = "readHello" -> <<"rbuf", s>>
                 [] pc[s] = "readHeader" -> <<"header", s>>
                 [] OTHER -> <<"p", s>>
  BY CopyStep DEF JInv
<1>2. /\ Reading(s) /\ buf[s] # <<>> /\ buf' = [buf EXCEPT ![s] = Tail(buf[s])]
      /\ count' = [count EXCEPT ![s] = c]
      /\ UNCHANGED <<conn, chan, closed, into, pc, cut, wrote, rcvd>>
  BY <1>1 DEF Copy, Room, sessVars, histVars
<1>3. o \in Sides /\ o # s /\ Other(o) = s
  BY OtherSide
<1>4. /\ buf'[s] = Tail(buf[s]) /\ buf'[o] = buf[o] /\ count'[s] = c /\ count'[o] = count[o]
      /\ \A b \in Addresses : b # a => mem'[b] = mem[b]
      /\ \A j \in 1 .. 2 : mem'[a][j] = IF j = c THEN u ELSE mem[a][j]
  <2>1. mem[a] \in [1 .. 2 -> Data]
    BY DEF JInv, IInv, TypeOK
  <2>2. \A j \in 1 .. 2 : [mem[a] EXCEPT ![c] = u][j] = IF j = c THEN u ELSE mem[a][j]
    BY <2>1
  <2>3. mem'[a] = [mem[a] EXCEPT ![c] = u] /\ \A b \in Addresses : b # a => mem'[b] = mem[b]
    BY <1>1 DEF JInv, IInv, TypeOK
  <2>4. /\ buf'[s] = Tail(buf[s]) /\ buf'[o] = buf[o] /\ count'[s] = c /\ count'[o] = count[o]
    BY <1>2, <1>3 DEF JInv, IInv, TypeOK
  <2>. QED
    BY <2>2, <2>3, <2>4, Zenon
<1>5. /\ <<"p", o>> # a /\ <<"rbuf", o>> # a /\ <<"header", o>> # a
      /\ \A r \in Sides : \A k \in 1 .. MaxMsgs[r] : <<"msg", r, k>> # a
  BY <1>1, <1>3
<1>6. Alone(s)
  <2>1. mem'[<<"p", o>>] = mem[<<"p", o>>] /\ mem'[<<"rbuf", o>>] = mem[<<"rbuf", o>>]
    BY <1>3, <1>4, <1>5, Names
  <2>. QED
    BY <1>2, <1>3, <1>4, <2>1 DEF Alone
<1>7. HistoryTypes'
  BY <1>2 DEF JInv, HistoryTypes
<1>8. MessagesKept'
  <2>1. ASSUME NEW r \in Sides PROVE \A k \in 1 .. MaxMsgs[r] : mem'[<<"msg", r, k>>] = Msg(r, k)
    BY <1>4, <1>5, Names DEF JInv, MessagesKept
  <2>2. ASSUME NEW r \in Sides, pc[r] \in {"hello", "readHello", "check", "header"}
        PROVE  mem'[<<"header", r>>] = Header(r)
    <3>1. r = s => a = <<"rbuf", s>>
      BY <1>1, <2>2
    <3>2. r = s \/ r = o
      BY DEF Sides, Other
    <3>3. <<"header", r>> # a
      BY <1>5, <3>1, <3>2
    <3>. QED
      BY <1>4, <2>2, <3>3, Names DEF JInv, MessagesKept
  <2>. QED
    BY <1>2, <2>1, <2>2 DEF MessagesKept
<1>9. InFlight(o)'
  <2>1. \A n \in Nat : Written(s, n) => Written(s, n)'
    BY <1>2 DEF Written
  <2>. QED
    BY <1>2, <1>6, <2>1, NothingSent
<1>10. PICK n \in Nat : Received(s, n)
  BY <1>1, BeforeJ DEF InFlight
<1>11. Taken(s)' = Taken(s) + 1
  <2>1. PICK x \in Nat, y \in Nat, z \in Nat : x = count[s] /\ y = cut[s] /\ z = Len(rcvd[s])
    <3>1. count[s] \in Nat /\ cut[s] \in Nat /\ Len(rcvd[s]) \in Nat
      BY BeforeJ
    <3>. QED
      BY <3>1, Zenon
  <2>2. count'[s] = x + 1 /\ pc'[s] = pc[s] /\ Reading(s)' /\ cut'[s] = y /\ Len(rcvd'[s]) = z
    BY <1>1, <1>2, <1>4, <2>1 DEF Reading
  <2>3. CASE pc[s] = "readHello"
    BY <2>1, <2>2, <2>3 DEF Taken
  <2>4. CASE pc[s] = "readHeader"
    BY <2>1, <2>2, <2>4 DEF Taken
  <2>5. CASE pc[s] = "up"
    <3>1. Taken(s) = 2 + y + z + x
      BY <1>2, <2>1, <2>5 DEF Taken
    <3>2. Taken(s)' = 2 + y + z + (x + 1)
      BY <2>2, <2>5 DEF Taken
    <3>. QED
      BY <3>1, <3>2
  <2>. QED
    BY <1>1, <2>3, <2>4, <2>5
<1>12. InFlight(s)'
  <2>1. \A i : Slice(o, i)' = Slice(o, i)
    BY <1>2 DEF Slice
  <2>2. \A k : Written(o, k)' <=> Written(o, k)
    BY <1>2 DEF Written
  <2>3. Len(buf[s]) \in 1 .. 2
    <3>1. Len(buf[s]) \in 0 .. 2 /\ Len(buf[s]) # 0
      BY <1>2, <1>10, Remainder
    <3>. QED
      BY <3>1
  <2>4. /\ n > 0 /\ Len(buf[s]) = Len(Tail(buf[s])) + 1 /\ Len(Tail(buf[s])) \in Nat
        /\ Tail(buf[s]) = <<>> \/ Tail(buf[s]) = Tail(Slice(o, n))
    <3>1. CASE Len(buf[s]) = 1
      <4>1. n > 0 /\ buf[s] = Tail(Slice(o, n))
        BY <1>10, <3>1, Remainder
      <4>2. Tail(buf[s]) = <<>> /\ Len(<<>>) = 0
        BY <4>1, SliceShape, Zenon
      <4>3. Len(Tail(buf[s])) = 0
        BY <4>2
      <4>. QED
        BY <3>1, <4>1, <4>2, <4>3
    <3>2. CASE Len(buf[s]) = 2
      <4>1. n > 0 /\ buf[s] = Slice(o, n)
        BY <1>10, <3>2, Remainder
      <4>2. Tail(buf[s]) = Tail(Slice(o, n)) /\ Len(Tail(buf[s])) = 1
        BY <4>1, SliceShape, Zenon
      <4>. QED
        BY <3>2, <4>1, <4>2
    <3>. QED
      BY <2>3, <3>1, <3>2
  <2>5. 2 * n = Taken(s)' + Len(buf'[s])
    <3>1. 2 * n = Taken(s) + Len(buf[s])
      BY <1>10 DEF Received
    <3>2. Taken(s) \in Nat
      BY TakenType
    <3>3. Len(buf'[s]) = Len(Tail(buf[s]))
      BY <1>4
    <3>. QED
      BY <1>11, <2>4, <3>1, <3>2, <3>3
  <2>6. Received(s, n)'
    <3>1. PICK k : k = Len(chan[o])
      OBVIOUS
    <3>2. (\A i \in 1 .. k : chan[o][i] = Slice(o, n + i)) /\ Written(o, n + k)
      BY <1>10, <3>1 DEF Received
    <3>3. chan'[o] = chan[o] /\ Len(chan'[o]) = k
      BY <1>2, <3>1
    <3>4. (\A i \in 1 .. k : chan'[o][i] = Slice(o, n + i)') /\ Written(o, n + k)'
      BY <2>1, <2>2, <3>2, <3>3
    <3>5. buf'[s] = <<>> \/ (n > 0 /\ buf'[s] = Tail(Slice(o, n))')
      BY <1>4, <2>1, <2>4
    <3>. QED
      BY <2>5, <3>3, <3>4, <3>5 DEF Received
  <2>. QED
    BY <2>6 DEF InFlight
<1>13. History(s)'
  <2>1. History(s)
    BY BeforeJ
  <2>2. pc'[s] # "check" /\ pc'[s] # "ended" /\ (HasSession(s)' <=> HasSession(s))
    BY <1>1, <1>2 DEF HasSession
  <2>3. ASSUME pc[s] = "up", NEW j \in 1 .. c
        PROVE  mem'[<<"p", s>>][j] = Value(o, 2 + cut[s] + Len(rcvd[s]) + j)
    <3>1. a = <<"p", s>> /\ j \in 1 .. 2
      BY <1>1, <2>3
    <3>2. CASE j = c
      <4>1. u = Value(o, 2 + cut[s] + Len(rcvd[s]) + c)
        BY <1>1, <1>2, <2>3, UnitsCome
      <4>. QED
        BY <1>4, <3>1, <3>2, <4>1
    <3>3. CASE j # c
      <4>1. j \in 1 .. count[s]
        BY <1>1, <3>3, BeforeJ
      <4>2. mem[<<"p", s>>][j] = Value(o, 2 + cut[s] + Len(rcvd[s]) + j)
        BY <1>2, <2>1, <2>3, <4>1 DEF History
      <4>. QED
        BY <1>4, <3>1, <3>3, <4>2
    <3>. QED
      BY <3>2, <3>3
  <2>. QED
    BY <1>2, <1>4, <2>1, <2>2, <2>3 DEF History, Reading
<1>. QED
  BY <1>6, <1>7, <1>8, <1>9, <1>12, <1>13, SideStep

LEMMA StepJ == JInv /\ [Next]_vars => JInv'
<1> SUFFICES ASSUME JInv, [Next]_vars PROVE JInv'
  OBVIOUS
<1>1. IInv'
  BY StepOK DEF JInv
<1>2. ASSUME NEW s \in Sides, NewSession(s) PROVE JInv'
  <2>1. CASE (Receive(s) \/ Copy(s)) /\ UNCHANGED sessVars
    BY <1>1, <2>1, ReceiveKeepsJ, CopyKeepsJ
  <2>. QED
    BY <1>1, <1>2, <2>1, SendHelloKeepsJ, HandshakeKeepsJ, SendHeaderKeepsJ, ReadHeaderKeepsJ
      DEF NewSession
<1>3. ASSUME NEW s \in Sides, Session(s) PROVE JInv'
  BY <1>1, <1>3, SendDataKeepsJ, BeginDataKeepsJ, ReadDataKeepsJ, ReadEndKeepsJ, CloseKeepsJ
    DEF Session
<1>4. CASE UNCHANGED vars
  BY <1>1, <1>4, StutterKeepsJ
<1>. QED
  BY <1>2, <1>3, <1>4 DEF Next

\* What was sent to a session: the rest of the header and the data.
LEMMA StreamUnits ==
  ASSUME JInv, NEW s \in Sides, NEW d \in 1 .. 2, d = cut[s]
  PROVE  LET o == Other(s)
         IN  /\ Stream(o) \in Seq(Data) /\ Len(Stream(o)) = 2 + Len(wrote[o]) - d
             /\ \A i \in 1 .. 2 + Len(wrote[o]) - d : Stream(o)[i] = Value(o, 2 + d + i)
<1> DEFINE o == Other(s)
           all == Header(o) \o wrote[o]
<1>1. o \in Sides /\ Other(o) = s
  BY OtherSide
<1>2. PICK w \in Nat : w = Len(wrote[o])
  BY <1>1 DEF JInv, IInv, TypeOK
<1>3. /\ Header(o) \in Seq(Data) /\ Len(Header(o)) = 2 /\ wrote[o] \in Seq(Data)
  <2>1. Header(o) \in [1 .. 2 -> Data]
    BY <1>1, DataTypes
  <2>2. wrote[o] \in Seq(Data)
    BY <1>1 DEF JInv, IInv, TypeOK
  <2>3. Len(Header(o)) = 2
    BY DEF Header
  <2>. QED
    BY <2>1, <2>2, <2>3, PairIsSequence
<1>4. /\ all \in Seq(Data) /\ Len(all) = 2 + w
      /\ \A i \in 1 .. 2 + w : all[i] = IF i <= 2 THEN Header(o)[i] ELSE wrote[o][i - 2]
  <2>1. /\ all \in Seq(Data) /\ Len(all) = Len(Header(o)) + Len(wrote[o])
        /\ \A i \in 1 .. Len(Header(o)) + Len(wrote[o]) :
              all[i] = IF i <= Len(Header(o)) THEN Header(o)[i] ELSE wrote[o][i - Len(Header(o))]
    BY <1>3, ConcatProperties
  <2>. HIDE DEF all
  <2>. QED
    BY <1>2, <1>3, <2>1
<1>5. Stream(o) = SubSeq(all, d + 1, 2 + w)
  BY <1>1, <1>2 DEF Stream
<1> HIDE DEF all
<1>6. \A i \in d + 1 .. 2 + w : all[i] \in Data
  <2>1. \A i \in d + 1 .. 2 + w : i \in 1 .. Len(all)
    BY <1>4
  <2>. QED
    BY <1>4, <2>1
<1>7. /\ Stream(o) \in Seq(Data)
      /\ Len(Stream(o)) = IF d + 1 <= 2 + w THEN 2 + w - (d + 1) + 1 ELSE 0
      /\ \A i \in 1 .. 2 + w - (d + 1) + 1 : Stream(o)[i] = all[d + 1 + i - 1]
  <2>1. d + 1 \in Int /\ 2 + w \in Int
    OBVIOUS
  <2>2. /\ SubSeq(all, d + 1, 2 + w) \in Seq(Data)
        /\ Len(SubSeq(all, d + 1, 2 + w)) = IF d + 1 <= 2 + w THEN 2 + w - (d + 1) + 1 ELSE 0
        /\ \A i \in 1 .. 2 + w - (d + 1) + 1 : SubSeq(all, d + 1, 2 + w)[i] = all[d + 1 + i - 1]
    BY <1>6, <2>1, SubSeqProperties
  <2>. QED
    BY <1>5, <2>2, Zenon
<1>8. 2 + w - (d + 1) + 1 = 2 + w - d /\ (~(d + 1 <= 2 + w) => 2 + w - d = 0)
  OBVIOUS
<1>9. ASSUME NEW i \in 1 .. 2 + w - d PROVE Stream(o)[i] = Value(o, 2 + d + i)
  <2>1. Stream(o)[i] = all[d + i] /\ d + i \in 1 .. 2 + w
    <3>1. d + 1 + i - 1 = d + i /\ d + i \in 1 .. 2 + w
      OBVIOUS
    <3>. QED
      BY <1>7, <1>8, <3>1
  <2>2. CASE d + i = 2
    <3>1. all[2] = Header(o)[2] /\ Value(o, 4) = Header(o)[2]
      BY <1>4 DEF Value
    <3>2. 2 + d + i = 4
      BY <2>2
    <3>. QED
      BY <2>1, <2>2, <3>1, <3>2
  <2>3. CASE d + i > 2
    <3>1. PICK j \in 1 .. w : j = d + i - 2 /\ d + i = j + 2
      BY <2>3
    <3>2. all[j + 2] = wrote[o][j]
      <4>1. ~(j + 2 <= 2) /\ j + 2 \in 1 .. 2 + w /\ j + 2 - 2 = j
        OBVIOUS
      <4>. QED
        BY <1>4, <4>1
    <3>3. wrote[o][j] = <<"data", o, j>>
      BY <1>1, <1>2 DEF JInv, History
    <3>4. 2 + d + i \notin {3, 4} /\ 2 + d + i - 4 = j
      BY <3>1
    <3>. QED
      BY <2>1, <3>1, <3>2, <3>3, <3>4 DEF Value
  <2>4. d + i = 2 \/ d + i > 2
    OBVIOUS
  <2>. QED
    BY <2>2, <2>3, <2>4
<1>. QED
  BY <1>2, <1>7, <1>8, <1>9

LEMMA JInvIsOrdered == JInv => InOrder
<1> SUFFICES ASSUME JInv, NEW s \in Sides, HasSession(s)
             PROVE  /\ IsPrefix(rcvd[s], Stream(Other(s)))
                    /\ pc[s] = "ended" => rcvd[s] = Stream(Other(s))
  BY DEF InOrder
<1> DEFINE o == Other(s)
<1>1. o \in Sides /\ Other(o) = s /\ pc[s] \in {"up", "ended"}
  BY OtherSide DEF HasSession
<1>2. PICK d \in 1 .. 2, m \in Nat, w \in Nat : d = cut[s] /\ m = Len(rcvd[s]) /\ w = Len(wrote[o])
  <2>1. cut[s] \in 1 .. 2
    BY BeforeJ DEF History
  <2>2. Len(rcvd[s]) \in Nat
    BY BeforeJ
  <2>3. Len(wrote[o]) \in Nat
    BY <1>1 DEF JInv, IInv, TypeOK
  <2>. QED
    BY <2>1, <2>2, <2>3, Zenon
<1>3. PICK c \in Nat : Taken(s) = 2 + d + m + c /\ (pc[s] = "ended" => c = 0)
  <2>1. count[s] \in Nat /\ (pc[s] = "ended" => ~Reading(s))
    BY BeforeJ DEF Sound, Aims, Reading
  <2>2. PICK c \in Nat : c = (IF Reading(s) THEN count[s] ELSE 0) /\ (pc[s] = "ended" => c = 0)
    BY <2>1
  <2>. QED
    BY <1>1, <1>2, <2>2 DEF Taken
<1>4. PICK n \in Nat, b \in 0 .. 2 :
        Received(s, n) /\ b = Len(buf[s]) /\ 2 * n = Taken(s) + b /\ (b = 0 <=> buf[s] = <<>>)
  BY <1>1, TakenCount
<1>5. PICK k \in Nat : k = Len(chan[o]) /\ Written(o, n + k) /\ (chan[o] = <<>> => k = 0)
  <2>1. Len(chan[o]) \in Nat /\ (chan[o] = <<>> => Len(chan[o]) = 0)
    BY <1>1 DEF JInv, IInv, TypeOK
  <2>2. Written(o, n + Len(chan[o]))
    BY <1>4 DEF Received
  <2>. QED
    BY <2>1, <2>2, Zenon
<1>6. 2 * n = 2 + d + m + c + b /\ n >= 2
  <2>1. 2 * n = 2 + d + m + c + b
    BY <1>3, <1>4
  <2>. QED
    BY <2>1
<1>7. 2 * (n + k) = 4 + w
  BY <1>1, <1>2, <1>5, <1>6, SlicesBound
<1>8. m <= 2 + w - d
  BY <1>6, <1>7
<1>9. pc[s] = "ended" => m = 2 + w - d
  <2> SUFFICES ASSUME pc[s] = "ended" PROVE m = 2 + w - d
    OBVIOUS
  <2>1. k = 0 /\ b = 0 /\ c = 0
    BY <1>3, <1>4, <1>5, BeforeJ DEF History
  <2>. QED
    BY <1>6, <1>7, <2>1
<1>10. /\ Stream(o) \in Seq(Data) /\ Len(Stream(o)) = 2 + w - d
       /\ \A i \in 1 .. 2 + w - d : Stream(o)[i] = Value(o, 2 + d + i)
  BY <1>2, StreamUnits
<1>11. rcvd[s] \in Seq(Data) /\ \A i \in 1 .. m : rcvd[s][i] = Value(o, 2 + d + i)
  BY <1>2, BeforeJ DEF History
<1>12. IsPrefix(rcvd[s], Stream(o))
  <2> DEFINE first == SubSeq(Stream(o), 1, m)
  <2>1. SubSeq(rcvd[s], 1, m) = rcvd[s]
    BY <1>2, <1>11, SubSeqFull
  <2>2. \A i \in 1 .. m : i \in 1 .. 2 + w - d /\ 1 + i - 1 = i
    BY <1>8
  <2>3. ASSUME NEW i \in 1 .. m PROVE Stream(o)[i] \in Data /\ Stream(o)[i] = rcvd[s][i]
    <3>1. i \in 1 .. Len(rcvd[s]) /\ Stream(o)[i] = rcvd[s][i]
      BY <1>2, <1>10, <1>11, <2>2
    <3>2. rcvd[s][i] \in Data
      BY <1>11, <3>1
    <3>. QED
      BY <3>1, <3>2
  <2>4. /\ first \in Seq(Data) /\ Len(first) = IF 1 <= m THEN m - 1 + 1 ELSE 0
        /\ \A i \in 1 .. m - 1 + 1 : first[i] = Stream(o)[1 + i - 1]
    BY <2>3, SubSeqProperties
  <2>5. m - 1 + 1 = m /\ (~(1 <= m) => m = 0)
    OBVIOUS
  <2> HIDE DEF first
  <2>6. Len(first) = m /\ \A i \in 1 .. m : first[i] = rcvd[s][i]
    BY <2>2, <2>3, <2>4, <2>5
  <2>7. first = rcvd[s]
    BY <1>2, <1>11, <2>4, <2>6, SeqEqual
  <2>8. Len(rcvd[s]) <= Len(Stream(o))
    BY <1>2, <1>8, <1>10
  <2>. QED
    BY <1>2, <2>1, <2>7, <2>8 DEF IsPrefix, first
<1>13. pc[s] = "ended" => rcvd[s] = Stream(o)
  <2> SUFFICES ASSUME pc[s] = "ended" PROVE rcvd[s] = Stream(o)
    OBVIOUS
  <2>1. m = 2 + w - d
    BY <1>9
  <2>2. Len(rcvd[s]) = Len(Stream(o)) /\ \A i \in 1 .. Len(rcvd[s]) : rcvd[s][i] = Stream(o)[i]
    BY <1>2, <1>10, <1>11, <2>1
  <2>. QED
    BY <1>10, <1>11, <2>2, SeqEqual
<1>. QED
  BY <1>12, <1>13

\* What a session reads is what the other has sent, once and in order, whatever
\* the reads have room for and however much a channel holds (hose.go:21-57); a
\* session that reports the end has read everything.
THEOREM SessionsKeepOrder == Spec => []InOrder
BY InitJ, StepJ, JInvIsOrdered, PTL DEF Spec
=============================================================================
