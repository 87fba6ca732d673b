------------------------------- MODULE Zeolite -------------------------------
(***************************************************************************)
(* go/2zeo/zeolite.go: two calls of NewSession on the two ends of a        *)
(* connection, and the data the sessions exchange afterwards.  Both send a *)
(* first message (protocol and public key: unit 1; the signed ephemeral    *)
(* key: unit 2) and read the other's, check it, and exchange the headers   *)
(* of their encrypted streams.  Keys and ciphertext are names of who made  *)
(* them; verification succeeds for what the other side signed.             *)
(*                                                                         *)
(* NewSession writes the header from the slice its encoder keeps, and      *)
(* reads the other's header into that same slice.                          *)
(***************************************************************************)
EXTENDS Hose, SequencesExt

CONSTANT MaxMsgs   \* bound: messages each side sends over its session

ASSUME ZeoliteAssumption == MaxMsgs \in [Sides -> Nat]

VARIABLES
  pc,     \* where each side is
  proto,  \* the protocol each side speaks
  trusts, \* the sides whose trust function accepts the other's key
  dec,    \* the header each side's decoder was made with
  cut,    \* history: how much of the other's header each side read
  wrote,  \* history: the units each side has sent over its session
  rcvd    \* history: the units each side has read from it

vars == <<hoseVars, pc, proto, trusts, dec, cut, wrote, rcvd>>
histVars == <<proto, trusts, wrote, rcvd>>

Hello(s) == <<<<"id", s>>, <<"eph", s>>>>
Header(s) == <<<<"header1", s>>, <<"header2", s>>>>
Msg(s, k) == <<<<"data", s, 2 * k - 1>>, <<"data", s, 2 * k>>>>
Zero == <<<<"zero", 0>>, <<"zero", 0>>>>

GoTo(s, l) == pc' = [pc EXCEPT ![s] = l]

-----------------------------------------------------------------------------
(* NewSession *)

SendHello_ReadFirst(s) ==  \* mutant: reads before it has written
  /\ pc[s] = "hello" /\ Begin(s, <<"rbuf", s>>, 2) /\ GoTo(s, "readHello")
  /\ UNCHANGED <<conn, mem, chan, buf, closed, dec, cut, histVars>>

SendHello(s) ==
  /\ pc[s] = "hello"
  /\ Write(s, <<"hello", s>>)
  /\ Begin(s, <<"rbuf", s>>, 2)
  /\ GoTo(s, "readHello")
  /\ UNCHANGED <<conn, mem, buf, closed, dec, cut, histVars>>

\* A socket's Write returns an error.  A half's does so only when it has closed
\* its own channel.
SendFails(s) ==
  /\ pc[s] \in {"hello", "header"} /\ conn = "socket"
  /\ GoTo(s, "failed")
  /\ UNCHANGED <<hoseVars, dec, cut, histVars>>

\* The number of bytes that were read is ignored.
ReadHello(s) ==
  /\ pc[s] = "readHello"
  /\ Returns(s)
  /\ GoTo(s, "check")
  /\ UNCHANGED <<dec, cut, histVars>>

ReadFails(s) ==
  /\ pc[s] \in {"readHello", "readHeader"}
  /\ Fails(s)
  /\ GoTo(s, "failed")
  /\ UNCHANGED <<dec, cut, histVars>>

\* SignOpen: unit 2 is what the owner of the key in unit 1 signed.
SignOpen_Any(hello) == TRUE  \* mutant: the signature is not opened
SignOpen(hello) == hello[2] = <<"eph", hello[1][2]>>

\* The protocol, the trust function and the signature.
Check(s) ==
  /\ pc[s] = "check"
  /\ GoTo(s, IF /\ proto[s] = proto[Other(s)]
                /\ s \in trusts
                /\ SignOpen(mem[<<"rbuf", s>>])
               THEN "header" ELSE "failed")
  /\ UNCHANGED <<hoseVars, dec, cut, histVars>>

SendHeader(s) ==
  /\ pc[s] = "header"
  /\ Write(s, <<"header", s>>)
  /\ Begin(s, <<"header", s>>, 2)
  /\ GoTo(s, "readHeader")
  /\ UNCHANGED <<conn, mem, buf, closed, dec, cut, histVars>>

DecoderHeader_Own(s) == Header(s)  \* mutant: the encoder's header
DecoderHeader(s) == mem[<<"header", s>>]

\* MakeSecretStreamXCPDecoder
ReadHeader(s) ==
  /\ pc[s] = "readHeader"
  /\ Returns(s)
  /\ dec' = [dec EXCEPT ![s] = DecoderHeader(s)]
  /\ cut' = [cut EXCEPT ![s] = count[s]]
  /\ GoTo(s, "up")
  /\ UNCHANGED histVars

-----------------------------------------------------------------------------
(* The sessions.  The encoder writes memory of its own each time. *)

SendData(s) ==
  LET k == Len(wrote[s]) \div 2 + 1
  IN  /\ pc[s] = "up" /\ k <= MaxMsgs[s]
      /\ Write(s, <<"msg", s, k>>)
      /\ wrote' = [wrote EXCEPT ![s] = @ \o Msg(s, k)]
      /\ UNCHANGED <<conn, mem, buf, closed, into, count, pc, proto, trusts, dec, cut, rcvd>>

\* The decoder reads what it needs, which need not be what was written at once.
BeginData(s) ==
  /\ pc[s] = "up" /\ ~Reading(s)
  /\ \E n \in 1 .. 2 : Begin(s, <<"p", s>>, n)
  /\ UNCHANGED <<conn, mem, chan, buf, closed, pc, dec, cut, histVars>>

ReadData(s) ==
  /\ pc[s] = "up"
  /\ Returns(s)
  /\ rcvd' = [rcvd EXCEPT ![s] = @ \o SubSeq(mem[<<"p", s>>], 1, count[s])]
  /\ UNCHANGED <<pc, proto, trusts, dec, cut, wrote>>

ReadEnd(s) ==
  /\ pc[s] = "up"
  /\ Fails(s)
  /\ GoTo(s, "ended")
  /\ UNCHANGED <<dec, cut, histVars>>

\* The caller closes the connection after its session, or when it got none.
CloseConn(s) ==
  /\ pc[s] \in {"up", "failed", "ended"}
  /\ Close(s)
  /\ UNCHANGED <<pc, dec, cut, histVars>>

-----------------------------------------------------------------------------
Init ==
  /\ conn \in {"hose", "socket"}
  /\ mem = [a \in {<<k, s>> : k \in {"hello", "rbuf", "header", "p"}, s \in Sides}
                 \cup UNION {{<<"msg", s, k>> : k \in 1 .. MaxMsgs[s]} : s \in Sides} |->
              CASE a[1] = "hello" -> Hello(a[2])
                [] a[1] = "header" -> Header(a[2])
                [] a[1] = "msg" -> Msg(a[2], a[3])
                [] OTHER -> Zero]
  /\ chan = [s \in Sides |-> <<>>] /\ buf = [s \in Sides |-> <<>>]
  /\ closed = {}
  /\ into = [s \in Sides |-> NoRead] /\ count = [s \in Sides |-> 0]
  /\ pc = [s \in Sides |-> "hello"]
  /\ proto \in {<<"zeolite2", "zeolite2">>, <<"zeolite1", "zeolite2">>}
  /\ trusts \in SUBSET Sides
  /\ dec = [s \in Sides |-> Zero] /\ cut = [s \in Sides |-> 0]
  /\ wrote = [s \in Sides |-> <<>>] /\ rcvd = [s \in Sides |-> <<>>]

sessVars == <<pc, dec, cut, histVars>>

NewSession(s) ==
  \/ SendHello(s) \/ ReadHello(s) \/ ReadFails(s) \/ Check(s)
  \/ SendHeader(s) \/ SendFails(s) \/ ReadHeader(s)
  \/ (Receive(s) \/ Copy(s)) /\ UNCHANGED sessVars

Session(s) == SendData(s) \/ BeginData(s) \/ ReadData(s) \/ ReadEnd(s) \/ CloseConn(s)

Next == \E s \in Sides : NewSession(s) \/ Session(s)

Spec == Init /\ [][Next]_vars

\* Both calls of NewSession run; nobody has to use or close its session.
FairSpec == Spec /\ \A s \in Sides : WF_vars(NewSession(s))

-----------------------------------------------------------------------------
(* Properties *)

Returned(s) == pc[s] \in {"up", "failed", "ended"}
HasSession(s) == pc[s] \in {"up", "ended"}

\* A session is with the key its caller trusts, for the whole signed ephemeral
\* key of the same peer: a first message that was read in part makes none.
Authentic ==
  \A s \in Sides : HasSession(s) =>
    /\ s \in trusts /\ proto[s] = proto[Other(s)]
    /\ mem[<<"rbuf", s>>] = Hello(Other(s))

Stream(s) == SubSeq(Header(s) \o wrote[s], cut[Other(s)] + 1, 2 + Len(wrote[s]))

\* What a session reads is what the other has sent, in order and once, however
\* much each read has room for; it begins with what is left of a header that
\* was read in part.  The end is reported only after everything was read.
InOrder ==
  \A s \in Sides : HasSession(s) =>
    /\ IsPrefix(rcvd[s], Stream(Other(s)))
    /\ pc[s] = "ended" => rcvd[s] = Stream(Other(s))

\* zeolite.go:116 says "exchange header": each side's decoder is made with the
\* other's header.
HeadersExchanged ==
  \A s \in Sides : conn = "hose" /\ HasSession(s) => dec[s] = Header(Other(s))
=============================================================================
