--------------------------- MODULE NetServer_proofs ---------------------------
(***************************************************************************)
(* Proofs about NetServer, for any number of clients, descriptors and      *)
(* bytes: the server is an instance of the event loop, its clients get     *)
(* their own bytes back, and accept() is called only when it succeeds.     *)
(***************************************************************************)
EXTENDS NetServer, SequenceTheorems, TLAPS

ELP == INSTANCE EventLoop_proofs WITH
         kernel <- Kernel, ErrorHandler <- "NULL", HandlersDelete <- FALSE,
         Events <- {"IN", "HUP", "ERR"}

Live == DOMAIN home

-----------------------------------------------------------------------------
(* What is known of the loop. *)

LEMMA LoopAssumed == ELP!LoopAssumption
BY NetAssumption DEF ELP!LoopAssumption

LEMMA LoopInitOK == EL!Init => ELP!IInv
<1>1. EL!Init => ELP!Init
  BY DEF EL!Init, ELP!Init, EL!Slot, ELP!Slot
<1> QED BY <1>1, LoopAssumed, ELP!InitInv

\* The loop's invariant is kept by every step that is one of the loop.
LEMMA LoopStepOK == ELP!IInv /\ [EL!Next]_(EL!vars) => ELP!IInv'
<1>a. \A k : EL!DelAt(k) => ELP!DelAt(k)
  BY DEF EL!DelAt, EL!FreeAll, EL!DropAt, EL!RemoveAt, EL!Restrict, EL!live,
         ELP!DelAt, ELP!FreeAll, ELP!DropAt, ELP!RemoveAt, ELP!Restrict, ELP!live
<1>b. \A S : EL!FreeAll(S) => ELP!FreeAll(S)
  BY DEF EL!FreeAll, EL!Restrict, EL!live, ELP!FreeAll, ELP!Restrict, ELP!live
<1>c. EL!Range(coros) = ELP!Range(coros)
  BY DEF EL!Range, ELP!Range
<1>1. EL!LoopStep => ELP!LoopStep
  BY <1>a, <1>b, <1>c
     DEF EL!LoopStep, EL!Poll, EL!Skip, EL!Resume, EL!HangUp, EL!UnknownEvent, EL!EndPass,
         EL!Scanning, EL!First, EL!Current, EL!HungUp, EL!GoesOn,
         ELP!LoopStep, ELP!Poll, ELP!Skip, ELP!Resume, ELP!HangUp, ELP!UnknownEvent,
         ELP!EndPass, ELP!Scanning, ELP!First, ELP!Current, ELP!HungUp, ELP!GoesOn
<1>2. EL!HandlerStep => ELP!HandlerStep
  <2>1. EL!Return => ELP!Return
    BY <1>a DEF EL!Return, EL!Yield, EL!Finish, EL!Error, EL!SwitchBack, EL!Goes, EL!Stays,
                EL!InHandler, EL!Current, ELP!Return, ELP!Yield, ELP!Finish, ELP!Error,
                ELP!SwitchBack, ELP!Goes, ELP!Stays, ELP!InHandler, ELP!Current
  <2>2. EL!Register => ELP!Register
    BY DEF EL!Register, EL!AddFd, EL!Slot, EL!InHandler, EL!Current, EL!live,
           ELP!Register, ELP!AddFd, ELP!Slot, ELP!InHandler, ELP!Current, ELP!live
  <2>3. EL!Read \/ EL!Stop => ELP!Read \/ ELP!Stop
    BY DEF EL!Read, EL!Stop, EL!InHandler, EL!Current,
           ELP!Read, ELP!Stop, ELP!InHandler, ELP!Current
  <2>4. ~EL!Unregister
    BY DEF EL!Unregister
  <2> QED BY <2>1, <2>2, <2>3, <2>4 DEF EL!HandlerStep, ELP!HandlerStep
<1>3. EL!Happens => ELP!Happens
  BY DEF EL!Happens, ELP!Happens
<1>4. EL!PollFails => ELP!PollFails
  BY DEF EL!PollFails, EL!First, ELP!PollFails, ELP!First
<1>5. UNCHANGED EL!vars /\ ELP!IInv => ELP!IInv'
  BY DEF EL!vars, ELP!IInv, ELP!TypeOK, ELP!Aligned, ELP!Owned, ELP!OwnsCoros, ELP!OwnsFds,
         ELP!IsInjective, ELP!Range, ELP!NoneOver, ELP!DueAhead, ELP!live
<1> QED
  BY <1>1, <1>2, <1>3, <1>4, <1>5, LoopAssumed, ELP!LoopStepKeepsInv, ELP!HandlerStepKeepsInv,
     ELP!PollFailsKeepsInv, ELP!HappensKeepsInv DEF EL!Next

\* What the invariant says in the form the steps need.
LEMMA LoopFacts ==
  ASSUME ELP!IInv
  PROVE  /\ i \in Nat \ {0} /\ Len(coros) \in Nat /\ DOMAIN coros = 1 .. Len(coros)
         /\ DOMAIN pollfds = DOMAIN coros
         /\ home \in [Live -> Fds] /\ Live \subseteq Coros /\ open \subseteq Fds
         /\ \A k \in DOMAIN coros : coros[k] \in Live /\ home[coros[k]] = pollfds[k].fd
         /\ \A c \in Live : \E k \in DOMAIN coros : c = coros[k]
         /\ pc # "exited" =>
              \A c \in Live : home[c] \in open /\ \A d \in Live : home[c] = home[d] => c = d
         /\ pc = "handler" => i \in DOMAIN coros /\ me \in Live
<1> USE DEF ELP!IInv, ELP!Owned
<1>1. /\ i \in Nat \ {0} /\ Len(coros) \in Nat /\ DOMAIN coros = 1 .. Len(coros)
      /\ DOMAIN pollfds = DOMAIN coros
      /\ home \in [Live -> Fds] /\ Live \subseteq Coros /\ open \subseteq Fds
      /\ \A k \in DOMAIN coros : coros[k] \in Live /\ home[coros[k]] = pollfds[k].fd
  BY LoopAssumed, ELP!Positions DEF ELP!TypeOK, ELP!Aligned, ELP!live, Live
<1>2. \A c \in Live : \E k \in DOMAIN coros : c = coros[k]
  BY DEF ELP!OwnsCoros, ELP!Range, ELP!live, Live
<1>3. ASSUME pc # "exited", NEW c \in Live
      PROVE  home[c] \in open /\ \A d \in Live : home[c] = home[d] => c = d
  <2>1. PICK k \in DOMAIN coros : c = coros[k]
    BY <1>2
  <2>2. home[c] \in open
    BY <1>1, <1>3, <2>1 DEF ELP!OwnsFds
  <2>3. ASSUME NEW d \in Live, home[c] = home[d] PROVE c = d
    <3>1. PICK l \in DOMAIN coros : d = coros[l]
      BY <1>2
    <3> QED BY <1>1, <1>3, <2>1, <2>3, <3>1 DEF ELP!OwnsFds
  <2> QED BY <2>2, <2>3
<1>4. pc = "handler" => i \in DOMAIN coros /\ me \in Live
  BY <1>1 DEF ELP!NoneOver, me
<1> QED BY <1>1, <1>2, <1>3, <1>4

-----------------------------------------------------------------------------
(* The bytes of a peer *)

Units == Peers \X Nat

\* The bytes that p sends after a, up to b.
Bytes(p, a, b) == [k \in 1 .. (b - a) |-> <<p, a + k>>]

LEMMA BytesAre ==
  ASSUME NEW p \in Peers, NEW a \in Nat, NEW b \in Nat, a <= b
  PROVE  /\ Bytes(p, a, b) \in Seq(Units)
         /\ Len(Bytes(p, a, b)) = b - a
         /\ \A k \in 1 .. (b - a) : Bytes(p, a, b)[k] = <<p, a + k>>
<1> DEFINE s == Bytes(p, a, b)
<1>0. b - a \in Nat
  OBVIOUS
<1>1. s \in [1 .. (b - a) -> Units] /\ \A k \in 1 .. (b - a) : s[k] = <<p, a + k>>
  BY DEF Bytes, Units
<1> HIDE DEF s
<1>2. s \in Seq(Units)
  BY <1>0, <1>1, SeqDef
<1>3. Len(s) = b - a
  <2>1. Len(s) \in Nat /\ DOMAIN s = 1 .. Len(s) /\ DOMAIN s = 1 .. (b - a)
    BY <1>1, <1>2, LenProperties
  <2> QED BY <1>0, <2>1
<1> QED BY <1>1, <1>2, <1>3 DEF s

\* What such a sequence is, whatever made it.
LEMMA BytesEqual ==
  ASSUME NEW p \in Peers, NEW a \in Nat, NEW b \in Nat, a <= b,
         NEW s \in Seq(Units), Len(s) = b - a, \A k \in 1 .. (b - a) : s[k] = <<p, a + k>>
  PROVE  s = Bytes(p, a, b)
<1> DEFINE u == Bytes(p, a, b)
<1>1. /\ u \in Seq(Units) /\ Len(u) = b - a
      /\ \A k \in 1 .. (b - a) : u[k] = <<p, a + k>>
  BY BytesAre
<1> HIDE DEF u
<1>2. s = u
  BY <1>1, SeqEqual
<1> QED BY <1>2 DEF u

\* Bytes taken from the front, or the rest.
LEMMA BytesCut ==
  ASSUME NEW p \in Peers, NEW a \in Nat, NEW b \in Nat, NEW c \in Nat, NEW d \in Nat,
         a <= c, c <= d, d <= b
  PROVE  SubSeq(Bytes(p, a, b), c - a + 1, d - a) = Bytes(p, c, d)
<1> DEFINE m == c - a + 1
           n == d - a
           s == Bytes(p, a, b)
           u == SubSeq(s, m, n)
<1>0. a <= b /\ m \in Int /\ n \in Int /\ \A k \in m .. n : k \in 1 .. (b - a)
  OBVIOUS
<1>1. /\ s \in Seq(Units) /\ Len(s) = b - a
      /\ \A k \in 1 .. (b - a) : s[k] = <<p, a + k>>
  BY <1>0, BytesAre
<1> HIDE DEF s
<1>2. \A k \in m .. n : s[k] \in Units
  BY <1>0, <1>1, ElementOfSeq
<1>3. /\ u \in Seq(Units) /\ Len(u) = (IF m <= n THEN n - m + 1 ELSE 0)
      /\ \A k \in 1 .. n - m + 1 : u[k] = s[m + k - 1]
  BY <1>0, <1>2, SubSeqProperties
<1> HIDE DEF u
<1>4. Len(u) = d - c
  BY <1>3
<1>5. \A k \in 1 .. (d - c) : u[k] = <<p, c + k>>
  <2> TAKE k \in 1 .. (d - c)
  <2>1. k \in 1 .. n - m + 1 /\ m + k - 1 \in 1 .. (b - a) /\ a + (m + k - 1) = c + k
    OBVIOUS
  <2> QED BY <1>1, <1>3, <2>1
<1>6. u = Bytes(p, c, d)
  BY <1>3, <1>4, <1>5, BytesEqual
<1> QED BY <1>6 DEF u, s

LEMMA BytesFront ==
  ASSUME NEW p \in Peers, NEW a \in Nat, NEW b \in Nat, NEW d \in Nat, a <= d, d <= b,
         NEW n, n = d - a
  PROVE  SubSeq(Bytes(p, a, b), 1, n) = Bytes(p, a, d)
<1>1. a <= a /\ a - a + 1 = 1
  OBVIOUS
<1>2. SubSeq(Bytes(p, a, b), a - a + 1, d - a) = Bytes(p, a, d)
  BY <1>1, BytesCut
<1> QED BY <1>1, <1>2

LEMMA BytesRest ==
  ASSUME NEW p \in Peers, NEW a \in Nat, NEW b \in Nat, NEW c \in Nat, a <= c, c <= b,
         NEW m, NEW n, m = c - a + 1, n = b - a
  PROVE  SubSeq(Bytes(p, a, b), m, n) = Bytes(p, c, b)
<1>1. b <= b
  OBVIOUS
<1>2. SubSeq(Bytes(p, a, b), c - a + 1, b - a) = Bytes(p, c, b)
  BY <1>1, BytesCut
<1> QED BY <1>2

LEMMA BytesJoin ==
  ASSUME NEW p \in Peers, NEW a \in Nat, NEW b \in Nat, NEW c \in Nat, a <= b, b <= c
  PROVE  Bytes(p, a, b) \o Bytes(p, b, c) = Bytes(p, a, c)
<1> DEFINE s == Bytes(p, a, b)
           t == Bytes(p, b, c)
           u == s \o t
<1>1. /\ s \in Seq(Units) /\ Len(s) = b - a /\ \A k \in 1 .. (b - a) : s[k] = <<p, a + k>>
      /\ t \in Seq(Units) /\ Len(t) = c - b /\ \A k \in 1 .. (c - b) : t[k] = <<p, b + k>>
  BY BytesAre
<1> HIDE DEF s, t
<1>2. /\ u \in Seq(Units) /\ Len(u) = Len(s) + Len(t)
      /\ \A k \in 1 .. Len(s) + Len(t) : u[k] = IF k <= Len(s) THEN s[k] ELSE t[k - Len(s)]
  BY <1>1, ConcatProperties
<1> HIDE DEF u
<1>3. \A k \in 1 .. (c - a) : u[k] = <<p, a + k>>
  <2> TAKE k \in 1 .. (c - a)
  <2>0. k \in 1 .. Len(s) + Len(t)
    BY <1>1
  <2>1. CASE k <= b - a
    <3>1. k \in 1 .. (b - a) /\ k <= Len(s)
      BY <1>1, <2>1
    <3> QED BY <1>1, <1>2, <2>0, <3>1
  <2>2. CASE ~(k <= b - a)
    <3>1. k - (b - a) \in 1 .. (c - b) /\ b + (k - (b - a)) = a + k
      BY <2>2
    <3>2. u[k] = t[k - (b - a)]
      BY <1>1, <1>2, <2>0, <2>2
    <3> QED BY <1>1, <3>1, <3>2
  <2> QED BY <2>1, <2>2
<1>4. a <= c /\ Len(u) = c - a
  BY <1>1, <1>2
<1>5. u = Bytes(p, a, c)
  BY <1>2, <1>3, <1>4, BytesEqual
<1> QED BY <1>5 DEF u, s, t

LEMMA BytesNone ==
  ASSUME NEW p \in Peers, NEW a \in Nat
  PROVE  Bytes(p, a, a) = <<>>
<1>1. <<>> \in Seq(Units) /\ Len(<<>>) = a - a /\ \A k \in 1 .. (a - a) : <<>>[k] = <<p, a + k>>
  BY EmptySeq
<1>2. a <= a
  OBVIOUS
<1> QED BY <1>1, <1>2, BytesEqual

LEMMA BytesMore ==
  ASSUME NEW p \in Peers, NEW a \in Nat, NEW b \in Nat, a <= b
  PROVE  Append(Bytes(p, a, b), <<p, b + 1>>) = Bytes(p, a, b + 1)
<1> DEFINE s == Bytes(p, a, b)
           x == <<p, b + 1>>
           u == Append(s, x)
<1>1. /\ s \in Seq(Units) /\ Len(s) = b - a /\ \A k \in 1 .. (b - a) : s[k] = <<p, a + k>>
  BY BytesAre
<1> HIDE DEF s
<1>2. x \in Units
  BY DEF Units
<1> HIDE DEF x
<1>3. /\ u \in Seq(Units) /\ Len(u) = Len(s) + 1
      /\ \A k \in 1 .. Len(s) : u[k] = s[k]
      /\ u[Len(s) + 1] = x
  BY <1>1, <1>2, AppendProperties
<1> HIDE DEF u
<1>4. b + 1 \in Nat /\ a <= b + 1 /\ Len(u) = b + 1 - a
  BY <1>1, <1>3
<1>5. \A k \in 1 .. (b + 1 - a) : u[k] = <<p, a + k>>
  <2> TAKE k \in 1 .. (b + 1 - a)
  <2>1. CASE k = b + 1 - a
    <3>1. k = Len(s) + 1 /\ a + k = b + 1
      BY <1>1, <2>1
    <3> QED BY <1>3, <3>1 DEF x
  <2>2. CASE k # b + 1 - a
    <3>1. k \in 1 .. (b - a) /\ k \in 1 .. Len(s)
      BY <1>1, <2>2
    <3>2. u[k] = s[k] /\ s[k] = <<p, a + k>>
      BY <1>1, <1>3, <3>1
    <3> QED BY <3>2
  <2> QED BY <2>1, <2>2
<1>6. u = Bytes(p, a, b + 1)
  <2> DEFINE m == b + 1
  <2>1. m \in Nat /\ a <= m /\ Len(u) = m - a /\ \A k \in 1 .. (m - a) : u[k] = <<p, a + k>>
    BY <1>4, <1>5
  <2> HIDE DEF m
  <2>2. u = Bytes(p, a, m)
    BY <1>3, <2>1, BytesEqual
  <2> QED BY <2>2 DEF m
<1> QED BY <1>6 DEF u, s, x

\* Fewer bytes of a peer are a prefix of more.
LEMMA BytesPrefix ==
  ASSUME NEW p \in Peers, NEW m \in Nat, NEW n \in Nat, m <= n
  PROVE  IsPrefix(Bytes(p, 0, m), Bytes(p, 0, n))
<1>1. 0 \in Nat /\ 0 <= 0 /\ 0 <= m /\ m <= m /\ 1 = 0 - 0 + 1 /\ m = m - 0 /\ 0 <= n
      /\ n - 0 = n
  OBVIOUS
<1>2. SubSeq(Bytes(p, 0, m), 1, m) = Bytes(p, 0, m)
  BY <1>1, BytesCut
<1>3. SubSeq(Bytes(p, 0, n), 1, m) = Bytes(p, 0, m)
  BY <1>1, BytesFront
<1>4. Len(Bytes(p, 0, m)) = m /\ Len(Bytes(p, 0, n)) = n
  BY <1>1, BytesAre
<1> QED BY <1>2, <1>3, <1>4 DEF IsPrefix

-----------------------------------------------------------------------------
(* The invariant of the server *)

Tasks == [at : {"accept", "accepted", "read", "check", "write"}, buf : Seq(Units), put : Nat]

NetTypeOK ==
  /\ phase \in [Peers -> {"new", "open", "shut", "reset"}]
  /\ sent \in [Peers -> Nat]
  /\ inbuf \in [Peers -> Seq(Units)]
  /\ outbuf \in [Peers -> Seq(Units)]
  /\ got \in [Peers -> Seq(Units)]
  /\ backlog \in Seq(Peers)
  /\ killed \in BOOLEAN
  /\ conn \in [open \ {Listener} -> Peers]
  /\ task \in [Live -> Tasks]
  /\ pc \in {"poll", "scan", "handler", "exited"}

\* A peer waits to be accepted once or is behind one descriptor.
Placed ==
  /\ \A f, g \in DOMAIN conn : conn[f] = conn[g] => f = g
  /\ \A f \in DOMAIN conn : phase[conn[f]] # "new"
  /\ \A k \in DOMAIN backlog :
       /\ phase[backlog[k]] # "new"
       /\ \A f \in DOMAIN conn : conn[f] # backlog[k]
       /\ \A l \in DOMAIN backlog : backlog[k] = backlog[l] => k = l

\* The coroutine of the listening socket accepts, the others serve a connection.
Roles ==
  /\ pc = "exited" => Live = {}
  /\ \A c \in Live : task[c].at \in {"accept", "accepted"} <=> home[c] = Listener

\* When the accepting coroutine is to be resumed, a connection waits.
AcceptsDue ==
  /\ due \subseteq Live
  /\ pc = "handler" => me \notin due
  /\ \A c \in due : home[c] = Listener => backlog # <<>>
  /\ AcceptFindsOne

\* What a peer that has not been accepted has sent waits to be read.
Waits(p) == phase[p] = "new" \/ \E k \in DOMAIN backlog : backlog[k] = p
Untouched ==
  \A p \in Peers :
    Waits(p) => inbuf[p] = Bytes(p, 0, sent[p]) /\ got[p] = <<>> /\ outbuf[p] = <<>>

\* The buffer of a connection's coroutine has the first bytes of the peer, those
\* behind them wait to be read, and those it has written have been sent back.
Handled(c) ==
  LET p == conn[home[c]]
      t == task[c]
  IN  /\ t.put <= Len(t.buf) /\ Len(t.buf) <= Want /\ Len(t.buf) <= sent[p]
      /\ t.buf = Bytes(p, 0, Len(t.buf))
      /\ inbuf[p] = Bytes(p, Len(t.buf), sent[p])
      /\ got[p] \o outbuf[p] = Bytes(p, 0, t.put)
      /\ t.at \in {"read", "check"} => t.put = 0
InService == \A c \in Live : home[c] # Listener => Handled(c)

Echoed ==
  \A p \in Peers :
    \E n \in 0 .. sent[p] : n <= Want /\ got[p] \o outbuf[p] = Bytes(p, 0, n)

NInv == NetTypeOK /\ Placed /\ Roles /\ AcceptsDue /\ Untouched /\ InService /\ Echoed
IInv == ELP!IInv /\ NInv


\* Connections are behind open descriptors other than the listening socket.
LEMMA ConnFacts ==
  ASSUME IInv
  PROVE  /\ DOMAIN conn = open \ {Listener} /\ open \subseteq Fds
         /\ \A f \in open : f # Listener => conn[f] \in Peers
         /\ pc # "exited" =>
              \A c \in Live : home[c] # Listener =>
                /\ home[c] \in DOMAIN conn /\ conn[home[c]] \in Peers
                /\ \A d \in Live : home[d] # Listener /\ conn[home[d]] = conn[home[c]] => d = c
<1>1. DOMAIN conn = open \ {Listener} /\ \A f \in open : f # Listener => conn[f] \in Peers
  BY DEF IInv, NInv, NetTypeOK
<1> QED BY <1>1, LoopFacts DEF IInv, NInv, Placed

-----------------------------------------------------------------------------
(* The server takes only steps of the loop. *)

\* How what poll would report changes when only descriptor f is concerned.
LEMMA KernelExcept ==
  ASSUME NEW f \in Fds, NEW s,
         \A g \in Fds : Kernel'[g] = IF g = f THEN s ELSE Kernel[g]
  PROVE  Kernel' = [Kernel EXCEPT ![f] = s]
BY DEF Kernel

LEMMA KernelSame ==
  ASSUME \A g \in Fds : Kernel'[g] = Kernel[g]
  PROVE  Kernel' = Kernel
BY DEF Kernel

\* What concerns one peer changes at most what poll would report of its own
\* descriptor.
LEMMA KernelOfPeer ==
  ASSUME IInv, NEW p \in Peers, UNCHANGED <<conn, backlog, open>>,
         \A q \in Peers \ {p} : phase'[q] = phase[q] /\ inbuf'[q] = inbuf[q]
  PROVE  \A g \in Fds : (g \in open /\ g # Listener /\ conn[g] = p) \/ Kernel'[g] = Kernel[g]
<1> SUFFICES ASSUME NEW g \in Fds, ~(g \in open /\ g # Listener /\ conn[g] = p)
             PROVE  Kernel'[g] = Kernel[g]
  OBVIOUS
<1>1. CASE g \notin open \/ g = Listener
  BY <1>1 DEF Kernel
<1>2. CASE g \in open /\ g # Listener
  <2>1. conn[g] \in Peers \ {p}
    BY <1>2, ConnFacts
  <2> QED BY <1>2, <2>1 DEF Kernel
<1> QED BY <1>1, <1>2

\* Input or an end that reaches the process is the world's step.
LEMMA Reaches ==
  ASSUME IInv, NEW p \in Peers, Alive, UNCHANGED <<loop, conn, backlog>>,
         \A q \in Peers \ {p} : phase'[q] = phase[q] /\ inbuf'[q] = inbuf[q],
         \A g \in Fds : Kernel[g] \subseteq Kernel'[g]
  PROVE  [EL!Next]_(EL!vars)
<1>1. UNCHANGED <<running, coros, pollfds, state, home, open, pc, i, due>>
  BY DEF loop
<1>2. CASE Kernel' = Kernel
  BY <1>1, <1>2 DEF EL!vars
<1>3. CASE Kernel' # Kernel
  <2>1. PICK f \in Fds : Kernel'[f] # Kernel[f]
    BY <1>3, KernelSame
  <2>2. \A g \in Fds : (g \in open /\ g # Listener /\ conn[g] = p) \/ Kernel'[g] = Kernel[g]
    BY <1>1, KernelOfPeer
  <2>3. f \in open /\ f # Listener /\ conn[f] = p
    BY <2>1, <2>2
  <2>4. \A g \in Fds : g # f => Kernel'[g] = Kernel[g]
    BY <2>2, <2>3, ConnFacts DEF IInv, NInv, Placed
  <2>5. Kernel' = [Kernel EXCEPT ![f] = Kernel'[f]]
    BY <2>4, KernelExcept
  <2>6. Kernel'[f] \subseteq {"IN", "HUP", "ERR"}
    BY <1>1, <2>3 DEF Kernel
  <2>7. Kernel' = [Kernel EXCEPT ![f] = @ \cup Kernel'[f]] /\ ~(Kernel'[f] \subseteq Kernel[f])
    BY <2>1, <2>5
  <2>8. pc \notin {"exited", "crashed"}
    BY DEF Alive, IInv, NInv, NetTypeOK
  <2>9. EL!Happens
    BY <1>1, <2>3, <2>6, <2>7, <2>8 DEF EL!Happens
  <2> QED BY <2>9 DEF EL!Next
<1> QED BY <1>2, <1>3

LEMMA PeerStepIsLoops ==
  ASSUME IInv, NEW p \in Peers, Connect(p) \/ Send(p) \/ Shut(p) \/ Reset(p) \/ Recv(p)
  PROVE  [EL!Next]_(EL!vars)
<1> USE DEF IInv, NInv
<1>1. CASE Connect(p)
  <2>1. /\ phase' = [phase EXCEPT ![p] = "open"] /\ backlog' = Append(backlog, p)
        /\ UNCHANGED <<running, coros, pollfds, state, home, open, pc, i, due, conn, inbuf>>
        /\ phase[p] = "new" /\ Listener \in open
    BY <1>1 DEF Connect, loop
  <2>2. Listener \in Fds /\ open \subseteq Fds
    BY NetAssumption, LoopFacts
  <2>3. \A g \in Fds : g # Listener => Kernel'[g] = Kernel[g]
    <3> SUFFICES ASSUME NEW g \in Fds, g # Listener PROVE Kernel'[g] = Kernel[g]
      OBVIOUS
    <3>1. CASE g \notin open
      BY <2>1, <3>1 DEF Kernel
    <3>2. CASE g \in open
      <4>1. conn[g] \in Peers /\ conn[g] # p
        BY <2>1, <3>2, ConnFacts DEF Placed
      <4> QED BY <2>1, <3>2, <4>1 DEF Kernel, NetTypeOK
    <3> QED BY <3>1, <3>2
  <2>4. Kernel'[Listener] = {"IN"} /\ Kernel[Listener] \in {{}, {"IN"}}
    <3>1. backlog' # <<>>
      BY <2>1, AppendProperties DEF NetTypeOK
    <3> QED BY <2>1, <2>2, <3>1 DEF Kernel
  <2>5. CASE Kernel[Listener] = {"IN"}
    <3>1. Kernel' = Kernel
      BY <2>3, <2>4, <2>5, KernelSame
    <3> QED BY <2>1, <3>1 DEF EL!vars
  <2>6. CASE Kernel[Listener] = {}
    <3>1. Kernel' = [Kernel EXCEPT ![Listener] = {"IN"}]
      BY <2>2, <2>3, <2>4, KernelExcept
    <3>2. Kernel' = [Kernel EXCEPT ![Listener] = @ \cup {"IN"}]
      BY <2>6, <3>1
    <3>3. pc \notin {"exited", "crashed"}
      BY <1>1 DEF Connect, Alive, NetTypeOK
    <3>4. EL!Happens
      BY <2>1, <2>6, <3>2, <3>3 DEF EL!Happens
    <3> QED BY <3>4 DEF EL!Next
  <2> QED BY <2>4, <2>5, <2>6
<1>2. CASE Send(p)
  <2>1. /\ Alive /\ phase[p] = "open" /\ UNCHANGED <<loop, conn, backlog, open, phase>>
        /\ inbuf' = [inbuf EXCEPT ![p] = Append(@, <<p, sent[p] + 1>>)]
    BY <1>2 DEF Send, loop
  <2>2. \A q \in Peers \ {p} : phase'[q] = phase[q] /\ inbuf'[q] = inbuf[q]
    BY <2>1 DEF NetTypeOK
  <2>3. inbuf'[p] # <<>>
    <3>1. sent[p] + 1 \in Nat
      BY DEF NetTypeOK
    <3>2. <<p, sent[p] + 1>> \in Units
      BY <3>1 DEF Units
    <3>3. inbuf[p] \in Seq(Units) /\ inbuf'[p] = Append(inbuf[p], <<p, sent[p] + 1>>)
      BY <2>1 DEF NetTypeOK
    <3> DEFINE x == <<p, sent[p] + 1>>
    <3> HIDE DEF x
    <3>4. Append(inbuf[p], x) # <<>>
      BY <3>2, <3>3, AppendProperties DEF x
    <3> QED BY <3>3, <3>4 DEF x
  <2>4. \A g \in Fds : Kernel[g] \subseteq Kernel'[g]
    <3> SUFFICES ASSUME NEW g \in Fds PROVE Kernel[g] \subseteq Kernel'[g]
      OBVIOUS
    <3>1. CASE g \in open /\ g # Listener /\ conn[g] = p
      BY <2>1, <2>3, <3>1 DEF Kernel
    <3> QED BY <2>1, <2>2, <3>1, KernelOfPeer
  <2> QED BY <2>1, <2>2, <2>4, Reaches
<1>3. CASE Shut(p) \/ Reset(p)
  <2>1. PICK s \in {"shut", "reset"} :
          /\ phase' = [phase EXCEPT ![p] = s]
          /\ phase[p] = "open" \/ (s = "reset" /\ phase[p] = "shut")
          /\ Alive /\ UNCHANGED <<loop, conn, backlog, open, inbuf>>
    BY <1>3 DEF Shut, Reset, loop
  <2>2. /\ \A q \in Peers \ {p} : phase'[q] = phase[q] /\ inbuf'[q] = inbuf[q]
        /\ phase'[p] = s
    BY <2>1 DEF NetTypeOK
  <2>3. \A g \in Fds : Kernel[g] \subseteq Kernel'[g]
    <3> SUFFICES ASSUME NEW g \in Fds PROVE Kernel[g] \subseteq Kernel'[g]
      OBVIOUS
    <3>1. CASE g \in open /\ g # Listener /\ conn[g] = p
      BY <2>1, <2>2, <3>1 DEF Kernel
    <3> QED BY <2>1, <2>2, <3>1, KernelOfPeer
  <2> QED BY <2>1, <2>2, <2>3, Reaches
<1>4. CASE Recv(p)
  <2>1. UNCHANGED <<loop, conn, backlog, phase, inbuf>>
    BY <1>4 DEF Recv
  <2>2. Kernel' = Kernel
    BY <2>1 DEF Kernel, loop
  <2> QED BY <2>1, <2>2 DEF loop, EL!vars
<1> QED BY <1>1, <1>2, <1>3, <1>4

\* The descriptor of the running coroutine.
LEMMA RunningFacts ==
  ASSUME IInv, pc = "handler"
  PROVE  /\ i \in DOMAIN coros /\ me \in Live /\ me = EL!Current
         /\ home[me] \in open /\ home[me] \in Fds /\ task[me] \in Tasks
         /\ task[me].at \in {"accept", "accepted"} <=> home[me] = Listener
         /\ home[me] # Listener => peer \in Peers /\ home[me] \in DOMAIN conn /\ Handled(me)
         /\ \A c \in Live : home[c] = home[me] => c = me
BY LoopFacts, ConnFacts
   DEF IInv, NInv, NetTypeOK, Roles, InService, me, peer, EL!Current

\* read() that returns bytes either uses up the input or leaves the loop alone.
LEMMA ReadSomeIsLoops ==
  ASSUME IInv, ReadSome
  PROVE  [EL!Next]_(EL!vars)
<1>1. /\ pc = "handler" /\ task[me].at = "read" /\ inbuf[peer] # <<>>
      /\ UNCHANGED <<running, coros, pollfds, state, home, open, pc, i, due, conn, backlog, phase>>
  BY DEF ReadSome, At, loop
<1>2. /\ home[me] \in open /\ home[me] \in Fds /\ home[me] # Listener /\ peer \in Peers
      /\ me = EL!Current
  BY <1>1, RunningFacts
<1> DEFINE f == home[me]
<1>3. \A q \in Peers \ {peer} : phase'[q] = phase[q] /\ inbuf'[q] = inbuf[q]
  BY <1>1, <1>2 DEF ReadSome, IInv, NInv, NetTypeOK
<1>4. \A g \in Fds : g # f => Kernel'[g] = Kernel[g]
  <2> SUFFICES ASSUME NEW g \in Fds, g # f PROVE Kernel'[g] = Kernel[g]
    OBVIOUS
  <2>1. (g \in open /\ g # Listener /\ conn[g] = peer) \/ Kernel'[g] = Kernel[g]
    BY <1>1, <1>2, <1>3, KernelOfPeer
  <2>2. f \in DOMAIN conn /\ (g \in open /\ g # Listener => g \in DOMAIN conn)
    BY <1>2, ConnFacts
  <2> QED BY <2>1, <2>2 DEF IInv, NInv, Placed, peer
<1>5. "IN" \in Kernel[f] /\ Kernel'[f] \in {Kernel[f], Kernel[f] \ {"IN"}}
  <2>1. f \in open' /\ conn'[f] = peer /\ phase'[peer] = phase[peer]
    BY <1>1, <1>2 DEF peer
  <2>2. CASE phase[peer] = "reset"
    <3>1. Kernel[f] = {"IN", "HUP", "ERR"}
      BY <1>2, <2>2 DEF Kernel, peer
    <3>2. Kernel'[f] = {"IN", "HUP", "ERR"}
      <4> HIDE DEF f
      <4> QED BY <1>1, <1>2, <2>1, <2>2 DEF Kernel, f
    <3> QED BY <3>1, <3>2
  <2>3. CASE phase[peer] # "reset"
    <3>1. Kernel[f] = {"IN"}
      BY <1>1, <1>2, <2>3 DEF Kernel, peer
    <3>2. Kernel'[f] \in {{}, {"IN"}}
      <4> HIDE DEF f
      <4> QED BY <1>1, <1>2, <2>1, <2>3 DEF Kernel, f
    <3> QED BY <3>1, <3>2
  <2> QED BY <2>2, <2>3
<1>7. CASE Kernel'[f] = Kernel[f]
  <2>1. Kernel' = Kernel
    BY <1>4, <1>7, KernelSame
  <2> QED BY <1>1, <2>1 DEF EL!vars
<1>8. CASE Kernel'[f] = Kernel[f] \ {"IN"}
  <2>1. Kernel' = [Kernel EXCEPT ![f] = Kernel[f] \ {"IN"}]
    BY <1>2, <1>4, <1>8, KernelExcept
  <2>2. Kernel' = [Kernel EXCEPT ![f] = @ \ {"IN"}]
    BY <1>2, <2>1 DEF Kernel
  <2>3. EL!Read
    BY <1>1, <1>2, <1>5, <2>2 DEF EL!Read, EL!InHandler
  <2> QED BY <2>3 DEF EL!Next, EL!HandlerStep
<1> QED BY <1>5, <1>7, <1>8

\* accept() and krk_eventloop_addFd register a descriptor.
LEMMA AcceptIsLoops ==
  ASSUME IInv, Accept
  PROVE  [EL!Next]_(EL!vars)
<1>1. /\ pc = "handler" /\ task[me].at = "accept" /\ backlog # <<>>
      /\ UNCHANGED <<running, pc, i, due, phase, inbuf>> /\ backlog' = Tail(backlog)
  BY DEF Accept, At
<1>2. PICK f \in Fds \ open, c \in Coros \ EL!live :
        /\ conn' = [g \in DOMAIN conn \cup {f} |-> IF g = f THEN Head(backlog) ELSE conn[g]]
        /\ EL!AddFd(c, f)
  BY DEF Accept
<1>3. home[me] = Listener /\ Listener \in open /\ Listener \in Fds /\ me = EL!Current
  BY <1>1, RunningFacts
<1>4. open' = open \cup {f}
  BY <1>2 DEF EL!AddFd
<1>5. Kernel[Listener] = {"IN"}
  BY <1>1, <1>3 DEF Kernel
<1>6. Kernel'[Listener] \in {{}, {"IN"}}
  BY <1>3, <1>4 DEF Kernel
<1>7. Kernel'[f] \in SUBSET {"IN", "HUP", "ERR"}
  BY <1>2, <1>3, <1>4 DEF Kernel
<1>8. \A g \in Fds \ {f, Listener} : Kernel'[g] = Kernel[g]
  <2> SUFFICES ASSUME NEW g \in Fds \ {f, Listener} PROVE Kernel'[g] = Kernel[g]
    OBVIOUS
  <2>1. CASE g \in open
    <3>1. g \in DOMAIN conn
      BY <2>1, ConnFacts
    <3>2. conn'[g] = conn[g] /\ g \in open'
      BY <1>2, <1>4, <2>1, <3>1
    <3> QED BY <1>1, <2>1, <3>2 DEF Kernel
  <2>2. CASE g \notin open
    BY <1>4, <2>2 DEF Kernel
  <2> QED BY <2>1, <2>2
<1> DEFINE used == IF Kernel'[Listener] = {} THEN {"IN"} ELSE {}
<1>9. Kernel' = [Kernel EXCEPT ![f] = Kernel'[f], ![home[EL!Current]] = @ \ used]
  <2> DEFINE k2 == [Kernel EXCEPT ![f] = Kernel'[f], ![home[EL!Current]] = @ \ used]
  <2>1. DOMAIN Kernel = Fds /\ Kernel' = [g \in Fds |-> Kernel'[g]]
    BY DEF Kernel
  <2>2. \A g \in Fds : k2[g] = Kernel'[g]
    BY <1>2, <1>3, <1>5, <1>6, <1>8, <2>1
  <2>3. k2 = [g \in Fds |-> k2[g]]
    BY <2>1
  <2> QED BY <2>1, <2>2, <2>3
<1>10. used \in SUBSET {"IN"}
  OBVIOUS
<1>11. EL!Register
  <2>1. f \in Fds \ open /\ c \in Coros \ EL!live
    OBVIOUS
  <2> HIDE DEF used
  <2> QED BY <1>1, <1>2, <1>7, <1>9, <1>10, <2>1 DEF EL!Register, EL!InHandler
<1> QED BY <1>11 DEF EL!Next, EL!HandlerStep

LEMMA ProcessStepIsLoops ==
  ASSUME IInv, Process
  PROVE  [EL!Next]_(EL!vars)
<1>1. CASE LoopRuns \/ LoopEnds
  BY <1>1 DEF LoopRuns, LoopEnds, EL!Next, EL!LoopStep
<1>2. CASE Accepted \/ AcceptFails \/ ReadWaits \/ ReadFails \/ WriteWaits \/ WriteFails \/ Done
  BY <1>2 DEF Accepted, AcceptFails, ReadWaits, ReadFails, WriteWaits, WriteFails, Done,
              EL!Next, EL!HandlerStep, EL!Return
<1>3. CASE ReadEnd \/ WriteSome \/ WriteKills
  <2>1. UNCHANGED <<loop, conn, backlog, phase, inbuf>>
    BY <1>3 DEF ReadEnd, WriteSome, WriteKills
  <2>2. Kernel' = Kernel
    BY <2>1 DEF Kernel, loop
  <2> QED BY <2>1, <2>2 DEF loop, EL!vars
<1>4. CASE Check
  <2>1. /\ pc = "handler" /\ UNCHANGED <<coros, pollfds, state, home, open, pc, i, due>>
        /\ UNCHANGED <<conn, backlog, phase, inbuf>>
    BY <1>4 DEF Check, At
  <2>2. Kernel' = Kernel
    BY <2>1 DEF Kernel
  <2>3. CASE running' = running
    BY <2>1, <2>2, <2>3 DEF EL!vars
  <2>4. CASE running' # running
    <3>1. running /\ running' = FALSE
      <4>1. running \in BOOLEAN
        BY DEF IInv, ELP!IInv, ELP!TypeOK
      <4>2. running' = (running /\ ~(peer \in Quitters /\ Len(task[me].buf) >= QuitLen))
        BY <1>4 DEF Check
      <4>3. running' \in BOOLEAN /\ (running' => running)
        BY <4>1, <4>2, Zenon
      <4> QED BY <2>4, <4>1, <4>3
    <3>2. EL!Stop
      BY <2>1, <2>2, <3>1 DEF EL!Stop, EL!InHandler
    <3> QED BY <3>2 DEF EL!Next, EL!HandlerStep
  <2> QED BY <2>3, <2>4
<1> QED
  BY <1>1, <1>2, <1>3, <1>4, ReadSomeIsLoops, AcceptIsLoops DEF Process

-----------------------------------------------------------------------------
(* Every step keeps the invariant. *)

LEMMA InitNInv == Init => NInv
<1> SUFFICES ASSUME Init PROVE NInv
  OBVIOUS
<1>1. PICK c0 \in Coros :
        /\ coros = <<c0>> /\ home = [c \in {c0} |-> Listener] /\ open = {Listener}
        /\ pc = "poll" /\ due = {}
  BY DEF Init, EL!Init
<1>2. /\ conn = << >> /\ backlog = <<>> /\ phase = [p \in Peers |-> "new"]
      /\ sent = [p \in Peers |-> 0] /\ inbuf = [p \in Peers |-> <<>>]
      /\ outbuf = [p \in Peers |-> <<>>] /\ got = [p \in Peers |-> <<>>] /\ killed = FALSE
      /\ task = [c \in Live |-> [NewTask EXCEPT !.at = "accept"]]
  BY DEF Init, EL!live, Live
<1>3. Live = {c0} /\ home[c0] = Listener /\ task[c0].at = "accept"
  BY <1>1, <1>2 DEF Live, NewTask
<1>4. <<>> \in Seq(Units) /\ <<>> \in Seq(Peers) /\ DOMAIN backlog = {}
  BY <1>2, EmptySeq
<1>5. NetTypeOK
  <2>1. conn \in [open \ {Listener} -> Peers]
    BY <1>1, <1>2
  <2>2. task \in [Live -> Tasks]
    BY <1>2, <1>4 DEF Tasks, NewTask
  <2> QED BY <1>1, <1>2, <1>4, <2>1, <2>2 DEF NetTypeOK
<1>6. Placed
  BY <1>1, <1>4, <1>5 DEF Placed, NetTypeOK
<1>7. Roles /\ AcceptsDue /\ InService
  BY <1>1, <1>2, <1>3 DEF Roles, AcceptsDue, AcceptFindsOne, InService
<1>8. \A p \in Peers : Bytes(p, 0, 0) = <<>>
  BY BytesNone
<1>9. Untouched
  BY <1>2, <1>8 DEF Untouched
<1>10. Echoed
  <2> SUFFICES ASSUME NEW p \in Peers
               PROVE  \E n \in 0 .. sent[p] : n <= Want /\ got[p] \o outbuf[p] = Bytes(p, 0, n)
    BY DEF Echoed
  <2>1. <<>> \o <<>> = <<>>
    BY <1>4, ConcatEmptySeq
  <2>2. 0 \in 0 .. sent[p] /\ 0 <= Want
    BY <1>2, NetAssumption
  <2> QED BY <1>2, <1>8, <2>1, <2>2
<1> QED BY <1>5, <1>6, <1>7, <1>9, <1>10 DEF NInv

\* A step of the loop that changes neither the network nor who owns what.
LEMMA LoopOnlyKeeps ==
  ASSUME IInv, UNCHANGED <<net, home, open>>, pc # "exited",
         pc' \in {"poll", "scan", "handler"}, AcceptsDue'
  PROVE  NInv'
<1> USE DEF IInv, NInv
<1>1. Live' = Live
  BY DEF Live
<1>2. NetTypeOK' /\ Placed' /\ Roles'
  BY <1>1 DEF NetTypeOK, Placed, Roles, net
<1>3. Untouched' /\ Echoed'
  BY DEF Untouched, Waits, Echoed, net
<1>4. InService'
  BY <1>1 DEF InService, Handled, net
<1> QED BY <1>2, <1>3, <1>4

\* A step that concerns one peer and its coroutine.
LEMMA OnePeerKeeps ==
  ASSUME IInv, NEW p \in Peers, NetTypeOK',
         UNCHANGED <<coros, home, open, pc, i, due, conn, backlog>>,
         \A q \in Peers : phase'[q] = "new" <=> phase[q] = "new",
         \A q \in Peers \ {p} :
           /\ sent'[q] = sent[q] /\ inbuf'[q] = inbuf[q]
           /\ outbuf'[q] = outbuf[q] /\ got'[q] = got[q],
         \A c \in Live : home[c] = Listener \/ conn[home[c]] # p => task'[c] = task[c],
         \A c \in Live : home[c] # Listener /\ conn[home[c]] = p =>
           Handled(c)' /\ task'[c].at \notin {"accept", "accepted"},
         Waits(p) => inbuf'[p] = Bytes(p, 0, sent'[p]) /\ got'[p] = <<>> /\ outbuf'[p] = <<>>,
         \E n \in 0 .. sent'[p] : n <= Want /\ got'[p] \o outbuf'[p] = Bytes(p, 0, n)
  PROVE  NInv'
<1> USE DEF IInv, NInv
<1>1. Live' = Live /\ me' = me
  BY DEF Live, me
<1>2. Placed'
  <2>1. \A f \in DOMAIN conn : conn[f] \in Peers
    BY DEF NetTypeOK
  <2>2. \A k \in DOMAIN backlog : backlog[k] \in Peers
    BY ElementOfSeq, LenProperties DEF NetTypeOK
  <2> QED BY <2>1, <2>2 DEF Placed
<1>3. Roles'
  BY <1>1 DEF Roles
<1>4. AcceptsDue'
  <2>1. pc = "handler" => me \in Live /\ (task[me].at = "accept" => home[me] = Listener)
    BY LoopFacts DEF Roles
  <2>2. pc = "handler" /\ task'[me].at = "accept" => task[me].at = "accept"
    BY <2>1
  <2> QED BY <1>1, <2>2 DEF AcceptsDue, AcceptFindsOne
<1>5. Untouched'
  <2>1. \A q \in Peers : Waits(q)' <=> Waits(q)
    BY DEF Waits
  <2> QED BY <2>1 DEF Untouched
<1>6. InService'
  <2> SUFFICES ASSUME NEW c \in Live, home[c] # Listener PROVE Handled(c)'
    BY <1>1 DEF InService
  <2>1. CASE conn[home[c]] = p
    BY <2>1
  <2>2. CASE conn[home[c]] # p
    <3>1. pc # "exited"
      BY DEF Roles
    <3>2. conn[home[c]] \in Peers \ {p} /\ Handled(c)
      BY <2>2, <3>1, ConnFacts DEF InService
    <3>3. task'[c] = task[c]
      BY <2>2
    <3> QED BY <3>2, <3>3 DEF Handled
  <2> QED BY <2>1, <2>2
<1>7. Echoed'
  <2>1. \A q \in Peers \ {p} : \E n \in 0 .. sent'[q] :
          n <= Want /\ got'[q] \o outbuf'[q] = Bytes(q, 0, n)
    <3> TAKE q \in Peers \ {p}
    <3>1. sent'[q] = sent[q] /\ outbuf'[q] = outbuf[q] /\ got'[q] = got[q]
      OBVIOUS
    <3> QED BY <3>1 DEF Echoed
  <2> HIDE DEF IInv, NInv
  <2> QED BY <2>1 DEF Echoed
<1> QED BY <1>2, <1>3, <1>4, <1>5, <1>6, <1>7

\* The loop's own steps, and a coroutine that waits.
LEMMA LoopRunsKeeps == IInv /\ LoopRuns => NInv'
<1> SUFFICES ASSUME IInv, LoopRuns PROVE NInv'
  OBVIOUS
<1> USE DEF IInv, NInv
<1>1. UNCHANGED <<net, home, open>> /\ pc # "exited" /\ pc # "handler"
  BY DEF LoopRuns, EL!Poll, EL!Skip, EL!Resume, EL!Scanning
<1>2. UNCHANGED <<backlog, task>> /\ Live' = Live
  BY <1>1 DEF net, Live
<1>3. CASE EL!Poll
  <2>1. pc' = "scan" /\ due' = {coros[k] : k \in {j \in DOMAIN coros : "IN" \in Kernel[pollfds[j].fd]}}
    BY <1>3 DEF EL!Poll
  <2>2. due' \subseteq Live
    BY <2>1, LoopFacts
  <2>3. ASSUME NEW c \in due', home[c] = Listener PROVE backlog # <<>>
    <3>1. PICK k \in DOMAIN coros : c = coros[k] /\ "IN" \in Kernel[pollfds[k].fd]
      BY <2>1, <2>3
    <3>2. pollfds[k].fd = Listener
      BY <2>3, <3>1, LoopFacts
    <3> QED BY <3>1, <3>2, NetAssumption DEF Kernel
  <2>4. AcceptsDue'
    BY <1>1, <1>2, <2>1, <2>2, <2>3 DEF AcceptsDue, AcceptFindsOne
  <2> QED BY <1>1, <2>1, <2>4, LoopOnlyKeeps
<1>4. CASE EL!Skip
  <2>1. UNCHANGED <<pc, due>>
    BY <1>4 DEF EL!Skip
  <2>2. AcceptsDue'
    BY <1>1, <1>2, <2>1 DEF AcceptsDue, AcceptFindsOne
  <2>3. pc' \in {"poll", "scan", "handler"}
    BY <1>4, <2>1 DEF EL!Skip, EL!Scanning
  <2> QED BY <1>1, <2>2, <2>3, LoopOnlyKeeps
<1>5. CASE EL!Resume
  <2>1. /\ pc = "scan" /\ pc' = "handler" /\ UNCHANGED <<coros, i>> /\ due' = due \ {me}
        /\ i <= Len(pollfds) /\ "IN" \in pollfds[i].revents
    BY <1>5 DEF EL!Resume, EL!Scanning, EL!Current, me
  <2>2. me' = me /\ i \in DOMAIN pollfds /\ i >= i
    <3>1. Len(pollfds) = Len(coros)
      BY DEF ELP!IInv, ELP!Aligned
    <3> QED BY <2>1, <3>1, LoopFacts DEF me
  <2>3. me \in due
    BY <2>1, <2>2 DEF me, ELP!IInv, ELP!DueAhead
  <2>4. task[me].at = "accept" => backlog # <<>>
    <3>1. me \in Live
      BY <2>3 DEF AcceptsDue
    <3> QED BY <2>3, <3>1 DEF AcceptsDue, Roles
  <2>5. AcceptsDue'
    BY <1>1, <1>2, <2>1, <2>2, <2>4 DEF AcceptsDue, AcceptFindsOne
  <2> QED BY <1>1, <2>1, <2>5, LoopOnlyKeeps
<1> QED BY <1>3, <1>4, <1>5 DEF LoopRuns

LEMMA WaitKeeps == IInv /\ (ReadWaits \/ WriteWaits) => NInv'
<1> SUFFICES ASSUME IInv, ReadWaits \/ WriteWaits PROVE NInv'
  OBVIOUS
<1>1. UNCHANGED <<net, home, open, due>> /\ pc = "handler" /\ pc' = "scan"
  BY DEF ReadWaits, WriteWaits, At, EL!Yield, EL!SwitchBack, EL!Goes
<1>2. AcceptsDue'
  BY <1>1 DEF IInv, NInv, AcceptsDue, AcceptFindsOne, net, Live
<1> QED BY <1>1, <1>2, LoopOnlyKeeps

LEMMA AcceptedKeeps == IInv /\ Accepted => NInv'
<1> SUFFICES ASSUME IInv, Accepted PROVE NInv'
  OBVIOUS
<1> USE DEF IInv, NInv
<1>1. /\ UNCHANGED <<home, open, due, conn, backlog, phase, sent, inbuf, outbuf, got, killed>>
      /\ pc = "handler" /\ pc' = "scan" /\ task' = [task EXCEPT ![me].at = "accept"]
      /\ task[me].at = "accepted"
  BY DEF Accepted, At, GoTo, EL!Yield, EL!SwitchBack, EL!Goes
<1>2. me \in Live /\ home[me] = Listener /\ Live' = Live
  BY <1>1, RunningFacts DEF Live
<1>3. NetTypeOK'
  <2>1. task' \in [Live -> Tasks]
    BY <1>1, <1>2 DEF NetTypeOK, Tasks
  <2> QED BY <1>1, <1>2, <2>1 DEF NetTypeOK
<1>4. \A c \in Live : c # me => task'[c] = task[c]
  BY <1>1, <1>2 DEF NetTypeOK
<1>5. task'[me].at = "accept"
  BY <1>1, <1>2 DEF NetTypeOK, Tasks
<1>6. Roles'
  BY <1>1, <1>2, <1>4, <1>5 DEF Roles
<1>7. Placed' /\ AcceptsDue' /\ Untouched' /\ Echoed'
  BY <1>1, <1>2 DEF Placed, AcceptsDue, AcceptFindsOne, Untouched, Waits, Echoed
<1>8. InService'
  <2> SUFFICES ASSUME NEW d \in Live, home[d] # Listener PROVE Handled(d)'
    BY <1>1, <1>2 DEF InService
  <2>1. Handled(d) /\ d # me
    BY <1>1, <1>2 DEF InService
  <2>2. task'[d] = task[d]
    BY <1>4, <2>1
  <2> QED BY <1>1, <2>1, <2>2 DEF Handled
<1> QED BY <1>3, <1>6, <1>7, <1>8

\* A coroutine that is over takes its descriptor with it.
LEMMA VanishKeeps == IInv /\ (AcceptFails \/ ReadFails \/ WriteFails \/ Done) => NInv'
<1> SUFFICES ASSUME IInv, AcceptFails \/ ReadFails \/ WriteFails \/ Done PROVE NInv'
  OBVIOUS
<1> USE DEF IInv, NInv
<1>1. Vanish /\ pc = "handler" /\ pc' = "scan" /\ EL!DelAt(i)
  BY DEF AcceptFails, ReadFails, WriteFails, Done, At, EL!Error, EL!Finish, EL!SwitchBack, EL!Stays
<1>2. /\ task' = [c \in DOMAIN task \cap (DOMAIN task \ {me}) |-> task[c]]
      /\ conn' = [f \in DOMAIN conn \cap (DOMAIN conn \ {home[me]}) |-> conn[f]]
      /\ open' = open \ {home[me]}
      /\ UNCHANGED <<backlog, phase, sent, inbuf, outbuf, got, killed>>
  BY <1>1 DEF Vanish, Restrict
<1>3. home' = [c \in Live \cap (Live \ {me}) |-> home[c]] /\ due' = due \ {me}
  BY <1>1 DEF EL!DelAt, EL!FreeAll, EL!Restrict, EL!live, Live, me
<1>4. Live' = Live \ {me} /\ \A c \in Live' : home'[c] = home[c]
  BY <1>3 DEF Live
<1>5. me \in Live /\ \A c \in Live : home[c] = home[me] => c = me
  BY <1>1, RunningFacts
<1>6. DOMAIN task = Live
  BY DEF NetTypeOK
<1>7. NetTypeOK'
  <2>1. task' \in [Live' -> Tasks]
    BY <1>2, <1>4, <1>6 DEF NetTypeOK
  <2>2. conn' \in [open' \ {Listener} -> Peers]
    BY <1>2 DEF NetTypeOK
  <2> QED BY <1>1, <1>2, <2>1, <2>2 DEF NetTypeOK
<1>8. \A c \in Live' : task'[c] = task[c]
  BY <1>2, <1>4, <1>6
<1>9. \A f \in DOMAIN conn' : f \in DOMAIN conn /\ conn'[f] = conn[f]
  BY <1>2
<1>10. Placed'
  BY <1>2, <1>9 DEF Placed
<1>11. Roles'
  BY <1>1, <1>4, <1>8 DEF Roles
<1>12. AcceptsDue'
  BY <1>1, <1>2, <1>3, <1>4 DEF AcceptsDue, AcceptFindsOne
<1>13. Untouched' /\ Echoed'
  BY <1>2 DEF Untouched, Waits, Echoed
<1>14. InService'
  <2> SUFFICES ASSUME NEW c \in Live', home'[c] # Listener PROVE Handled(c)'
    BY DEF InService
  <2>1. c \in Live /\ home'[c] = home[c] /\ task'[c] = task[c] /\ home[c] # home[me]
    BY <1>4, <1>5, <1>8
  <2>2. home[c] \in DOMAIN conn
    BY <1>1, <2>1, ConnFacts
  <2>3. conn'[home[c]] = conn[home[c]]
    BY <1>2, <2>1, <2>2
  <2>4. Handled(c)
    BY <2>1 DEF InService
  <2> QED BY <1>2, <2>1, <2>3, <2>4 DEF Handled
<1> QED BY <1>7, <1>10, <1>11, <1>12, <1>13, <1>14

LEMMA LoopEndsKeeps == IInv /\ LoopEnds => NInv'
<1> SUFFICES ASSUME IInv, LoopEnds PROVE NInv'
  OBVIOUS
<1> USE DEF IInv, NInv
<1>1. /\ UNCHANGED <<conn, backlog, phase, sent, inbuf, outbuf, got, killed, open>>
      /\ task' = IF running THEN task ELSE << >>
      /\ EL!EndPass /\ pc = "scan"
  BY DEF LoopEnds, EL!EndPass
<1>2. CASE running
  <2>1. UNCHANGED <<net, home, open, due>> /\ pc' = "poll"
    BY <1>1, <1>2 DEF EL!EndPass, EL!GoesOn, net
  <2>2. AcceptsDue'
    BY <1>1, <2>1 DEF AcceptsDue, AcceptFindsOne, net, Live
  <2> QED BY <1>1, <2>1, <2>2, LoopOnlyKeeps
<1>3. CASE ~running
  <2>1. pc' = "exited" /\ EL!FreeAll(EL!Range(coros)) /\ task' = << >>
    BY <1>1, <1>3 DEF EL!EndPass, EL!GoesOn
  <2>2. EL!Range(coros) = Live
    <3>1. ELP!Range(coros) = Live
      BY DEF ELP!IInv, ELP!Owned, ELP!OwnsCoros, ELP!live, Live
    <3> QED BY <3>1 DEF EL!Range, ELP!Range
  <2>3. Live' = {} /\ due' = {}
    BY <2>1, <2>2 DEF EL!FreeAll, EL!Restrict, EL!live, Live, AcceptsDue
  <2>4. task' \in [Live' -> Tasks]
    BY <2>1, <2>3
  <2>5. NetTypeOK' /\ Placed'
    BY <1>1, <2>1, <2>4 DEF NetTypeOK, Placed
  <2>6. Roles' /\ AcceptsDue' /\ InService'
    BY <2>1, <2>3 DEF Roles, AcceptsDue, AcceptFindsOne, InService
  <2>7. Untouched' /\ Echoed'
    BY <1>1 DEF Untouched, Waits, Echoed
  <2> QED BY <2>5, <2>6, <2>7
<1> QED BY <1>2, <1>3

\* The head of the queue moves behind the new descriptor.
LEMMA AcceptKeeps == IInv /\ Accept => NInv'
<1> SUFFICES ASSUME IInv, Accept PROVE NInv'
  OBVIOUS
<1> USE DEF IInv, NInv
<1>1. /\ pc = "handler" /\ pc' = pc /\ task[me].at = "accept" /\ backlog # <<>>
      /\ UNCHANGED <<i, due, phase, sent, inbuf, outbuf, got, killed>> /\ backlog' = Tail(backlog)
  BY DEF Accept, At
<1>2. PICK f \in Fds \ open, c \in Coros \ EL!live :
        /\ conn' = [g \in DOMAIN conn \cup {f} |-> IF g = f THEN Head(backlog) ELSE conn[g]]
        /\ task' = [d \in DOMAIN task \cup {c} |->
                      IF d = c THEN NewTask
                      ELSE IF d = me THEN [task[d] EXCEPT !.at = "accepted"] ELSE task[d]]
        /\ EL!AddFd(c, f)
  BY DEF Accept
<1>3. /\ coros' = Append(coros, c) /\ open' = open \cup {f}
      /\ home' = [d \in Live \cup {c} |-> IF d = c THEN f ELSE home[d]]
  BY <1>2 DEF EL!AddFd, EL!live, Live
<1>4. me \in Live /\ home[me] = Listener /\ Listener \in open /\ c \notin Live /\ f \notin open
  BY <1>1, RunningFacts DEF EL!live, Live
<1>5. Live' = Live \cup {c} /\ home'[c] = f /\ \A d \in Live : home'[d] = home[d]
  BY <1>3, <1>4 DEF Live
<1>6. me' = me
  <2>1. i \in 1 .. Len(coros) /\ coros \in Seq(Coros)
    BY <1>1, LoopFacts DEF ELP!IInv, ELP!TypeOK
  <2>2. c \in Coros
    OBVIOUS
  <2>3. Append(coros, c)[i] = coros[i]
    BY <2>1, <2>2, AppendProperties
  <2> QED BY <1>1, <1>3, <2>3 DEF me
<1> DEFINE p == Head(backlog)
<1>7. /\ p = backlog[1] /\ p \in Peers /\ 1 \in DOMAIN backlog
      /\ backlog' \in Seq(Peers)
      /\ \A k \in DOMAIN backlog' : k + 1 \in DOMAIN backlog /\ backlog'[k] = backlog[k + 1] /\ k + 1 # 1
  <2>1. backlog \in Seq(Peers)
    BY DEF NetTypeOK
  <2>2. Len(backlog) \in Nat /\ Len(backlog) # 0 /\ DOMAIN backlog = 1 .. Len(backlog)
    BY <1>1, <2>1, EmptySeq, LenProperties
  <2>3. /\ p = backlog[1] /\ p \in Peers
        /\ Tail(backlog) \in Seq(Peers) /\ Len(Tail(backlog)) = Len(backlog) - 1
        /\ \A k \in 1 .. Len(Tail(backlog)) : Tail(backlog)[k] = backlog[k + 1]
    BY <1>1, <2>1, HeadTailProperties
  <2>4. DOMAIN Tail(backlog) = 1 .. Len(Tail(backlog))
    BY <2>3, LenProperties
  <2> QED BY <1>1, <2>2, <2>3, <2>4
<1> HIDE DEF p
<1>8. /\ DOMAIN conn = open \ {Listener} /\ DOMAIN conn' = DOMAIN conn \cup {f}
      /\ conn'[f] = p /\ \A g \in DOMAIN conn : conn'[g] = conn[g]
  BY <1>2, <1>4, ConnFacts DEF p
<1>9. /\ DOMAIN task = Live /\ task'[c] = NewTask
      /\ task'[me] = [task[me] EXCEPT !.at = "accepted"]
      /\ \A d \in Live : d # me => task'[d] = task[d]
  <2>1. DOMAIN task = Live /\ c # me
    BY <1>4 DEF NetTypeOK
  <2> HIDE DEF IInv, NInv
  <2> QED BY <1>2, <1>4, <2>1
<1>10. NetTypeOK'
  <2>1. task' \in [Live' -> Tasks]
    <3>1. NewTask \in Tasks
      BY EmptySeq DEF NewTask, Tasks
    <3>2. [task[me] EXCEPT !.at = "accepted"] \in Tasks
      <4> DEFINE t == task[me]
      <4>1. t \in Tasks
        BY <1>4 DEF NetTypeOK
      <4> HIDE DEF t, IInv, NInv
      <4>2. [t EXCEPT !.at = "accepted"] \in Tasks
        BY <4>1 DEF Tasks
      <4> QED BY <4>2 DEF t
    <3> HIDE DEF NewTask
    <3> QED BY <1>2, <1>5, <1>9, <3>1, <3>2 DEF NetTypeOK
  <2>2. conn' \in [open' \ {Listener} -> Peers]
    <3>1. DOMAIN conn' = open' \ {Listener}
      BY <1>3, <1>4, <1>8
    <3>2. \A g \in DOMAIN conn' : conn'[g] \in Peers
      BY <1>7, <1>8 DEF NetTypeOK
    <3>3. conn' = [g \in DOMAIN conn' |-> conn'[g]]
      BY <1>2
    <3> QED BY <3>1, <3>2, <3>3
  <2> QED BY <1>1, <1>7, <2>1, <2>2 DEF NetTypeOK
<1>11. Placed'
  <2>1. \A g, h \in DOMAIN conn' : conn'[g] = conn'[h] => g = h
    BY <1>7, <1>8 DEF Placed
  <2>2. \A g \in DOMAIN conn' : phase[conn'[g]] # "new"
    BY <1>7, <1>8 DEF Placed
  <2>3. \A k \in DOMAIN backlog' :
          /\ phase[backlog'[k]] # "new"
          /\ \A g \in DOMAIN conn' : conn'[g] # backlog'[k]
    BY <1>7, <1>8 DEF Placed
  <2>4. \A k, l \in DOMAIN backlog' : backlog'[k] = backlog'[l] => k = l
    <3> SUFFICES ASSUME NEW k \in DOMAIN backlog', NEW l \in DOMAIN backlog', backlog'[k] = backlog'[l]
                 PROVE  k = l
      OBVIOUS
    <3>1. k + 1 = l + 1
      BY <1>7 DEF Placed
    <3>2. k \in Int /\ l \in Int
      BY <1>7, LenProperties
    <3> QED BY <3>1, <3>2
  <2> QED BY <1>1, <2>1, <2>2, <2>3, <2>4 DEF Placed
<1>12. Roles'
  <2>1. task'[c].at = "read" /\ task'[me].at = "accepted"
    BY <1>4, <1>9 DEF NewTask, NetTypeOK, Tasks
  <2> QED BY <1>1, <1>4, <1>5, <1>9, <2>1 DEF Roles
<1>13. AcceptsDue'
  <2>1. task'[me].at # "accept"
    BY <1>4, <1>9 DEF NetTypeOK, Tasks
  <2>2. \A d \in due : home'[d] # Listener
    <3>1. \A d \in Live : home[d] = home[me] => d = me
      BY <1>1, RunningFacts
    <3> QED BY <1>1, <1>4, <1>5, <3>1 DEF AcceptsDue
  <2> QED BY <1>1, <1>5, <1>6, <2>1, <2>2 DEF AcceptsDue, AcceptFindsOne
<1>14. Untouched'
  <2>1. \A q \in Peers : Waits(q)' => Waits(q)
    BY <1>1, <1>7 DEF Waits
  <2> QED BY <1>1, <2>1 DEF Untouched
<1>15. Echoed'
  BY <1>1 DEF Echoed
<1>16. InService'
  <2> SUFFICES ASSUME NEW d \in Live', home'[d] # Listener PROVE Handled(d)'
    BY DEF InService
  <2>1. CASE d = c
    <3>1. /\ task'[d] = [at |-> "read", buf |-> <<>>, put |-> 0] /\ conn'[home'[d]] = p
      BY <1>5, <1>8, <1>9, <2>1 DEF NewTask
    <3>2. inbuf[p] = Bytes(p, 0, sent[p]) /\ got[p] = <<>> /\ outbuf[p] = <<>> /\ sent[p] \in Nat
      BY <1>7 DEF Untouched, Waits, NetTypeOK
    <3>3. Bytes(p, 0, 0) = <<>> /\ Len(<<>>) = 0 /\ <<>> \o <<>> = <<>> /\ 0 <= Want
      BY <1>7, BytesNone, EmptySeq, ConcatEmptySeq, NetAssumption
    <3> QED BY <1>1, <3>1, <3>2, <3>3 DEF Handled
  <2>2. CASE d # c
    <3>1. d \in Live /\ home[d] # Listener /\ home'[d] = home[d] /\ d # me
      BY <1>4, <1>5, <2>2
    <3>2. home[d] \in DOMAIN conn
      BY <1>1, <3>1, ConnFacts
    <3>3. Handled(d) /\ task'[d] = task[d] /\ conn'[home[d]] = conn[home[d]]
      BY <1>8, <1>9, <3>1, <3>2 DEF InService
    <3> QED BY <1>1, <3>1, <3>3 DEF Handled
  <2> QED BY <2>1, <2>2
<1> QED BY <1>10, <1>11, <1>12, <1>13, <1>14, <1>15, <1>16

\* What the peers do.
LEMMA PeerKeeps ==
  ASSUME IInv, NEW p \in Peers, Connect(p) \/ Send(p) \/ Shut(p) \/ Reset(p) \/ Recv(p)
  PROVE  NInv'
<1> USE DEF IInv, NInv
<1>1. \E n \in 0 .. sent[p] : n <= Want /\ got[p] \o outbuf[p] = Bytes(p, 0, n)
  BY DEF Echoed
<1>2. \A c \in Live : home[c] # Listener /\ conn[home[c]] = p =>
        Handled(c) /\ task[c].at \notin {"accept", "accepted"}
  BY DEF InService, Roles
<1>3. sent[p] \in Nat
  BY DEF NetTypeOK
<1>4. CASE Connect(p)
  <2>1. /\ UNCHANGED <<coros, home, open, pc, i, due, task, conn, sent, inbuf, outbuf, got, killed>>
        /\ phase[p] = "new" /\ phase' = [phase EXCEPT ![p] = "open"] /\ backlog' = Append(backlog, p)
    BY <1>4 DEF Connect, loop
  <2>2. Live' = Live /\ me' = me
    BY <2>1 DEF Live, me
  <2>3. /\ backlog' \in Seq(Peers) /\ backlog' # <<>> /\ Len(backlog) \in Nat
        /\ DOMAIN backlog = 1 .. Len(backlog) /\ DOMAIN backlog' = 1 .. Len(backlog) + 1
        /\ \A k \in 1 .. Len(backlog) : backlog'[k] = backlog[k]
        /\ backlog'[Len(backlog) + 1] = p
    <3>1. backlog \in Seq(Peers)
      BY DEF NetTypeOK
    <3> QED BY <2>1, <3>1, AppendProperties, LenProperties
  <2>4. NetTypeOK'
    BY <2>1, <2>2, <2>3 DEF NetTypeOK
  <2>5. Placed'
    <3>1. \A f \in DOMAIN conn : conn[f] # p /\ conn[f] \in Peers
      BY <2>1 DEF Placed, NetTypeOK
    <3>2. \A k \in DOMAIN backlog : backlog[k] # p
      BY <2>1 DEF Placed
    <3>3. \A k \in DOMAIN backlog' : backlog'[k] = p <=> k = Len(backlog) + 1
      BY <2>3, <3>2
    <3>4. \A k \in DOMAIN backlog' : phase'[backlog'[k]] # "new"
      BY <2>1, <2>3, <3>2 DEF Placed, NetTypeOK
    <3>5. \A k, l \in DOMAIN backlog' : backlog'[k] = backlog'[l] => k = l
      BY <2>3, <3>2, <3>3 DEF Placed
    <3>6. \A k \in DOMAIN backlog' : \A f \in DOMAIN conn : conn[f] # backlog'[k]
      BY <2>3, <3>1, <3>3 DEF Placed
    <3>7. \A f \in DOMAIN conn : phase'[conn[f]] # "new"
      BY <2>1, <3>1 DEF Placed, NetTypeOK
    <3> QED BY <2>1, <3>4, <3>5, <3>6, <3>7 DEF Placed
  <2>6. Roles' /\ AcceptsDue' /\ Echoed'
    BY <2>1, <2>2, <2>3 DEF Roles, AcceptsDue, AcceptFindsOne, Echoed
  <2>7. Untouched'
    <3>1. \A q \in Peers : Waits(q)' => Waits(q)
      BY <2>1, <2>3 DEF Waits, NetTypeOK
    <3> QED BY <2>1, <3>1 DEF Untouched
  <2>8. InService'
    BY <2>1, <2>2 DEF InService, Handled
  <2> QED BY <2>4, <2>5, <2>6, <2>7, <2>8
<1>5. CASE Send(p)
  <2>1. /\ UNCHANGED <<coros, home, open, pc, i, due, conn, backlog, task, phase, outbuf, got, killed>>
        /\ phase[p] = "open"
        /\ sent' = [sent EXCEPT ![p] = @ + 1]
        /\ inbuf' = [inbuf EXCEPT ![p] = Append(@, <<p, sent[p] + 1>>)]
    BY <1>5 DEF Send, loop
  <2>2. /\ sent'[p] = sent[p] + 1 /\ inbuf'[p] = Append(inbuf[p], <<p, sent[p] + 1>>)
        /\ \A q \in Peers \ {p} : sent'[q] = sent[q] /\ inbuf'[q] = inbuf[q]
    BY <2>1 DEF NetTypeOK
  <2>3. NetTypeOK'
    <3>1. Append(inbuf[p], <<p, sent[p] + 1>>) \in Seq(Units)
      <4>1. <<p, sent[p] + 1>> \in Units
        BY <1>3 DEF Units
      <4>2. inbuf[p] \in Seq(Units)
        BY DEF NetTypeOK
      <4> DEFINE x == <<p, sent[p] + 1>>
      <4> HIDE DEF x
      <4>3. Append(inbuf[p], x) \in Seq(Units)
        BY <4>1, <4>2, AppendProperties DEF x
      <4> QED BY <4>3 DEF x
    <3> QED BY <1>3, <2>1, <3>1 DEF NetTypeOK, Live
  <2>4. \A c \in Live : home[c] # Listener /\ conn[home[c]] = p =>
          Handled(c)' /\ task'[c].at \notin {"accept", "accepted"}
    <3> SUFFICES ASSUME NEW c \in Live, home[c] # Listener, conn[home[c]] = p
                 PROVE  Handled(c)'
      BY <1>2, <2>1
    <3>1. Handled(c) /\ task[c].buf \in Seq(Units)
      BY <1>2 DEF NetTypeOK, Tasks
    <3>2. /\ Len(task[c].buf) \in Nat /\ Len(task[c].buf) <= sent[p]
          /\ inbuf[p] = Bytes(p, Len(task[c].buf), sent[p])
      BY <3>1, LenProperties DEF Handled
    <3> DEFINE a == Len(task[c].buf)
               b == sent[p]
    <3>3. Append(Bytes(p, a, b), <<p, b + 1>>) = Bytes(p, a, b + 1) /\ a <= b + 1
      <4>1. a \in Nat /\ b \in Nat /\ a <= b
        BY <1>3, <3>2
      <4> HIDE DEF a, b, IInv, NInv
      <4>2. Append(Bytes(p, a, b), <<p, b + 1>>) = Bytes(p, a, b + 1)
        BY <4>1, BytesMore
      <4> QED BY <4>1, <4>2
    <3>4. inbuf'[p] = Bytes(p, Len(task[c].buf), sent'[p]) /\ Len(task[c].buf) <= sent'[p]
      <4>1. sent'[p] = sent[p] + 1 /\ inbuf'[p] = Append(inbuf[p], <<p, sent[p] + 1>>)
        BY <2>2
      <4> HIDE DEF IInv, NInv
      <4> QED BY <3>2, <3>3, <4>1
    <3> QED BY <2>1, <3>1, <3>4 DEF Handled
  <2>5. Waits(p) => inbuf'[p] = Bytes(p, 0, sent'[p]) /\ got'[p] = <<>> /\ outbuf'[p] = <<>>
    <3> DEFINE b == sent[p]
    <3>1. Append(Bytes(p, 0, b), <<p, b + 1>>) = Bytes(p, 0, b + 1)
      <4>1. 0 \in Nat /\ b \in Nat /\ 0 <= b
        BY <1>3
      <4> HIDE DEF b
      <4> QED BY <4>1, BytesMore
    <3> QED BY <2>1, <2>2, <3>1 DEF Untouched
  <2>6. \E n \in 0 .. sent'[p] : n <= Want /\ got'[p] \o outbuf'[p] = Bytes(p, 0, n)
    <3>1. PICK n \in 0 .. sent[p] : n <= Want /\ got[p] \o outbuf[p] = Bytes(p, 0, n)
      BY <1>1
    <3>2. n \in 0 .. sent'[p]
      BY <1>3, <2>2
    <3> QED BY <2>1, <3>1, <3>2
  <2>7. /\ \A q \in Peers : phase'[q] = "new" <=> phase[q] = "new"
        /\ \A q \in Peers \ {p} :
             /\ sent'[q] = sent[q] /\ inbuf'[q] = inbuf[q]
             /\ outbuf'[q] = outbuf[q] /\ got'[q] = got[q]
        /\ \A c \in Live : task'[c] = task[c]
    BY <2>1, <2>2
  <2> HIDE DEF IInv, NInv
  <2> QED BY <2>1, <2>2, <2>3, <2>4, <2>5, <2>6, <2>7, OnePeerKeeps
<1>6. CASE Shut(p) \/ Reset(p)
  <2>1. PICK s \in {"shut", "reset"} :
          /\ phase' = [phase EXCEPT ![p] = s] /\ phase[p] \in {"open", "shut"}
          /\ UNCHANGED <<coros, home, open, pc, i, due, conn, backlog, task, sent, inbuf, outbuf, got, killed>>
    BY <1>6 DEF Shut, Reset, loop
  <2>2. \A q \in Peers : phase'[q] = "new" <=> phase[q] = "new"
    BY <2>1 DEF NetTypeOK
  <2>3. NetTypeOK'
    BY <2>1 DEF NetTypeOK, Live
  <2>4. \A c \in Live : home[c] # Listener /\ conn[home[c]] = p =>
          Handled(c)' /\ task'[c].at \notin {"accept", "accepted"}
    BY <1>2, <2>1 DEF Handled
  <2>5. /\ Waits(p) => inbuf'[p] = Bytes(p, 0, sent'[p]) /\ got'[p] = <<>> /\ outbuf'[p] = <<>>
        /\ \A q \in Peers \ {p} :
             /\ sent'[q] = sent[q] /\ inbuf'[q] = inbuf[q]
             /\ outbuf'[q] = outbuf[q] /\ got'[q] = got[q]
        /\ \A c \in Live : task'[c] = task[c]
        /\ \E n \in 0 .. sent'[p] : n <= Want /\ got'[p] \o outbuf'[p] = Bytes(p, 0, n)
    BY <1>1, <2>1 DEF Untouched
  <2> HIDE DEF IInv, NInv
  <2> QED BY <2>1, <2>2, <2>3, <2>4, <2>5, OnePeerKeeps
<1>7. CASE Recv(p)
  <2>1. /\ UNCHANGED <<coros, home, open, pc, i, due, conn, backlog, task, phase, sent, inbuf, killed>>
        /\ got' = [got EXCEPT ![p] = @ \o outbuf[p]] /\ outbuf' = [outbuf EXCEPT ![p] = <<>>]
        /\ outbuf[p] # <<>>
    BY <1>7 DEF Recv, loop
  <2>2. got[p] \in Seq(Units) /\ outbuf[p] \in Seq(Units)
    BY DEF NetTypeOK
  <2>3. got[p] \o outbuf[p] \in Seq(Units) /\ <<>> \in Seq(Units)
    BY <2>2, ConcatProperties, EmptySeq
  <2>4. /\ got'[p] = got[p] \o outbuf[p] /\ outbuf'[p] = <<>>
        /\ \A q \in Peers \ {p} : got'[q] = got[q] /\ outbuf'[q] = outbuf[q]
    BY <2>1 DEF NetTypeOK
  <2>5. got'[p] \o outbuf'[p] = got[p] \o outbuf[p]
    BY <2>3, <2>4, ConcatEmptySeq
  <2>6. NetTypeOK'
    BY <2>1, <2>3 DEF NetTypeOK, Live
  <2>7. \A c \in Live : home[c] # Listener /\ conn[home[c]] = p =>
          Handled(c)' /\ task'[c].at \notin {"accept", "accepted"}
    BY <1>2, <2>1, <2>5 DEF Handled
  <2>8. ~Waits(p)
    BY <2>1 DEF Untouched
  <2>9. /\ \A q \in Peers : phase'[q] = "new" <=> phase[q] = "new"
        /\ \A q \in Peers \ {p} :
             /\ sent'[q] = sent[q] /\ inbuf'[q] = inbuf[q]
             /\ outbuf'[q] = outbuf[q] /\ got'[q] = got[q]
        /\ \A c \in Live : task'[c] = task[c]
        /\ \E n \in 0 .. sent'[p] : n <= Want /\ got'[p] \o outbuf'[p] = Bytes(p, 0, n)
    BY <1>1, <2>1, <2>4, <2>5
  <2> HIDE DEF IInv, NInv
  <2> QED BY <2>1, <2>4, <2>6, <2>7, <2>8, <2>9, OnePeerKeeps
<1> QED BY <1>4, <1>5, <1>6, <1>7

\* A step of a connection's coroutine that concerns its own peer.
LEMMA OwnPeerKeeps ==
  ASSUME IInv, NetTypeOK', pc = "handler", home[me] # Listener,
         UNCHANGED <<coros, home, open, pc, i, due, conn, backlog, phase, sent, got>>,
         \A q \in Peers \ {peer} : inbuf'[q] = inbuf[q] /\ outbuf'[q] = outbuf[q],
         \A c \in Live \ {me} : task'[c] = task[c],
         task'[me].at \notin {"accept", "accepted"},
         LET t == task'[me]
         IN  /\ t.put <= Len(t.buf) /\ Len(t.buf) <= Want /\ Len(t.buf) <= sent[peer]
             /\ t.buf = Bytes(peer, 0, Len(t.buf))
             /\ inbuf'[peer] = Bytes(peer, Len(t.buf), sent[peer])
             /\ got[peer] \o outbuf'[peer] = Bytes(peer, 0, t.put)
             /\ t.at \in {"read", "check"} => t.put = 0
  PROVE  NInv'
<1> DEFINE p == peer
           t == task'[me]
<1>1. /\ me \in Live /\ p \in Peers /\ home[me] \in DOMAIN conn /\ p = conn[home[me]]
      /\ pc # "exited"
  BY RunningFacts DEF peer
<1>2. \A c \in Live : home[c] # Listener /\ conn[home[c]] = p => c = me
  BY <1>1, ConnFacts
<1>3. ~Waits(p)
  BY <1>1 DEF IInv, NInv, Placed, Waits
<1>4. me' = me /\ Handled(me)'
  <2>1. coros'[i'] = coros[i]
    OBVIOUS
  <2>2. conn'[home'[me]] = p
    BY <1>1
  <2>3. me' = me
    BY <2>1 DEF me
  <2> QED BY <1>1, <2>2, <2>3 DEF Handled
<1>5. \A c \in Live : home[c] # Listener /\ conn[home[c]] = p =>
        Handled(c)' /\ task'[c].at \notin {"accept", "accepted"}
  <2> SUFFICES ASSUME NEW c \in Live, home[c] # Listener, conn[home[c]] = p
               PROVE  Handled(c)' /\ task'[c].at \notin {"accept", "accepted"}
    OBVIOUS
  <2>1. c = me
    BY <1>2
  <2>2. conn'[home'[c]] = p /\ task'[c] = t
    BY <2>1
  <2> QED BY <2>1, <2>2 DEF Handled
<1>6. \E n \in 0 .. sent'[p] : n <= Want /\ got'[p] \o outbuf'[p] = Bytes(p, 0, n)
  <2>1. t \in Tasks
    <3>1. Live' = Live
      BY DEF Live
    <3> QED BY <1>1, <3>1 DEF NetTypeOK
  <2>2. t.put \in Nat /\ Len(t.buf) \in Nat /\ sent[p] \in Nat /\ Want \in Nat
    BY <1>1, <2>1, LenProperties, NetAssumption DEF Tasks, IInv, NInv, NetTypeOK
  <2>3. t.put <= Len(t.buf) /\ Len(t.buf) <= Want /\ Len(t.buf) <= sent[p]
    OBVIOUS
  <2>4. t.put \in 0 .. sent'[p] /\ t.put <= Want
    BY <2>2, <2>3
  <2>5. got'[p] \o outbuf'[p] = Bytes(p, 0, t.put)
    OBVIOUS
  <2> QED BY <2>4, <2>5
<1>7. /\ \A q \in Peers : phase'[q] = "new" <=> phase[q] = "new"
      /\ \A q \in Peers \ {p} :
           /\ sent'[q] = sent[q] /\ inbuf'[q] = inbuf[q]
           /\ outbuf'[q] = outbuf[q] /\ got'[q] = got[q]
      /\ \A c \in Live : home[c] = Listener \/ conn[home[c]] # p => task'[c] = task[c]
  BY <1>1
<1> HIDE DEF p
<1> QED BY <1>1, <1>3, <1>5, <1>6, <1>7, OnePeerKeeps

LEMMA ReadSomeKeeps == IInv /\ ReadSome => NInv'
<1> SUFFICES ASSUME IInv, ReadSome PROVE NInv'
  OBVIOUS
<1> DEFINE p == peer
           a == Len(task[me].buf)
           b == sent[p]
           n == IF Len(inbuf[p]) < Want - a THEN Len(inbuf[p]) ELSE Want - a
           buf == task[me].buf \o SubSeq(inbuf[p], 1, n)
           at == IF Len(buf) = Want THEN "check" ELSE "read"
<1>1. /\ pc = "handler" /\ task[me].at = "read"
      /\ UNCHANGED <<coros, home, open, pc, i, due, conn, backlog, phase, sent, outbuf, got, killed>>
      /\ task' = [task EXCEPT ![me].buf = buf, ![me].at = at]
      /\ inbuf' = [inbuf EXCEPT ![p] = SubSeq(@, n + 1, Len(@))]
  BY DEF ReadSome, At, Room, loop
<1>2. me \in Live /\ home[me] # Listener /\ p \in Peers /\ Handled(me) /\ task[me] \in Tasks
  BY <1>1, RunningFacts
<1>3. /\ task[me].put = 0 /\ a <= Want /\ a <= b /\ a \in Nat /\ b \in Nat /\ Want \in Nat
      /\ task[me].buf = Bytes(p, 0, a) /\ inbuf[p] = Bytes(p, a, b)
      /\ got[p] \o outbuf[p] = Bytes(p, 0, 0)
  BY <1>1, <1>2, LenProperties, NetAssumption DEF Handled, Tasks, IInv, NInv, NetTypeOK, peer
<1>4. /\ task' = [task EXCEPT ![me] = [task[me] EXCEPT !.buf = buf, !.at = at]]
      /\ inbuf' = [inbuf EXCEPT ![p] = SubSeq(inbuf[p], n + 1, Len(inbuf[p]))]
  BY <1>1
<1> HIDE DEF p, a, b, n, buf, at
<1>5. Len(inbuf[p]) = b - a
  <2>1. p \in Peers /\ a \in Nat /\ b \in Nat /\ a <= b /\ inbuf[p] = Bytes(p, a, b)
    BY <1>2, <1>3
  <2> QED BY <2>1, BytesAre
<1>6. n \in Nat /\ a + n <= b /\ a + n <= Want
  BY <1>3, <1>5 DEF n
<1> DEFINE d == a + n
<1>7. d \in Nat /\ d <= b /\ d <= Want
  BY <1>3, <1>6
<1>8. /\ SubSeq(Bytes(p, a, b), 1, n) = Bytes(p, a, d)
      /\ SubSeq(Bytes(p, a, b), n + 1, b - a) = Bytes(p, d, b)
      /\ Bytes(p, 0, a) \o Bytes(p, a, d) = Bytes(p, 0, d)
      /\ Bytes(p, d, b) \in Seq(Units) /\ Bytes(p, 0, d) \in Seq(Units)
      /\ Len(Bytes(p, 0, d)) = d
  <2>1. p \in Peers /\ a \in Nat /\ b \in Nat /\ d \in Nat /\ a <= d /\ d <= b /\ n = d - a
    BY <1>2, <1>3, <1>6, <1>7
  <2> HIDE DEF d
  <2>2. /\ SubSeq(Bytes(p, a, b), 1, d - a) = Bytes(p, a, d)
        /\ SubSeq(Bytes(p, a, b), d - a + 1, b - a) = Bytes(p, d, b)
        /\ Bytes(p, 0, a) \o Bytes(p, a, d) = Bytes(p, 0, d)
        /\ Bytes(p, d, b) \in Seq(Units) /\ Bytes(p, 0, d) \in Seq(Units)
        /\ Len(Bytes(p, 0, d)) = d
    <3>1. a <= b /\ b <= b /\ 0 \in Nat /\ 0 <= a /\ 0 <= d /\ d - 0 = d
      BY <2>1
    <3>2. SubSeq(Bytes(p, a, b), 1, d - a) = Bytes(p, a, d)
      BY <2>1, BytesFront
    <3>3. SubSeq(Bytes(p, a, b), d - a + 1, b - a) = Bytes(p, d, b)
      BY <2>1, <3>1, BytesCut
    <3>4. Bytes(p, 0, a) \o Bytes(p, a, d) = Bytes(p, 0, d)
      BY <2>1, <3>1, BytesJoin
    <3>5. Bytes(p, d, b) \in Seq(Units)
      BY <2>1, <3>1, BytesAre
    <3>6. Bytes(p, 0, d) \in Seq(Units)
      BY <2>1, <3>1, BytesAre
    <3>7. Len(Bytes(p, 0, d)) = d
      BY <2>1, <3>1, BytesAre
    <3> QED BY <3>2, <3>3, <3>4, <3>5, <3>6, <3>7
  <2> QED BY <2>1, <2>2
<1> HIDE DEF d
<1>9. SubSeq(inbuf[p], n + 1, Len(inbuf[p])) = Bytes(p, d, b)
  BY <1>3, <1>5, <1>8
<1>10. buf = Bytes(p, 0, d)
  BY <1>3, <1>8 DEF buf
<1>11. Len(buf) = d /\ buf \in Seq(Units) /\ Bytes(p, d, b) \in Seq(Units)
  BY <1>8, <1>10
<1>12. at \in {"read", "check"}
  BY DEF at
<1>13. /\ task'[me] = [at |-> at, buf |-> buf, put |-> 0]
       /\ \A c \in Live \ {me} : task'[c] = task[c]
       /\ task' \in [Live -> Tasks]
  <2>1. task \in [Live -> Tasks]
    BY DEF IInv, NInv, NetTypeOK
  <2>2. [task[me] EXCEPT !.buf = buf, !.at = at] = [at |-> at, buf |-> buf, put |-> 0]
    <3> DEFINE r == [task[me] EXCEPT !.buf = buf]
    <3>1. r = [at |-> task[me].at, buf |-> buf, put |-> 0]
      BY <1>2, <1>3 DEF Tasks
    <3> HIDE DEF r
    <3>2. [r EXCEPT !.at = at] = [at |-> at, buf |-> buf, put |-> 0]
      BY <3>1
    <3> QED BY <3>2 DEF r
  <2>3. [at |-> at, buf |-> buf, put |-> 0] \in Tasks
    BY <1>11, <1>12 DEF Tasks
  <2> QED BY <1>2, <1>4, <2>1, <2>2, <2>3
<1>14. inbuf'[p] = Bytes(p, d, b) /\ \A q \in Peers \ {p} : inbuf'[q] = inbuf[q]
  BY <1>2, <1>4, <1>9 DEF IInv, NInv, NetTypeOK
<1>15. NetTypeOK'
  <2>1. inbuf' \in [Peers -> Seq(Units)]
    BY <1>4, <1>9, <1>11 DEF IInv, NInv, NetTypeOK
  <2> QED BY <1>1, <1>13, <2>1 DEF IInv, NInv, NetTypeOK, Live
<1>16. LET t == task'[me]
       IN  /\ t.put <= Len(t.buf) /\ Len(t.buf) <= Want /\ Len(t.buf) <= sent[p]
           /\ t.buf = Bytes(p, 0, Len(t.buf))
           /\ inbuf'[p] = Bytes(p, Len(t.buf), sent[p])
           /\ got[p] \o outbuf'[p] = Bytes(p, 0, t.put)
           /\ t.at \in {"read", "check"} => t.put = 0
  BY <1>1, <1>3, <1>7, <1>10, <1>11, <1>13, <1>14 DEF b
<1>17. task'[me].at \notin {"accept", "accepted"}
  BY <1>12, <1>13
<1> QED BY <1>1, <1>2, <1>13, <1>14, <1>15, <1>16, <1>17, OwnPeerKeeps DEF p

\* read() that returns 0, the test for "quit" and a fatal write().
LEMMA StayKeeps == IInv /\ (ReadEnd \/ Check \/ WriteKills) => NInv'
<1> SUFFICES ASSUME IInv, ReadEnd \/ Check \/ WriteKills PROVE NInv'
  OBVIOUS
<1>1. /\ pc = "handler" /\ task[me].at \in {"read", "check", "write"}
      /\ UNCHANGED <<coros, home, open, pc, i, due, conn, backlog, phase, sent, inbuf, outbuf, got>>
      /\ killed' \in {killed, TRUE}
  BY DEF ReadEnd, Check, WriteKills, At, loop
<1>2. me \in Live /\ home[me] # Listener /\ peer \in Peers /\ Handled(me) /\ task[me] \in Tasks
  BY <1>1, RunningFacts
<1>3. task \in [Live -> Tasks]
  BY DEF IInv, NInv, NetTypeOK
<1>4. PICK at \in {"read", "check", "write"} :
        /\ task' = [task EXCEPT ![me] = [task[me] EXCEPT !.at = at]]
        /\ at \in {"read", "check"} => task[me].at \in {"read", "check"}
  <2>1. CASE ReadEnd \/ Check
    BY <1>1, <2>1 DEF ReadEnd, Check, At, GoTo
  <2>2. CASE WriteKills
    <3>1. task' = task /\ task[me].at = "write"
      BY <2>2 DEF WriteKills, At
    <3>2. [task[me] EXCEPT !.at = "write"] = task[me]
      BY <1>2, <3>1 DEF Tasks
    <3> QED BY <1>3, <3>1, <3>2
  <2> QED BY <2>1, <2>2
<1>5. /\ task'[me] = [at |-> at, buf |-> task[me].buf, put |-> task[me].put]
      /\ \A c \in Live \ {me} : task'[c] = task[c]
      /\ task' \in [Live -> Tasks]
  <2>1. [task[me] EXCEPT !.at = at] = [at |-> at, buf |-> task[me].buf, put |-> task[me].put]
    BY <1>2 DEF Tasks
  <2>2. [at |-> at, buf |-> task[me].buf, put |-> task[me].put] \in Tasks
    BY <1>2 DEF Tasks
  <2> QED BY <1>2, <1>3, <1>4, <2>1, <2>2
<1>6. NetTypeOK'
  BY <1>1, <1>5 DEF IInv, NInv, NetTypeOK, Live
<1>7. LET t == task'[me]
      IN  /\ t.put <= Len(t.buf) /\ Len(t.buf) <= Want /\ Len(t.buf) <= sent[peer]
          /\ t.buf = Bytes(peer, 0, Len(t.buf))
          /\ inbuf'[peer] = Bytes(peer, Len(t.buf), sent[peer])
          /\ got[peer] \o outbuf'[peer] = Bytes(peer, 0, t.put)
          /\ t.at \in {"read", "check"} => t.put = 0
  BY <1>1, <1>2, <1>4, <1>5 DEF Handled, peer
<1>8. task'[me].at \notin {"accept", "accepted"}
  BY <1>5
<1>9. \A q \in Peers \ {peer} : inbuf'[q] = inbuf[q] /\ outbuf'[q] = outbuf[q]
  BY <1>1
<1> QED BY <1>1, <1>2, <1>5, <1>6, <1>7, <1>8, <1>9, OwnPeerKeeps

LEMMA WriteSomeKeeps == IInv /\ WriteSome => NInv'
<1> SUFFICES ASSUME IInv, WriteSome PROVE NInv'
  OBVIOUS
<1> DEFINE p == peer
           a == Len(task[me].buf)
           k == task[me].put
           room == SendCap - Len(outbuf[p])
           n == IF Len(Left) < room THEN Len(Left) ELSE room
<1>1. /\ pc = "handler" /\ task[me].at = "write" /\ n > 0
      /\ UNCHANGED <<coros, home, open, pc, i, due, conn, backlog, phase, sent, inbuf, got, killed>>
      /\ task' = [task EXCEPT ![me] = [task[me] EXCEPT !.put = k + n]]
      /\ outbuf' = [outbuf EXCEPT ![p] = outbuf[p] \o SubSeq(Left, 1, n)]
  BY DEF WriteSome, At, loop
<1>2. me \in Live /\ home[me] # Listener /\ p \in Peers /\ Handled(me) /\ task[me] \in Tasks
  BY <1>1, RunningFacts
<1>3. /\ a <= Want /\ a <= sent[p] /\ k <= a /\ a \in Nat /\ k \in Nat
      /\ task[me].buf = Bytes(p, 0, a) /\ inbuf[p] = Bytes(p, a, sent[p])
      /\ got[p] \o outbuf[p] = Bytes(p, 0, k)
  BY <1>2, LenProperties DEF Handled, Tasks, peer
<1>4. got[p] \in Seq(Units) /\ outbuf[p] \in Seq(Units) /\ room \in Int
  <2>1. got[p] \in Seq(Units) /\ outbuf[p] \in Seq(Units)
    BY <1>2 DEF IInv, NInv, NetTypeOK
  <2> QED BY <2>1, LenProperties, NetAssumption
<1>5. Left = SubSeq(task[me].buf, k + 1, a)
  BY DEF Left
<1> HIDE DEF p, a, k, room, n
<1>6. Left = Bytes(p, k, a) /\ Len(Left) = a - k
  <2>1. p \in Peers /\ 0 \in Nat /\ a \in Nat /\ k \in Nat /\ 0 <= k /\ k <= a /\ a <= a /\ k - 0 = k /\ a - 0 = a
    BY <1>2, <1>3
  <2>2. SubSeq(Bytes(p, 0, a), k - 0 + 1, a - 0) = Bytes(p, k, a)
    BY <2>1, BytesCut
  <2>3. Left = Bytes(p, k, a)
    BY <1>3, <1>5, <2>1, <2>2
  <2>4. p \in Peers /\ a \in Nat /\ k \in Nat /\ k <= a
    BY <1>2, <1>3
  <2>5. Len(Bytes(p, k, a)) = a - k
    BY <2>4, BytesAre
  <2> QED BY <2>3, <2>5
<1>7. n \in Nat /\ k + n <= a
  BY <1>1, <1>3, <1>4, <1>6 DEF n
<1> DEFINE d == k + n
<1>8. d \in Nat /\ d <= a
  BY <1>3, <1>7
<1>9. /\ SubSeq(Bytes(p, k, a), 1, n) = Bytes(p, k, d)
      /\ Bytes(p, 0, k) \o Bytes(p, k, d) = Bytes(p, 0, d)
      /\ Bytes(p, k, d) \in Seq(Units)
  <2>1. p \in Peers /\ a \in Nat /\ k \in Nat /\ d \in Nat /\ k <= d /\ d <= a /\ n = d - k
    BY <1>2, <1>3, <1>7, <1>8
  <2> HIDE DEF d
  <2>2. /\ SubSeq(Bytes(p, k, a), 1, d - k) = Bytes(p, k, d)
        /\ Bytes(p, 0, k) \o Bytes(p, k, d) = Bytes(p, 0, d)
        /\ Bytes(p, k, d) \in Seq(Units)
    <3>1. 0 \in Nat /\ 0 <= k
      BY <2>1
    <3>2. SubSeq(Bytes(p, k, a), 1, d - k) = Bytes(p, k, d)
      BY <2>1, BytesFront
    <3>3. Bytes(p, 0, k) \o Bytes(p, k, d) = Bytes(p, 0, d)
      BY <2>1, <3>1, BytesJoin
    <3>4. Bytes(p, k, d) \in Seq(Units)
      BY <2>1, BytesAre
    <3> QED BY <3>2, <3>3, <3>4
  <2> QED BY <2>1, <2>2
<1> HIDE DEF d
<1>10. SubSeq(Left, 1, n) = Bytes(p, k, d)
  BY <1>6, <1>9
<1>11. outbuf[p] \o Bytes(p, k, d) \in Seq(Units)
  BY <1>4, <1>9, ConcatProperties
<1>12. got[p] \o (outbuf[p] \o Bytes(p, k, d)) = Bytes(p, 0, d)
  <2>1. got[p] \o (outbuf[p] \o Bytes(p, k, d)) = (got[p] \o outbuf[p]) \o Bytes(p, k, d)
    <3> DEFINE x == got[p]
               y == outbuf[p]
               z == Bytes(p, k, d)
    <3>1. x \in Seq(Units) /\ y \in Seq(Units) /\ z \in Seq(Units)
      BY <1>4, <1>9
    <3> HIDE DEF x, y, z
    <3>2. x \o (y \o z) = (x \o y) \o z
      BY <3>1, ConcatAssociative
    <3> QED BY <3>2 DEF x, y, z
  <2> QED BY <1>3, <1>9, <2>1
<1>13. /\ task'[me] = [at |-> "write", buf |-> task[me].buf, put |-> d]
       /\ \A c \in Live \ {me} : task'[c] = task[c]
       /\ task' \in [Live -> Tasks]
  <2>1. task \in [Live -> Tasks]
    BY DEF IInv, NInv, NetTypeOK
  <2>2. [task[me] EXCEPT !.put = d] = [at |-> "write", buf |-> task[me].buf, put |-> d]
    BY <1>1, <1>2 DEF Tasks
  <2>3. [at |-> "write", buf |-> task[me].buf, put |-> d] \in Tasks
    BY <1>2, <1>8 DEF Tasks
  <2>4. task' = [task EXCEPT ![me] = [task[me] EXCEPT !.put = d]]
    BY <1>1 DEF d
  <2> QED BY <1>2, <2>1, <2>2, <2>3, <2>4
<1>14. /\ outbuf'[p] = outbuf[p] \o Bytes(p, k, d)
       /\ \A q \in Peers \ {p} : outbuf'[q] = outbuf[q]
       /\ outbuf' \in [Peers -> Seq(Units)]
  BY <1>1, <1>2, <1>10, <1>11 DEF IInv, NInv, NetTypeOK
<1>15. NetTypeOK'
  BY <1>1, <1>13, <1>14 DEF IInv, NInv, NetTypeOK, Live
<1>16. LET t == task'[me]
       IN  /\ t.put <= Len(t.buf) /\ Len(t.buf) <= Want /\ Len(t.buf) <= sent[p]
           /\ t.buf = Bytes(p, 0, Len(t.buf))
           /\ inbuf'[p] = Bytes(p, Len(t.buf), sent[p])
           /\ got[p] \o outbuf'[p] = Bytes(p, 0, t.put)
           /\ t.at \in {"read", "check"} => t.put = 0
  <2> DEFINE t == task'[me]
  <2>1. t.put = d /\ t.buf = task[me].buf /\ Len(t.buf) = a /\ t.at = "write"
    BY <1>13 DEF a
  <2>2. got[p] \o outbuf'[p] = Bytes(p, 0, d)
    BY <1>12, <1>14
  <2>3. inbuf'[p] = Bytes(p, a, sent[p])
    BY <1>1, <1>3
  <2> HIDE DEF t
  <2>4. /\ t.put <= Len(t.buf) /\ Len(t.buf) <= Want /\ Len(t.buf) <= sent[p]
        /\ t.buf = Bytes(p, 0, Len(t.buf))
        /\ inbuf'[p] = Bytes(p, Len(t.buf), sent[p])
        /\ got[p] \o outbuf'[p] = Bytes(p, 0, t.put)
        /\ t.at \in {"read", "check"} => t.put = 0
    BY <1>3, <1>8, <2>1, <2>2, <2>3
  <2> QED BY <2>4 DEF t
<1>17. task'[me].at \notin {"accept", "accepted"}
  BY <1>13
<1>18. \A q \in Peers \ {p} : inbuf'[q] = inbuf[q]
  BY <1>1
<1> QED BY <1>1, <1>2, <1>13, <1>14, <1>15, <1>16, <1>17, <1>18, OwnPeerKeeps DEF p

-----------------------------------------------------------------------------
(* The theorems *)

LEMMA InitIInv == Init => IInv /\ EL!Init
<1>1. Init => EL!Init
  BY DEF Init
<1> QED BY <1>1, LoopInitOK, InitNInv DEF IInv

LEMMA NextIsLoops == IInv /\ [Next]_vars => [EL!Next]_(EL!vars)
<1>1. IInv /\ UNCHANGED vars => UNCHANGED EL!vars
  <2> SUFFICES ASSUME UNCHANGED vars PROVE UNCHANGED EL!vars
    OBVIOUS
  <2>1. UNCHANGED <<loop, conn, backlog, phase, inbuf>>
    BY DEF vars, net
  <2>2. Kernel' = Kernel
    BY <2>1 DEF Kernel, loop
  <2> QED BY <2>1, <2>2 DEF loop, EL!vars
<1> QED BY <1>1, ProcessStepIsLoops, PeerStepIsLoops DEF Next

LEMMA NextKeepsInv == IInv /\ [Next]_vars => IInv'
<1> SUFFICES ASSUME IInv, [Next]_vars PROVE IInv'
  OBVIOUS
<1>1. ELP!IInv'
  BY NextIsLoops, LoopStepOK DEF IInv
<1>2. NInv'
  <2>1. CASE Process
    BY <2>1, LoopRunsKeeps, LoopEndsKeeps, AcceptKeeps, AcceptedKeeps, VanishKeeps,
       ReadSomeKeeps, StayKeeps, WaitKeeps, WriteSomeKeeps DEF Process
  <2>2. CASE \E p \in Peers : Connect(p) \/ Send(p) \/ Shut(p) \/ Reset(p) \/ Recv(p)
    BY <2>2, PeerKeeps
  <2>3. CASE UNCHANGED vars
    <3>1. NInv
      BY DEF IInv
    <3> QED BY <2>3, <3>1
         DEF vars, loop, net, NInv, NetTypeOK, Placed, Roles, AcceptsDue, AcceptFindsOne, me,
             Untouched, Waits, InService, Handled, Echoed, Live
  <2> QED BY <2>1, <2>2, <2>3 DEF Next
<1> QED BY <1>1, <1>2 DEF IInv

THEOREM ServerInv == Spec => []IInv
<1> QED BY InitIInv, NextKeepsInv, PTL DEF Spec

\* However many clients there are, however large the buffers and however the
\* reads and writes split the bytes, a client is only ever sent its own bytes,
\* in order and from the first (krk_net_readEOF and krk_net_writeAll on reused
\* descriptors and coroutines).
THEOREM OwnBytesBack == Spec => []Echo
<1>1. IInv => Echo
  <2> SUFFICES ASSUME IInv, NEW p \in Peers PROVE IsPrefix(got[p] \o outbuf[p], Expected(p))
    BY DEF Echo
  <2>1. PICK n \in 0 .. sent[p] : n <= Want /\ got[p] \o outbuf[p] = Bytes(p, 0, n)
    BY DEF IInv, NInv, Echoed
  <2> DEFINE m == IF sent[p] < Want THEN sent[p] ELSE Want
  <2>2. n \in Nat /\ m \in Nat /\ n <= m /\ m - 0 = m
    BY <2>1, NetAssumption DEF IInv, NInv, NetTypeOK
  <2>3. Expected(p) = [k \in 1 .. m |-> <<p, k>>]
    BY DEF Expected
  <2> HIDE DEF m
  <2>4. [k \in 1 .. m |-> <<p, k>>] = Bytes(p, 0, m)
    BY <2>2 DEF Bytes
  <2>5. IsPrefix(Bytes(p, 0, n), Bytes(p, 0, m))
    BY <2>2, BytesPrefix
  <2> QED BY <2>1, <2>3, <2>4, <2>5
<1> QED BY <1>1, ServerInv, PTL

\* accept() is never called without a connection to accept.
THEOREM AcceptSucceeds == Spec => []AcceptFindsOne
<1>1. IInv => AcceptFindsOne
  BY DEF IInv, NInv, AcceptsDue
<1> QED BY <1>1, ServerInv, PTL

\* Whatever the clients do, the server is the event loop of EventLoop.tla with
\* what poll would report given by its sockets: every step of it is a step of
\* the loop or leaves the loop alone.
THEOREM ServerImplementsLoop == Spec => Implements
<1> QED BY InitIInv, NextIsLoops, ServerInv, PTL DEF Spec, Implements, EL!Spec
=============================================================================
