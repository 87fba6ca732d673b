--------------------------- MODULE Broadcast_proofs ---------------------------
(***************************************************************************)
(* Proofs about Broadcast, for any number of clients, descriptors, lines   *)
(* and bytes of a line: what stdinReader sends while entries move and      *)
(* descriptors change hands, and whom it reaches when they do not.         *)
(***************************************************************************)
EXTENDS Broadcast, SequenceTheorems, TLAPS

ELP == INSTANCE EventLoop_proofs WITH
         kernel <- Kernel, ErrorHandler <- "NULL", HandlersDelete <- FALSE, Events <- {"IN"}

Live == DOMAIN home

-----------------------------------------------------------------------------
(* What a connection is sent of a line *)

\* The first m bytes that are sent of a line to a connection that is first sent
\* the last r bytes of it, in place of another one, and then all of it.
Sent(r, m) == [k \in 1 .. m |-> IF k <= r THEN Line - r + k ELSE k - r]

LEMMA SentIs ==
  ASSUME BroadcastAssumption, NEW r \in Nat, r <= Line, NEW m \in Nat
  PROVE  /\ Sent(r, m) \in Seq(Nat) /\ Len(Sent(r, m)) = m
         /\ \A k \in 1 .. m : Sent(r, m)[k] = IF k <= r THEN Line - r + k ELSE k - r
<1> DEFINE s == Sent(r, m)
           at(k) == IF k <= r THEN Line - r + k ELSE k - r
<1>1. \A k \in 1 .. m : at(k) \in Nat
  BY DEF BroadcastAssumption
<1>2. s = [k \in 1 .. m |-> at(k)]
  BY DEF Sent
<1> HIDE DEF s, at
<1>3. s \in [1 .. m -> Nat] /\ \A k \in 1 .. m : s[k] = at(k)
  BY <1>1, <1>2
<1>4. s \in Seq(Nat)
  BY <1>3, SeqDef
<1>5. Len(s) = m
  <2>1. Len(s) \in Nat /\ DOMAIN s = 1 .. Len(s) /\ DOMAIN s = 1 .. m
    BY <1>3, <1>4, LenProperties
  <2>2. Len(s) <= m
    BY <2>1
  <2>3. m <= Len(s)
    BY <2>1
  <2>4. Len(s) \in Nat /\ m \in Nat
    BY <2>1
  <2> QED BY <2>2, <2>3, <2>4
<1> QED BY <1>3, <1>4, <1>5 DEF s, at

LEMMA SentEqual ==
  ASSUME BroadcastAssumption, NEW r \in Nat, r <= Line, NEW m \in Nat,
         NEW s \in Seq(Nat), Len(s) = m,
         \A k \in 1 .. m : s[k] = IF k <= r THEN Line - r + k ELSE k - r
  PROVE  s = Sent(r, m)
<1> DEFINE u == Sent(r, m)
<1>1. /\ u \in Seq(Nat) /\ Len(u) = m
      /\ \A k \in 1 .. m : u[k] = IF k <= r THEN Line - r + k ELSE k - r
  BY SentIs
<1> HIDE DEF u
<1>2. s = u
  BY <1>1, SeqEqual
<1> QED BY <1>2 DEF u

\* One write adds the bytes of the line that follow.
Chunk(p, n) == [b \in 1 .. n |-> p + b]

LEMMA ChunkIs ==
  ASSUME NEW p \in Nat, NEW n \in Nat
  PROVE  /\ Chunk(p, n) \in Seq(Nat) /\ Len(Chunk(p, n)) = n
         /\ \A b \in 1 .. n : Chunk(p, n)[b] = p + b
<1> DEFINE s == Chunk(p, n)
<1>1. s \in [1 .. n -> Nat] /\ \A b \in 1 .. n : s[b] = p + b
  BY DEF Chunk
<1> HIDE DEF s
<1>2. s \in Seq(Nat)
  BY <1>1, SeqDef
<1>3. Len(s) = n
  <2>1. Len(s) \in Nat /\ DOMAIN s = 1 .. Len(s) /\ DOMAIN s = 1 .. n
    BY <1>1, <1>2, LenProperties
  <2>2. Len(s) <= n
    BY <2>1
  <2>3. n <= Len(s)
    BY <2>1
  <2>4. Len(s) \in Nat /\ n \in Nat
    BY <2>1
  <2> QED BY <2>2, <2>3, <2>4
<1> QED BY <1>1, <1>2, <1>3 DEF s

\* The next n bytes after m are those of the line after p, up to q.
Follow(r, m, p, n, q) == p + n <= Line /\ q = m + n /\ (m + Line = r + p \/ m = r + p)

LEMMA SentMore ==
  ASSUME BroadcastAssumption, NEW r \in Nat, r <= Line, NEW m \in Nat,
         NEW p \in Nat, NEW n \in Nat, NEW q, Follow(r, m, p, n, q)
  PROVE  Sent(r, m) \o Chunk(p, n) = Sent(r, q)
<1> DEFINE s == Sent(r, m)
           t == Chunk(p, n)
           u == s \o t
<1>0. Line \in Nat /\ p + n <= Line /\ q = m + n /\ (m + Line = r + p \/ m = r + p)
  BY DEF BroadcastAssumption, Follow
<1>1. /\ s \in Seq(Nat) /\ Len(s) = m
      /\ \A k \in 1 .. m : s[k] = IF k <= r THEN Line - r + k ELSE k - r
  BY SentIs
<1>2. t \in Seq(Nat) /\ Len(t) = n /\ \A b \in 1 .. n : t[b] = p + b
  BY ChunkIs
<1> HIDE DEF s, t
<1>3. /\ u \in Seq(Nat) /\ Len(u) = Len(s) + Len(t)
      /\ \A k \in 1 .. Len(s) + Len(t) : u[k] = IF k <= Len(s) THEN s[k] ELSE t[k - Len(s)]
  BY <1>1, <1>2, ConcatProperties
<1> HIDE DEF u
<1>4. ASSUME NEW k \in 1 .. (m + n)
      PROVE  u[k] = IF k <= r THEN Line - r + k ELSE k - r
  <2>0. k \in 1 .. Len(s) + Len(t)
    BY <1>1, <1>2
  <2>1. CASE k <= m
    <3>1. k \in 1 .. m /\ u[k] = s[k]
      BY <1>1, <1>3, <2>0, <2>1
    <3> QED BY <1>1, <3>1
  <2>2. CASE ~(k <= m)
    <3>1. k - m \in 1 .. n
      BY <2>2
    <3>2. u[k] = p + (k - m)
      BY <1>1, <1>2, <1>3, <2>0, <2>2, <3>1
    <3>3. p + (k - m) = IF k <= r THEN Line - r + k ELSE k - r
      BY <1>0, <2>2, <3>1
    <3> QED BY <3>2, <3>3
  <2> QED BY <2>1, <2>2
<1>5. m + n \in Nat /\ Len(u) = m + n
  BY <1>1, <1>2, <1>3
<1>6. u = Sent(r, m + n)
  BY <1>3, <1>4, <1>5, SentEqual
<1> QED BY <1>0, <1>6 DEF u, s, t

LEMMA SentNone ==
  ASSUME BroadcastAssumption, NEW r \in Nat, r <= Line
  PROVE  Sent(r, 0) = <<>>
<1>1. 0 \in Nat /\ <<>> \in Seq(Nat) /\ Len(<<>>) = 0
      /\ \A k \in 1 .. 0 : <<>>[k] = IF k <= r THEN Line - r + k ELSE k - r
  BY EmptySeq
<1> QED BY <1>1, SentEqual

LEMMA WholeIs ==
  ASSUME BroadcastAssumption
  PROVE  /\ Whole = Sent(0, Line)
         /\ Whole \in Seq(Nat) /\ Len(Whole) = Line /\ \A k \in 1 .. Line : Whole[k] = k
<1>0. 0 \in Nat /\ Line \in Nat /\ 0 <= Line
  BY DEF BroadcastAssumption
<1>1. \A k \in 1 .. Line : k = IF k <= 0 THEN Line - 0 + k ELSE k - 0
  OBVIOUS
<1>2. Whole = Sent(0, Line)
  BY <1>1 DEF Whole, Sent
<1>3. /\ Sent(0, Line) \in Seq(Nat) /\ Len(Sent(0, Line)) = Line
      /\ \A k \in 1 .. Line : Sent(0, Line)[k] = IF k <= 0 THEN Line - 0 + k ELSE k - 0
  BY <1>0, SentIs
<1> QED BY <1>1, <1>2, <1>3

\* The heir of a descriptor is sent the rest of the line and then all of it.
LEMMA SentRest ==
  ASSUME BroadcastAssumption, NEW r \in Nat, r <= Line
  PROVE  SubSeq(Whole, Line - r + 1, Line) \o Whole = Sent(r, r + Line)
<1> DEFINE a == Line - r + 1
           s == SubSeq(Whole, a, Line)
           u == s \o Whole
<1>0. Line \in Nat /\ a \in Nat /\ a \in 1 .. Line + 1 /\ Line - a + 1 = r
  BY DEF BroadcastAssumption
<1>1. Whole \in Seq(Nat) /\ Len(Whole) = Line /\ \A k \in 1 .. Line : Whole[k] = k
  BY WholeIs
<1>2. \A k \in a .. Line : Whole[k] \in Nat
  BY <1>0, <1>1
<1>3. /\ s \in Seq(Nat) /\ Len(s) = (IF a <= Line THEN Line - a + 1 ELSE 0)
      /\ \A k \in 1 .. Line - a + 1 : s[k] = Whole[a + k - 1]
  BY <1>0, <1>2, SubSeqProperties
<1>4. Len(s) = r
  BY <1>0, <1>3
<1>5. \A k \in 1 .. r : s[k] = Line - r + k
  <2> TAKE k \in 1 .. r
  <2>1. a + k - 1 \in 1 .. Line /\ a + k - 1 = Line - r + k /\ k \in 1 .. Line - a + 1
    BY <1>0
  <2> QED BY <1>1, <1>3, <2>1
<1> HIDE DEF a, s
<1>6. /\ u \in Seq(Nat) /\ Len(u) = Len(s) + Len(Whole)
      /\ \A k \in 1 .. Len(s) + Len(Whole) :
           u[k] = IF k <= Len(s) THEN s[k] ELSE Whole[k - Len(s)]
  BY <1>1, <1>3, ConcatProperties
<1> HIDE DEF u
<1>7. ASSUME NEW k \in 1 .. (r + Line)
      PROVE  u[k] = IF k <= r THEN Line - r + k ELSE k - r
  <2>1. u[k] = IF k <= r THEN s[k] ELSE Whole[k - r]
    BY <1>1, <1>4, <1>6
  <2>2. ~(k <= r) => k - r \in 1 .. Line
    BY <1>0
  <2>3. k <= r => k \in 1 .. r
    OBVIOUS
  <2> QED BY <1>1, <1>5, <2>1, <2>2, <2>3
<1>8. r + Line \in Nat /\ Len(u) = r + Line
  BY <1>0, <1>1, <1>4, <1>6
<1>9. u = Sent(r, r + Line)
  BY <1>6, <1>7, <1>8, SentEqual
<1> QED BY <1>9 DEF u, s, a

LEMMA SentPrefix ==
  ASSUME BroadcastAssumption, NEW r \in Nat, r <= Line, NEW m \in Nat, NEW n \in Nat, m <= n
  PROVE  IsPrefix(Sent(r, m), Sent(r, n))
<1> DEFINE s == Sent(r, m)
           t == Sent(r, n)
           a == SubSeq(s, 1, m)
           b == SubSeq(t, 1, m)
<1>1. /\ s \in Seq(Nat) /\ Len(s) = m
      /\ \A k \in 1 .. m : s[k] = IF k <= r THEN Line - r + k ELSE k - r
  BY SentIs
<1>2. /\ t \in Seq(Nat) /\ Len(t) = n
      /\ \A k \in 1 .. n : t[k] = IF k <= r THEN Line - r + k ELSE k - r
  BY SentIs
<1> HIDE DEF s, t
<1>3. \A k \in 1 .. m : s[k] \in Nat /\ t[k] \in Nat /\ t[k] = s[k]
  <2> TAKE k \in 1 .. m
  <2>1. k \in 1 .. n
    OBVIOUS
  <2>2. s[k] \in Nat
    BY <1>1, ElementOfSeq
  <2> QED BY <1>1, <1>2, <2>1, <2>2
<1>4. /\ a \in Seq(Nat) /\ Len(a) = (IF 1 <= m THEN m - 1 + 1 ELSE 0)
      /\ \A k \in 1 .. m - 1 + 1 : a[k] = s[1 + k - 1]
  BY <1>3, SubSeqProperties
<1>5. /\ b \in Seq(Nat) /\ Len(b) = (IF 1 <= m THEN m - 1 + 1 ELSE 0)
      /\ \A k \in 1 .. m - 1 + 1 : b[k] = t[1 + k - 1]
  BY <1>3, SubSeqProperties
<1> HIDE DEF a, b
<1>6. Len(a) = Len(b) /\ \A k \in 1 .. Len(a) : a[k] = b[k]
  <2>1. Len(a) = m /\ Len(b) = m
    BY <1>4, <1>5
  <2>2. \A k \in 1 .. m : a[k] = b[k]
    <3> TAKE k \in 1 .. m
    <3>1. k \in 1 .. m - 1 + 1 /\ 1 + k - 1 = k
      OBVIOUS
    <3> QED BY <1>3, <1>4, <1>5, <3>1
  <2> QED BY <2>1, <2>2
<1>7. a = b
  BY <1>4, <1>5, <1>6, SeqEqual
<1> QED BY <1>1, <1>2, <1>7 DEF IsPrefix, s, t, a, b

-----------------------------------------------------------------------------
(* The invariant *)

Types ==
  /\ added \in BOOLEAN
  /\ reader \in [at : {"read", "next", "write", "failed"}, k : Nat \ {0}, target : Fds, put : Nat]
  /\ reader.at = "write" => reader.put < Line
  /\ input \in Nat /\ line \in Nat /\ input + line <= MaxLines
  /\ reader.at \in {"next", "write"} => line # 0
  /\ got \in Seq([1 .. MaxLines -> Seq(Nat)])
  /\ born \in Seq(Nat) /\ Len(born) = Len(got)
  /\ running = TRUE /\ pc # "exited"

\* Every connection has a descriptor of its own; standard input has one from
\* the first client on until stdinReader fails.
Conns ==
  /\ conn \in [DOMAIN conn -> 1 .. Count]
  /\ DOMAIN conn \subseteq open \ {Listener}
  /\ \A f, g \in DOMAIN conn : conn[f] = conn[g] => f = g
  /\ reader.at # "failed" => Stdin \notin DOMAIN conn /\ (added => Stdin \in open)
  /\ ~added => Stdin \notin open

\* Connection c was sent m bytes of line l: first r that another one was to get.
Has(c, l, r, m) ==
  /\ r \in Nat /\ r <= Line /\ m \in Nat /\ m <= r + Line
  /\ got[c][l] = Sent(r, m)
  /\ r # 0 => born[c] = l

Settled(r, m) == m = r \/ m = r + Line

\* The positions from here on are still to be written to.
Ahead == IF reader.at = "write" THEN reader.k + 1 ELSE reader.k

\* What the connection at position p has of the current line; one that has
\* made stdinReader fail may have any part of it.
Share(p, r, m) ==
  IF reader.at \notin {"next", "write"} THEN reader.at = "failed" \/ Settled(r, m)
  ELSE IF reader.at = "write" /\ reader.target = pollfds[p].fd
  THEN m + Line = r + reader.put \/ (p < Ahead /\ m = r + reader.put)
  ELSE IF p < Ahead THEN Settled(r, m) ELSE m = r

Connected(p) == pollfds[p].fd \in DOMAIN conn
Peer(p) == conn[pollfds[p].fd]

\* Nothing was sent of later lines; of earlier ones a connection that is still
\* there has nothing half done.
History ==
  \A c \in 1 .. Count, l \in 1 .. MaxLines :
    /\ l > line => got[c][l] = <<>>
    /\ l <= line =>
         \E r, m \in Nat : Has(c, l, r, m) /\ (l < line /\ c \in Range(conn) => Settled(r, m))

Shares ==
  line # 0 =>
    \A p \in DOMAIN pollfds :
      Connected(p) => \E r, m \in Nat : Has(Peer(p), line, r, m) /\ Share(p, r, m)

\* While no entry is deleted the positions stay what they were.
InTime(p) == IF p >= Ahead THEN 0 ELSE IF reader.at = "write" /\ p = reader.k THEN reader.put ELSE Line

Undisturbed ==
  ~moved /\ reader.at \in {"next", "write"} =>
    /\ Ahead <= Len(pollfds) + 1
    /\ reader.at = "write" => pollfds[reader.k].fd = reader.target
    /\ \A p \in DOMAIN pollfds :
         p # 1 /\ Connected(p) => got[Peer(p)][line] = Sent(0, InTime(p))

BInv ==
  /\ BroadcastAssumption /\ ELP!IInv
  /\ Types /\ Conns /\ History /\ Shares /\ Undisturbed

-----------------------------------------------------------------------------
(* What is known of the loop. *)

LEMMA LoopAssumed == BroadcastAssumption => ELP!LoopAssumption
BY DEF BroadcastAssumption, ELP!LoopAssumption

LEMMA LoopInitOK == BroadcastAssumption /\ EL!Init => ELP!IInv
<1>1. EL!Init => ELP!Init
  BY DEF EL!Init, ELP!Init, EL!Slot, ELP!Slot
<1> QED BY <1>1, LoopAssumed, ELP!InitInv

LEMMA LoopStepOK ==
  ASSUME BroadcastAssumption, ELP!IInv, EL!LoopStep \/ EL!Return
  PROVE  ELP!IInv'
<1>a. \A k : EL!DelAt(k) => ELP!DelAt(k)
  BY DEF EL!DelAt, EL!FreeAll, EL!DropAt, EL!RemoveAt, EL!Restrict, EL!live,
         ELP!DelAt, ELP!FreeAll, ELP!DropAt, ELP!RemoveAt, ELP!Restrict, ELP!live
<1>b. \A S : EL!FreeAll(S) => ELP!FreeAll(S)
  BY DEF EL!FreeAll, EL!Restrict, EL!live, ELP!FreeAll, ELP!Restrict, ELP!live
<1>c. EL!Range(coros) = ELP!Range(coros)
  BY DEF EL!Range, ELP!Range
<1>1. EL!LoopStep => ELP!LoopStep
  BY <1>a, <1>b, <1>c
     DEF EL!LoopStep, EL!Poll, EL!Skip, EL!Resume, EL!HangUp, EL!UnknownEvent, EL!EndPass,
         EL!Scanning, EL!First, EL!Current, EL!HungUp, EL!GoesOn,
         ELP!LoopStep, ELP!Poll, ELP!Skip, ELP!Resume, ELP!HangUp, ELP!UnknownEvent,
         ELP!EndPass, ELP!Scanning, ELP!First, ELP!Current, ELP!HungUp, ELP!GoesOn
<1>2. EL!Return => ELP!HandlerStep
  BY <1>a DEF EL!Return, EL!Yield, EL!Finish, EL!Error, EL!SwitchBack, EL!Goes, EL!Stays,
              EL!InHandler, EL!Current, ELP!Return, ELP!Yield, ELP!Finish, ELP!Error,
              ELP!SwitchBack, ELP!Goes, ELP!Stays, ELP!InHandler, ELP!Current, ELP!HandlerStep
<1> QED BY <1>1, <1>2, LoopAssumed, ELP!LoopStepKeepsInv, ELP!HandlerStepKeepsInv

LEMMA KernelIs == Kernel \in [Fds -> SUBSET {"IN"}]
BY DEF Kernel

\* A step that leaves the loop alone may change what poll would report.
LEMMA LoopLeftOK ==
  ASSUME ELP!IInv, UNCHANGED loop
  PROVE  ELP!IInv'
<1>1. Kernel' \in [Fds -> SUBSET {"IN"}]
  BY DEF Kernel
<1>2. UNCHANGED <<running, coros, pollfds, state, home, open, pc, i, due, ELP!live>>
  BY DEF loop, ELP!live
<1> QED BY <1>1, <1>2 DEF ELP!IInv, ELP!TypeOK, ELP!Aligned, ELP!Owned, ELP!OwnsCoros,
           ELP!OwnsFds, ELP!IsInjective, ELP!Range, ELP!NoneOver, ELP!DueAhead

\* What the invariant says in the form the steps need.
LEMMA Facts ==
  ASSUME BInv
  PROVE  /\ Len(pollfds) \in Nat /\ DOMAIN pollfds = 1 .. Len(pollfds)
         /\ Len(coros) = Len(pollfds)
         /\ pollfds \in Seq(ELP!Entries)
         /\ i \in Nat \ {0} /\ open \subseteq Fds /\ home \in [Live -> Fds]
         /\ \A p \in DOMAIN pollfds : pollfds[p].fd \in open
         /\ \A p, q \in DOMAIN pollfds : pollfds[p].fd = pollfds[q].fd => p = q
         /\ \A f \in open : \E p \in DOMAIN pollfds : pollfds[p].fd = f
         /\ pc = "handler" =>
              i \in DOMAIN pollfds /\ me = pollfds[i].fd /\ coros[i] \in Live /\ me \in open
         /\ Count \in Nat /\ MaxLines \in Nat /\ Line \in Nat
<1> USE DEF BInv, ELP!IInv, ELP!Owned
<1>1. /\ i \in Nat \ {0} /\ Len(coros) \in Nat /\ DOMAIN coros = 1 .. Len(coros)
      /\ DOMAIN pollfds = 1 .. Len(coros) /\ Len(pollfds) = Len(coros)
      /\ \A k \in DOMAIN coros : coros[k] \in Live /\ home[coros[k]] = pollfds[k].fd
  BY LoopAssumed, ELP!Positions DEF ELP!Aligned, ELP!live, Live
<1>2. home \in [Live -> Fds] /\ open \subseteq Fds /\ pollfds \in Seq(ELP!Entries)
  BY DEF ELP!TypeOK, ELP!live, Live
<1>3. ELP!OwnsFds
  BY DEF Types
<1>4. /\ \A p \in DOMAIN pollfds : pollfds[p].fd \in open
      /\ \A p, q \in DOMAIN pollfds : pollfds[p].fd = pollfds[q].fd => p = q
      /\ \A f \in open : \E p \in DOMAIN pollfds : pollfds[p].fd = f
  BY <1>3 DEF ELP!OwnsFds
<1>5. pc = "handler" =>
        i \in DOMAIN pollfds /\ me = pollfds[i].fd /\ coros[i] \in Live /\ me \in open
  BY <1>1, <1>4 DEF ELP!NoneOver, me
<1>6. Count \in Nat
  BY LenProperties DEF Types, Count
<1>7. MaxLines \in Nat /\ Line \in Nat
  BY DEF BroadcastAssumption
<1> QED BY <1>1, <1>2, <1>4, <1>5, <1>6, <1>7

\* Accepting registers a connection and yields.
Accepts(f, c) ==
  /\ pc = "handler"
  /\ coros' = Append(coros, c)
  /\ pollfds' = Append(pollfds, EL!Slot(f))
  /\ home' = [d \in DOMAIN home \cup {c} |-> IF d = c THEN f ELSE home[d]]
  /\ state' = [d \in DOMAIN home \cup {c} |->
                 IF d = c THEN "INVALID" ELSE IF d = coros[i] THEN "PAUSED" ELSE state[d]]
  /\ open' = open \cup {f}
  /\ pc' = "scan" /\ i' = i + 1
  /\ UNCHANGED <<running, due>>

LEMMA AcceptsOK ==
  ASSUME BInv, NEW f \in Fds \ open, NEW c \in Coros \ Live, Accepts(f, c)
  PROVE  ELP!IInv'
<1> DEFINE n == Len(coros)
<1> USE DEF BInv, ELP!IInv, ELP!Owned
<1>0. /\ n \in Nat /\ i \in 1 .. n /\ i \in Nat \ {0}
      /\ DOMAIN coros = 1 .. n /\ DOMAIN pollfds = 1 .. n /\ Len(pollfds) = n
      /\ \A j \in 1 .. n : coros[j] \in Live /\ pollfds[j] \in ELP!Entries
                           /\ pollfds[j].fd \in open /\ home[coros[j]] = pollfds[j].fd
      /\ \A j, k \in 1 .. n : coros[j] = coros[k] => j = k
      /\ \A j, k \in 1 .. n : pollfds[j].fd = pollfds[k].fd => j = k
      /\ \A g \in open : \E j \in 1 .. n : pollfds[j].fd = g
      /\ \A d \in Live : \E j \in 1 .. n : coros[j] = d
      /\ home \in [Live -> Fds] /\ state \in [Live -> ELP!CoroStates] /\ Live \subseteq Coros
      /\ coros \in Seq(Coros) /\ pollfds \in Seq(ELP!Entries) /\ open \subseteq Fds
  <2>1. /\ n \in Nat /\ DOMAIN coros = 1 .. n /\ DOMAIN pollfds = 1 .. n /\ Len(pollfds) = n
        /\ \A j \in 1 .. n : coros[j] \in Live /\ pollfds[j] \in ELP!Entries
        /\ \A j, k \in 1 .. n : coros[j] = coros[k] => j = k
    BY LoopAssumed, ELP!Positions DEF ELP!live, Live
  <2>2. /\ i \in 1 .. n /\ i \in Nat \ {0}
        /\ \A j \in 1 .. n : pollfds[j].fd \in open
        /\ \A j, k \in 1 .. n : pollfds[j].fd = pollfds[k].fd => j = k
        /\ \A g \in open : \E j \in 1 .. n : pollfds[j].fd = g
    BY <2>1, Facts DEF Accepts
  <2>3. \A j \in 1 .. n : home[coros[j]] = pollfds[j].fd
    BY <2>1 DEF ELP!Aligned
  <2>4. \A d \in Live : \E j \in 1 .. n : coros[j] = d
    BY <2>1 DEF ELP!OwnsCoros, ELP!Range, ELP!live, Live
  <2>5. /\ home \in [Live -> Fds] /\ state \in [Live -> ELP!CoroStates] /\ Live \subseteq Coros
        /\ coros \in Seq(Coros) /\ pollfds \in Seq(ELP!Entries) /\ open \subseteq Fds
    BY DEF ELP!TypeOK, ELP!live, Live
  <2> QED BY <2>1, <2>2, <2>3, <2>4, <2>5
<1>1. EL!Slot(f) \in ELP!Entries /\ EL!Slot(f).fd = f /\ EL!Slot(f).revents = {}
  BY DEF EL!Slot, ELP!Entries
<1>2. /\ coros' \in Seq(Coros) /\ Len(coros') = n + 1
      /\ \A j \in 1 .. n : coros'[j] = coros[j]
      /\ coros'[n + 1] = c
  BY <1>0, AppendProperties DEF Accepts
<1>3. /\ pollfds' \in Seq(ELP!Entries) /\ Len(pollfds') = n + 1
      /\ \A j \in 1 .. n : pollfds'[j] = pollfds[j]
      /\ pollfds'[n + 1] = EL!Slot(f)
  <2>1. /\ pollfds \in Seq(ELP!Entries) /\ EL!Slot(f) \in ELP!Entries /\ Len(pollfds) = n
        /\ pollfds' = Append(pollfds, EL!Slot(f))
    BY <1>0, <1>1 DEF Accepts
  <2> HIDE DEF n, BInv, ELP!IInv, ELP!Owned
  <2> QED BY <2>1, AppendProperties
<1> HIDE DEF n
<1>4. /\ DOMAIN coros' = 1 .. (n + 1) /\ DOMAIN pollfds' = 1 .. (n + 1)
      /\ \A j \in 1 .. (n + 1) : j \in 1 .. n \/ j = n + 1
      /\ n + 1 \in 1 .. (n + 1) /\ \A j \in 1 .. n : j \in 1 .. (n + 1) /\ j # n + 1
  <2>1. DOMAIN coros' = 1 .. (n + 1) /\ DOMAIN pollfds' = 1 .. (n + 1)
    BY <1>2, <1>3, LenProperties
  <2>2. \A j \in 1 .. (n + 1) : j \in 1 .. n \/ j = n + 1
    BY <1>0
  <2>3. n + 1 \in 1 .. (n + 1) /\ \A j \in 1 .. n : j \in 1 .. (n + 1) /\ j # n + 1
    BY <1>0
  <2> QED BY <2>1, <2>2, <2>3
<1>5. /\ Live' = Live \cup {c} /\ home' \in [Live' -> Fds]
      /\ home'[c] = f /\ \A d \in Live : home'[d] = home[d]
  BY <1>0 DEF Accepts, Live
<1>6. /\ state' \in [Live' -> ELP!CoroStates]
      /\ state'[c] = "INVALID" /\ state'[coros[i]] = "PAUSED"
      /\ \A d \in Live : d # coros[i] => state'[d] = state[d]
  BY <1>0, <1>5 DEF Accepts, ELP!CoroStates, Live
<1>7. ELP!TypeOK'
  <2>1. Kernel' \in [Fds -> SUBSET {"IN"}]
    BY DEF Kernel
  <2>2. i' \in Nat \ {0} /\ pc' = "scan" /\ open' \subseteq Fds
    BY <1>0 DEF Accepts
  <2>3. running' \in BOOLEAN /\ due' \in SUBSET Coros
    BY DEF ELP!TypeOK, Accepts
  <2> QED BY <1>0, <1>2, <1>3, <1>5, <1>6, <2>1, <2>2, <2>3 DEF ELP!TypeOK, ELP!live, Live
<1>8. ELP!Aligned'
  <2>1. \A j \in 1 .. (n + 1) : home'[coros'[j]] = pollfds'[j].fd
    BY <1>0, <1>1, <1>2, <1>3, <1>4, <1>5
  <2> QED BY <1>2, <1>3, <1>4, <2>1 DEF ELP!Aligned
<1>9. ELP!OwnsCoros'
  <2>1. ELP!IsInjective(coros')
    <3>1. \A j \in 1 .. n : coros[j] # c
      BY <1>0
    <3>2. \A j, l \in 1 .. n : coros[j] = coros[l] => j = l
      BY <1>0
    <3> HIDE DEF BInv, ELP!IInv, ELP!Owned
    <3> QED BY <1>2, <1>4, <3>1, <3>2 DEF ELP!IsInjective
  <2>2. \A j \in 1 .. (n + 1) : coros'[j] \in Live'
    BY <1>0, <1>2, <1>4, <1>5
  <2>3. ASSUME NEW d \in Live' PROVE \E j \in 1 .. (n + 1) : coros'[j] = d
    <3>1. CASE d = c
      BY <1>2, <1>4, <3>1
    <3>2. CASE d \in Live
      BY <1>0, <1>2, <1>4, <3>2
    <3> QED BY <1>5, <2>3, <3>1, <3>2
  <2>4. ELP!Range(coros') = Live'
    BY <1>4, <2>2, <2>3 DEF ELP!Range
  <2> QED BY <2>1, <2>4 DEF ELP!OwnsCoros, ELP!live, Live
<1>10. ELP!OwnsFds'
  <2>0. open' = open \cup {f}
    BY DEF Accepts
  <2>1. \A j, l \in 1 .. (n + 1) : pollfds'[j].fd = pollfds'[l].fd => j = l
    <3>1. pollfds'[n + 1].fd = f /\ \A j \in 1 .. n : pollfds'[j].fd = pollfds[j].fd
      BY <1>1, <1>3
    <3>2. \A j \in 1 .. n : pollfds[j].fd # f
      BY <1>0
    <3>3. \A j, l \in 1 .. n : pollfds[j].fd = pollfds[l].fd => j = l
      BY <1>0
    <3> HIDE DEF BInv, ELP!IInv, ELP!Owned
    <3> QED BY <1>4, <3>1, <3>2, <3>3
  <2>2. \A j \in 1 .. (n + 1) : pollfds'[j].fd \in open'
    BY <1>0, <1>1, <1>3, <1>4, <2>0
  <2>3. ASSUME NEW g \in open' PROVE \E j \in 1 .. (n + 1) : pollfds'[j].fd = g
    <3>1. CASE g = f
      BY <1>1, <1>3, <1>4, <3>1
    <3>2. CASE g \in open
      BY <1>0, <1>3, <1>4, <3>2
    <3> QED BY <2>0, <2>3, <3>1, <3>2
  <2> QED BY <1>4, <2>1, <2>2, <2>3 DEF ELP!OwnsFds
<1>11. ELP!NoneOver'
  <2>1. \A j \in 1 .. n : j # i => coros[j] # coros[i] /\ state[coros[j]] # "RUNNING"
                                 /\ state[coros[j]] # "FINISHED" /\ state[coros[j]] # "ERRORED"
    BY <1>0 DEF ELP!NoneOver
  <2>2. \A j \in 1 .. (n + 1) :
          state'[coros'[j]] # "RUNNING" /\ state'[coros'[j]] # "FINISHED"
          /\ state'[coros'[j]] # "ERRORED"
    <3>1. \A j \in 1 .. n : coros'[j] = coros[j] /\ coros[j] \in Live
      BY <1>0, <1>2
    <3>2. /\ coros'[n + 1] = c /\ state'[c] = "INVALID" /\ state'[coros[i]] = "PAUSED"
          /\ \A d \in Live : d # coros[i] => state'[d] = state[d]
      BY <1>2, <1>6
    <3> HIDE DEF BInv, ELP!IInv, ELP!Owned
    <3> QED BY <1>4, <2>1, <3>1, <3>2
  <2>3. pc' = "scan"
    BY DEF Accepts
  <2> QED BY <1>4, <2>2, <2>3 DEF ELP!NoneOver
<1>12. ELP!DueAhead'
  <2>1. pc' = "scan" /\ i' = i + 1 /\ due' = due /\ pc = "handler"
    BY DEF Accepts
  <2>2. ASSUME NEW k \in 1 .. (n + 1), "IN" \in pollfds'[k].revents, k >= i'
        PROVE  coros'[k] \in due'
    <3>1. k \in 1 .. n /\ k > i /\ "IN" \in pollfds[k].revents
      BY <1>0, <1>1, <1>3, <1>4, <2>1, <2>2
    <3>2. coros[k] \in due
      BY <1>0, <2>1, <3>1 DEF ELP!DueAhead
    <3> QED BY <1>2, <2>1, <3>1, <3>2
  <2> QED BY <1>4, <2>1, <2>2 DEF ELP!DueAhead
<1> QED BY <1>7, <1>8, <1>9, <1>10, <1>11, <1>12

\* Every step keeps the loop's invariant.
LEMMA LoopKeeps ==
  ASSUME BInv, [BroadcastNext]_broadcastVars
  PROVE  ELP!IInv'
<1>1. BroadcastAssumption /\ ELP!IInv
  BY DEF BInv
<1>2. CASE LoopRuns
  <2>1. EL!LoopStep
    BY <1>2 DEF LoopRuns, EL!LoopStep
  <2> QED BY <1>1, <2>1, LoopStepOK
<1>3. CASE ClientWaits \/ LineDone \/ WriteWaits \/ ClientEnds \/ AcceptFails \/ WriteFails
  <2>1. EL!Return
    BY <1>3 DEF ClientWaits, LineDone, WriteWaits, ClientEnds, AcceptFails, WriteFails, EL!Return
  <2> QED BY <1>1, <2>1, LoopStepOK
<1>4. CASE \/ ClientReads \/ ReadLine \/ NextTarget \/ WriteSome
           \/ Connect \/ Send \/ Type \/ UNCHANGED broadcastVars
  <2>1. UNCHANGED loop
    BY <1>4 DEF ClientReads, ReadLine, NextTarget, WriteSome, Connect, Send, Type, broadcastVars
  <2> QED BY <1>1, <2>1, LoopLeftOK
<1>5. CASE Accept
  <2>1. PICK f \in Fds \ open, c \in Coros \ EL!live : Accepts(f, c)
    BY <1>5 DEF Accept, Accepts, Runs
  <2> QED BY <2>1, AcceptsOK DEF EL!live, Live
<1>6. CASE AddStdin
  <2>1. PICK c \in Coros \ EL!live : EL!AddFd(c, Stdin)
    BY <1>6 DEF AddStdin
  <2>2. /\ pc = "handler" /\ Stdin \in Fds \ open
        /\ UNCHANGED <<running, pc, i, due, conn, input, backlog, ready>>
    BY <1>1, <1>6 DEF AddStdin, RunsClient, env, BInv, Conns, BroadcastAssumption
  <2>3. ELP!AddFd(c, Stdin) /\ c \in Coros \ ELP!live
    BY <2>1 DEF EL!AddFd, EL!Slot, EL!live, ELP!AddFd, ELP!Slot, ELP!live
  <2>4. open' = open \cup {Stdin}
    BY <2>1 DEF EL!AddFd
  <2>5. PICK now \in SUBSET {"IN"} : Kernel' = [Kernel EXCEPT ![Stdin] = now]
    <3>1. Kernel'[Stdin] \in SUBSET {"IN"}
      BY <2>2 DEF Kernel
    <3>2. \A g \in Fds : g # Stdin => Kernel'[g] = Kernel[g]
      BY <2>2, <2>4 DEF Kernel
    <3>3. Kernel \in [Fds -> SUBSET {"IN"}] /\ Kernel' \in [Fds -> SUBSET {"IN"}]
      BY DEF Kernel
    <3>4. Kernel' = [Kernel EXCEPT ![Stdin] = Kernel'[Stdin]]
      BY <3>2, <3>3
    <3> QED BY <3>1, <3>4
  <2>6. Kernel' = [Kernel EXCEPT ![Stdin] = now, ![home[ELP!Current]] = @ \ {}]
    <3>1. Kernel' \in [Fds -> SUBSET {"IN"}] /\ Kernel \in [Fds -> SUBSET {"IN"}]
      BY DEF Kernel
    <3>2. me \in open /\ me # Stdin /\ me = home[ELP!Current] /\ me \in Fds
      BY <2>2, Facts DEF me, ELP!Current
    <3> QED BY <2>5, <3>1, <3>2
  <2>7. ELP!Register
    <3>1. {} \in SUBSET {"IN"}
      OBVIOUS
    <3> QED BY <2>2, <2>3, <2>6, <3>1 DEF ELP!Register, ELP!InHandler
  <2> QED BY <1>1, <2>7, LoopAssumed, ELP!HandlerStepKeepsInv DEF ELP!HandlerStep
<1> QED BY <1>2, <1>3, <1>4, <1>5, <1>6 DEF BroadcastNext

-----------------------------------------------------------------------------
(* Steps that leave what stdinReader does alone. *)

Kept == Types /\ Conns /\ History /\ Shares /\ Undisturbed

\* The entries stay where they are.
LEMMA QuietKeeps ==
  ASSUME BInv, UNCHANGED <<added, reader, conn, open, line, got, born, moved, running>>,
         pc' # "exited", input' \in Nat, input' + line <= MaxLines,
         DOMAIN pollfds' = DOMAIN pollfds, Len(pollfds') = Len(pollfds),
         \A p \in DOMAIN pollfds : pollfds'[p].fd = pollfds[p].fd
  PROVE  Kept'
<1> USE DEF BInv
<1>1. Types'
  BY DEF Types
<1>2. Conns'
  BY DEF Conns, Count
<1>3. History'
  BY DEF History, Has, Count, Range
<1>4. Shares'
  BY DEF Shares, Has, Share, Connected, Peer, Ahead
<1>5. Undisturbed'
  <2>1. reader.at = "write" /\ ~moved => reader.k \in DOMAIN pollfds
    <3>1. Len(pollfds) \in Nat /\ DOMAIN pollfds = 1 .. Len(pollfds) /\ reader.k \in Nat \ {0}
      BY Facts DEF Types
    <3> QED BY <3>1 DEF Undisturbed, Ahead
  <2> QED BY <2>1 DEF Undisturbed, Connected, Peer, InTime, Ahead
<1> QED BY <1>1, <1>2, <1>3, <1>4, <1>5 DEF Kept

\* Standard input gets an entry of its own.
LEMMA AddStdinKeeps ==
  ASSUME BInv, AddStdin
  PROVE  Kept'
<1> USE DEF BInv
<1>0. /\ Stdin \notin open /\ Stdin \notin DOMAIN conn /\ Stdin \in Fds
      /\ open' = open \cup {Stdin} /\ added' = TRUE /\ pc = "handler"
      /\ UNCHANGED <<running, pc, reader, conn, input, line, got, born, moved>>
  BY DEF AddStdin, RunsClient, Conns, BroadcastAssumption, EL!AddFd, env, hist
<1>1. /\ DOMAIN pollfds' = 1 .. (Len(pollfds) + 1) /\ Len(pollfds') = Len(pollfds) + 1
      /\ \A p \in DOMAIN pollfds : pollfds'[p] = pollfds[p]
      /\ pollfds'[Len(pollfds) + 1].fd = Stdin
  <2>1. pollfds' = Append(pollfds, EL!Slot(Stdin)) /\ EL!Slot(Stdin).fd = Stdin
        /\ EL!Slot(Stdin) \in ELP!Entries
    BY <1>0 DEF AddStdin, EL!AddFd, EL!Slot, ELP!Entries
  <2> HIDE DEF BInv
  <2> QED BY <2>1, Facts, AppendProperties, LenProperties
<1>2. Types'
  BY <1>0 DEF Types
<1>3. Conns'
  BY <1>0 DEF Conns, Count
<1>4. History'
  BY <1>0 DEF History, Has, Count, Range
<1>5. /\ Len(pollfds) \in Nat /\ DOMAIN pollfds = 1 .. Len(pollfds)
      /\ \A p \in DOMAIN pollfds' : p \in DOMAIN pollfds \/ p = Len(pollfds) + 1
  <2>1. Len(pollfds) \in Nat /\ DOMAIN pollfds = 1 .. Len(pollfds)
    BY Facts
  <2> QED BY <1>1, <2>1
<1>6. \A p \in DOMAIN pollfds' : Connected(p)' => p \in DOMAIN pollfds /\ Connected(p)
  BY <1>0, <1>1, <1>5 DEF Connected
<1>7. Shares'
  <2>1. \A p \in DOMAIN pollfds, r, m \in Nat :
          /\ Has(Peer(p), line, r, m) => Has(Peer(p), line, r, m)'
          /\ Share(p, r, m) => Share(p, r, m)'
    BY <1>0, <1>1 DEF Has, Share, Ahead, Peer
  <2> QED BY <1>0, <1>6, <2>1 DEF Shares
<1>8. Undisturbed'
  <2>1. reader.at = "write" /\ ~moved => reader.k \in DOMAIN pollfds
    <3>1. reader.k \in Nat \ {0}
      BY DEF Types
    <3> QED BY <1>5, <3>1 DEF Undisturbed, Ahead
  <2>2. Ahead \in Nat /\ Ahead' = Ahead
    BY <1>0 DEF Ahead, Types
  <2>3. Ahead <= Len(pollfds) + 1 => Ahead <= Len(pollfds) + 1 + 1
    BY <1>5, <2>2
  <2> QED BY <1>0, <1>1, <1>6, <2>1, <2>2, <2>3 DEF Undisturbed, Connected, Peer, InTime
<1> QED BY <1>2, <1>3, <1>4, <1>7, <1>8 DEF Kept

LEMMA Removed ==
  ASSUME NEW S, NEW s \in Seq(S), NEW k \in 1 .. Len(s)
  PROVE  /\ ELP!RemoveAt(s, k) \in Seq(S) /\ Len(ELP!RemoveAt(s, k)) = Len(s) - 1
         /\ \A j \in 1 .. (Len(s) - 1) :
              ELP!RemoveAt(s, k)[j] = IF j < k THEN s[j] ELSE s[j + 1]
<1> DEFINE a == SubSeq(s, 1, k - 1)
           b == SubSeq(s, k + 1, Len(s))
<1>1. a \in Seq(S) /\ Len(a) = k - 1 /\ \A j \in 1 .. (k - 1) : a[j] = s[j]
  <2>1. \A j \in 1 .. (k - 1) : s[j] \in S
    BY ElementOfSeq
  <2> QED BY <2>1, SubSeqProperties
<1>2. b \in Seq(S) /\ Len(b) = Len(s) - k /\ \A j \in 1 .. (Len(s) - k) : b[j] = s[k + j]
  <2>1. \A j \in (k + 1) .. Len(s) : s[j] \in S
    BY ElementOfSeq
  <2> QED BY <2>1, SubSeqProperties
<1>3. ELP!RemoveAt(s, k) = a \o b
  BY DEF ELP!RemoveAt
<1> HIDE DEF a, b
<1> QED BY <1>1, <1>2, <1>3, ConcatProperties

\* Position i is deleted, with the connection that may be there: later entries
\* move, and stdinReader looks at some of them no more.
LEMMA DeleteKeeps ==
  ASSUME BInv, pc = "handler", EL!DelAt(i), open' = open \ {me}, moved' = TRUE, pc' = "scan",
         UNCHANGED <<added, line, got, born, running, input>>,
         DOMAIN conn' \subseteq DOMAIN conn \ {me}, conn' \in [DOMAIN conn' -> 1 .. Count],
         \A f \in DOMAIN conn' : conn'[f] = conn[f],
         \/ reader' = reader /\ (reader.at # "failed" => me # Stdin)
         \/ reader' = [reader EXCEPT !.at = "failed"] /\ reader.at = "write"
  PROVE  Kept'
<1> USE DEF BInv
<1>0. /\ reader'.k = reader.k /\ reader'.target = reader.target /\ reader'.put = reader.put
      /\ reader' \in [at : {"read", "next", "write", "failed"}, k : Nat \ {0},
                      target : Fds, put : Nat]
      /\ reader' = reader \/ reader'.at = "failed"
      /\ Count' = Count
  BY DEF Types, Count
<1>1. /\ \A q \in DOMAIN pollfds' :
           \E p \in DOMAIN pollfds : q <= p /\ pollfds'[q].fd = pollfds[p].fd
      /\ DOMAIN pollfds' \subseteq Nat /\ DOMAIN pollfds \subseteq Nat
  <2> DEFINE n == Len(pollfds)
  <2>1. /\ n \in Nat /\ i \in 1 .. n /\ pollfds \in Seq(ELP!Entries) /\ DOMAIN pollfds = 1 .. n
        /\ pollfds' = ELP!RemoveAt(pollfds, i)
    BY Facts DEF EL!DelAt, EL!DropAt, EL!RemoveAt, ELP!RemoveAt
  <2>2. /\ pollfds' \in Seq(ELP!Entries) /\ Len(pollfds') = n - 1
        /\ \A j \in 1 .. (n - 1) : pollfds'[j] = IF j < i THEN pollfds[j] ELSE pollfds[j + 1]
    <3> HIDE DEF BInv
    <3>1. i \in 1 .. Len(pollfds) /\ pollfds \in Seq(ELP!Entries)
      BY <2>1
    <3>2. /\ ELP!RemoveAt(pollfds, i) \in Seq(ELP!Entries)
          /\ Len(ELP!RemoveAt(pollfds, i)) = Len(pollfds) - 1
          /\ \A j \in 1 .. (Len(pollfds) - 1) :
               ELP!RemoveAt(pollfds, i)[j] = IF j < i THEN pollfds[j] ELSE pollfds[j + 1]
      BY <3>1, Removed
    <3> QED BY <2>1, <3>2
  <2>3. DOMAIN pollfds' = 1 .. (n - 1)
    BY <2>2, LenProperties
  <2> HIDE DEF n
  <2>4. ASSUME NEW q \in 1 .. (n - 1)
        PROVE  \E p \in 1 .. n : q <= p /\ pollfds'[q].fd = pollfds[p].fd
    <3>1. q \in 1 .. n /\ q + 1 \in 1 .. n /\ q <= q /\ q <= q + 1
      BY <2>1
    <3> QED BY <2>2, <3>1
  <2> QED BY <2>1, <2>3, <2>4
<1>2. Types'
  BY <1>0 DEF Types
<1>3. Conns'
  <2>1. conn' \in [DOMAIN conn' -> 1 .. Count'] /\ DOMAIN conn' \subseteq open' \ {Listener}
        /\ \A f, g \in DOMAIN conn' : conn'[f] = conn'[g] => f = g
    BY <1>0 DEF Conns
  <2>2. reader'.at # "failed" => Stdin \notin DOMAIN conn' /\ (added' => Stdin \in open')
    BY <1>0 DEF Conns
  <2>3. ~added' => Stdin \notin open'
    BY DEF Conns
  <2> QED BY <2>1, <2>2, <2>3 DEF Conns
<1>4. Range(conn') \subseteq Range(conn)
  BY DEF Range
<1>5. History'
  <2>1. \A c, l, r, m : Has(c, l, r, m) => Has(c, l, r, m)'
    BY DEF Has
  <2> QED BY <1>0, <1>4, <2>1 DEF History
<1>6. Shares'
  <2>1. SUFFICES ASSUME line # 0, NEW q \in DOMAIN pollfds', Connected(q)'
                 PROVE  \E r, m \in Nat : Has(Peer(q), line, r, m)' /\ Share(q, r, m)'
    BY DEF Shares
  <2>2. PICK p \in DOMAIN pollfds : q <= p /\ pollfds'[q].fd = pollfds[p].fd
    BY <1>1
  <2>3. Connected(p) /\ Peer(q)' = Peer(p) /\ p \in Nat /\ q \in Nat /\ pollfds[p].fd \in open
    BY <1>1, <2>1, <2>2, Facts DEF Connected, Peer
  <2>4. PICK r \in Nat, m \in Nat : Has(Peer(p), line, r, m) /\ Share(p, r, m)
    BY <2>1, <2>3 DEF Shares
  <2>5. Has(Peer(q), line, r, m)'
    BY <2>3, <2>4 DEF Has
  <2>6. Share(q, r, m)'
    <3>1. Ahead \in Nat /\ (p < Ahead => q < Ahead)
      BY <2>2, <2>3 DEF Types, Ahead
    <3>2. CASE reader' = reader
      <4>1. Ahead' = Ahead
        BY <3>2 DEF Ahead
      <4> QED BY <2>2, <2>4, <3>1, <3>2, <4>1 DEF Share, Settled
    <3>3. CASE reader' # reader
      <4>1. reader'.at = "failed"
        BY <1>0, <3>3
      <4> QED BY <4>1 DEF Share
    <3> QED BY <3>2, <3>3
  <2> QED BY <2>5, <2>6
<1>7. Undisturbed'
  BY DEF Undisturbed
<1> QED BY <1>2, <1>3, <1>5, <1>6, <1>7 DEF Kept

-----------------------------------------------------------------------------
(* A connection is accepted. *)

LEMMA AcceptKeeps ==
  ASSUME BInv, Accept
  PROVE  Kept'
<1> USE DEF BInv
<1>1. PICK f \in Fds \ (open \cup (IF added THEN {} ELSE {Stdin})), c \in Coros \ EL!live :
        /\ conn' = [g \in DOMAIN conn \cup {f} |-> IF g = f THEN Count + 1 ELSE conn[g]]
        /\ pollfds' = Append(pollfds, EL!Slot(f))
        /\ open' = open \cup {f}
  BY DEF Accept
<1>2. /\ got' = Append(got, [l \in 1 .. MaxLines |-> <<>>])
      /\ born' = Append(born, IF reader.at = "write" THEN line ELSE 0)
      /\ pc = "handler" /\ pc' = "scan" /\ me = Listener /\ me \in open
      /\ UNCHANGED <<running, added, reader, input, line, moved>>
  BY Facts DEF Accept, Runs
<1>0. PICK new \in Nat : new = Count + 1
  BY Facts
<1>3. new = Count + 1 /\ Count \in Nat /\ MaxLines \in Nat /\ Line \in Nat
  BY <1>0, Facts
<1>4. /\ got' \in Seq([1 .. MaxLines -> Seq(Nat)]) /\ Len(got') = new
      /\ \A d \in 1 .. Count : got'[d] = got[d]
      /\ \A l \in 1 .. MaxLines : got'[new][l] = <<>>
  <2> DEFINE e == [l \in 1 .. MaxLines |-> <<>>]
  <2>1. e \in [1 .. MaxLines -> Seq(Nat)] /\ \A l \in 1 .. MaxLines : e[l] = <<>>
    BY EmptySeq
  <2>2. got \in Seq([1 .. MaxLines -> Seq(Nat)]) /\ got' = Append(got, e) /\ Count = Len(got)
    BY <1>2 DEF Types, Count
  <2> HIDE DEF e
  <2> QED BY <1>3, <2>1, <2>2, AppendProperties
<1>5. /\ born' \in Seq(Nat) /\ Len(born') = new
      /\ \A d \in 1 .. Count : born'[d] = born[d]
      /\ reader.at = "write" => born'[new] = line
  <2>1. born \in Seq(Nat) /\ Len(born) = Count /\ line \in Nat
    BY DEF Types, Count
  <2> QED BY <1>2, <1>3, <2>1, AppendProperties
<1>6. /\ Len(pollfds) \in Nat /\ DOMAIN pollfds = 1 .. Len(pollfds)
      /\ Len(pollfds') = Len(pollfds) + 1 /\ DOMAIN pollfds' = 1 .. (Len(pollfds) + 1)
      /\ \A p \in DOMAIN pollfds : pollfds'[p] = pollfds[p]
      /\ pollfds'[Len(pollfds) + 1].fd = f
      /\ \A p \in DOMAIN pollfds : pollfds[p].fd \in open
  <2>1. EL!Slot(f) \in ELP!Entries /\ EL!Slot(f).fd = f
    BY DEF EL!Slot, ELP!Entries
  <2>2. pollfds \in Seq(ELP!Entries) /\ Len(pollfds) \in Nat /\ DOMAIN pollfds = 1 .. Len(pollfds)
        /\ \A p \in DOMAIN pollfds : pollfds[p].fd \in open
    BY Facts
  <2> HIDE DEF BInv
  <2> QED BY <1>1, <2>1, <2>2, AppendProperties, LenProperties
<1>7. Count' = new
  BY <1>4 DEF Count
<1>8. Types'
  BY <1>2, <1>4, <1>5 DEF Types, Count
<1>9. /\ f \notin open /\ f \in Fds /\ f # Listener /\ f \notin DOMAIN conn
      /\ DOMAIN conn' = DOMAIN conn \cup {f} /\ conn'[f] = new
      /\ \A g \in DOMAIN conn : conn'[g] = conn[g] /\ conn[g] \in 1 .. Count /\ g \in open
      /\ Range(conn') = Range(conn) \cup {new}
  <2>1. \A g \in DOMAIN conn : conn[g] \in 1 .. Count /\ g \in open
    BY DEF Conns
  <2> QED BY <1>1, <1>2, <1>3, <2>1 DEF Range
<1>10. \A a, b \in 1 .. new : a \in 1 .. Count \/ a = new
  BY <1>3
<1>11. new \notin 1 .. Count /\ \A a \in 1 .. Count : a \in 1 .. new
  BY <1>3
<1>12. Conns'
  <2>1. conn' \in [DOMAIN conn' -> 1 .. Count']
    <3>1. new \in 1 .. new
      BY <1>3
    <3>2. \A g \in DOMAIN conn' : conn'[g] \in 1 .. new
      BY <1>9, <1>11, <3>1
    <3> HIDE DEF BInv
    <3>3. conn' = [g \in DOMAIN conn' |-> conn'[g]]
      BY <1>1
    <3> QED BY <1>7, <3>2, <3>3
  <2>2. DOMAIN conn' \subseteq open' \ {Listener}
    BY <1>1, <1>9 DEF Conns
  <2>3. \A g, h \in DOMAIN conn' : conn'[g] = conn'[h] => g = h
    BY <1>9, <1>11 DEF Conns
  <2>4. reader'.at # "failed" => Stdin \notin DOMAIN conn' /\ (added' => Stdin \in open')
    BY <1>1, <1>2, <1>9 DEF Conns
  <2>5. ~added' => Stdin \notin open'
    BY <1>1, <1>2 DEF Conns
  <2> QED BY <2>1, <2>2, <2>3, <2>4, <2>5 DEF Conns
\* What the others have is what they had; the new one has nothing yet.
<1>13. \A d \in 1 .. Count, l \in 1 .. MaxLines, r \in Nat, m \in Nat :
         Has(d, l, r, m) => Has(d, l, r, m)'
  BY <1>4, <1>5 DEF Has
<1>14. \A l \in 1 .. MaxLines, r \in Nat :
         r <= Line /\ (r # 0 => l = line /\ reader.at = "write") => Has(new, l, r, 0)'
  <2> TAKE l \in 1 .. MaxLines, r \in Nat
  <2> HAVE r <= Line /\ (r # 0 => l = line /\ reader.at = "write")
  <2>1. got'[new][l] = Sent(r, 0)
    BY <1>4, SentNone
  <2>2. 0 \in Nat /\ 0 <= r + Line
    BY <1>3
  <2>3. r # 0 => born'[new] = l
    BY <1>5
  <2> QED BY <2>1, <2>2, <2>3 DEF Has
<1>15. History'
  <2>1. SUFFICES ASSUME NEW d \in 1 .. new, NEW l \in 1 .. MaxLines
        PROVE  /\ l > line => got'[d][l] = <<>>
               /\ l <= line => \E r, m \in Nat :
                    Has(d, l, r, m)' /\ (l < line /\ d \in Range(conn') => Settled(r, m))
    BY <1>2, <1>7 DEF History, Settled
  <2>2. CASE d = new
    <3>1. 0 \in Nat /\ 0 <= Line /\ Settled(0, 0)
      BY <1>3 DEF Settled
    <3>2. Has(new, l, 0, 0)'
      BY <1>14, <3>1
    <3>3. Has(d, l, 0, 0)'
      BY <2>2, <3>2
    <3> QED BY <1>4, <2>2, <3>1, <3>3
  <2>3. CASE d \in 1 .. Count
    <3>1. d \in Range(conn') => d \in Range(conn)
      BY <1>9, <1>11, <2>3
    <3> QED BY <1>4, <1>13, <2>3, <3>1 DEF History
  <2> QED BY <1>10, <2>2, <2>3
<1>16. Ahead \in Nat /\ Ahead' = Ahead
  BY <1>2 DEF Types, Ahead
<1>17. ASSUME NEW p \in DOMAIN pollfds', Connected(p)'
       PROVE  \/ p \in DOMAIN pollfds /\ Connected(p) /\ Peer(p)' = Peer(p) /\ Peer(p) \in 1 .. Count
              \/ p = Len(pollfds) + 1 /\ Peer(p)' = new
  BY <1>6, <1>9, <1>17 DEF Connected, Peer
<1>18. Shares'
  <2>1. SUFFICES ASSUME line # 0, NEW p \in DOMAIN pollfds', Connected(p)'
                 PROVE  \E r, m \in Nat : Has(Peer(p), line, r, m)' /\ Share(p, r, m)'
    BY <1>2 DEF Shares
  <2>2. line \in 1 .. MaxLines
    BY <1>3, <2>1 DEF Types
  <2>3. CASE p \in DOMAIN pollfds /\ Connected(p) /\ Peer(p)' = Peer(p) /\ Peer(p) \in 1 .. Count
    <3>1. PICK r \in Nat, m \in Nat : Has(Peer(p), line, r, m) /\ Share(p, r, m)
      BY <2>1, <2>3 DEF Shares
    <3>2. Has(Peer(p), line, r, m)'
      <4>1. Has(Peer(p), line, r, m) /\ Peer(p)' = Peer(p) /\ line' = line
        BY <1>2, <2>3, <3>1
      <4>2. got'[Peer(p)] = got[Peer(p)] /\ born'[Peer(p)] = born[Peer(p)]
        BY <1>4, <1>5, <2>3
      <4> QED BY <4>1, <4>2 DEF Has
    <3>3. Share(p, r, m)'
      BY <1>2, <1>6, <1>16, <2>3, <3>1 DEF Share, Settled
    <3> QED BY <3>2, <3>3
  <2>4. CASE p = Len(pollfds) + 1 /\ Peer(p)' = new
    <3>1. CASE reader.at = "write" /\ reader.target = f
      <4>1. reader.put \in Nat /\ reader.put < Line
        BY <3>1 DEF Types
      <4>2. PICK r \in Nat : r + reader.put = Line
        <5>1. Line - reader.put \in Nat /\ (Line - reader.put) + reader.put = Line
          BY <1>3, <4>1
        <5> QED BY <5>1
      <4>3. Has(Peer(p), line, r, 0)'
        <5>1. Has(new, line, r, 0)'
          BY <1>2, <1>3, <1>14, <2>2, <3>1, <4>1, <4>2
        <5> QED BY <1>7, <2>4, <5>1 DEF Has
      <4>4. Share(p, r, 0)'
        BY <1>2, <1>3, <1>6, <2>4, <3>1, <4>2 DEF Share
      <4> QED BY <4>3, <4>4
    <3>2. CASE ~(reader.at = "write" /\ reader.target = f)
      <4>1. 0 \in Nat /\ 0 <= Line
        BY <1>3
      <4>2. Has(Peer(p), line, 0, 0)'
        <5>1. Has(new, line, 0, 0)'
          BY <1>2, <1>14, <2>2, <4>1
        <5> QED BY <1>7, <2>4, <5>1 DEF Has
      <4>3. Share(p, 0, 0)'
        BY <1>2, <1>6, <2>4, <3>2 DEF Share, Settled
      <4> QED BY <4>1, <4>2, <4>3
    <3> QED BY <3>1, <3>2
  <2> QED BY <1>17, <2>1, <2>3, <2>4
<1>19. Undisturbed'
  <2>1. SUFFICES ASSUME ~moved, reader.at \in {"next", "write"}
        PROVE  /\ Ahead' <= Len(pollfds') + 1
               /\ reader.at = "write" => pollfds'[reader.k].fd = reader.target
               /\ \A p \in DOMAIN pollfds' :
                    p # 1 /\ Connected(p)' => got'[Peer(p)'][line] = Sent(0, InTime(p)')
    BY <1>2 DEF Undisturbed
  <2>2. Ahead <= Len(pollfds) + 1 /\ line \in 1 .. MaxLines
    BY <1>3, <2>1 DEF Undisturbed, Types
  <2>3. reader.at = "write" => pollfds'[reader.k].fd = reader.target
    <3>1. reader.at = "write" => reader.k \in DOMAIN pollfds
      BY <1>6, <2>2 DEF Ahead, Types
    <3> QED BY <1>6, <2>1, <3>1 DEF Undisturbed
  <2>4. ASSUME NEW p \in DOMAIN pollfds', p # 1, Connected(p)'
        PROVE  got'[Peer(p)'][line] = Sent(0, InTime(p)')
    <3>1. InTime(p)' = InTime(p)
      BY <1>2, <1>16 DEF InTime
    <3>2. CASE p \in DOMAIN pollfds /\ Connected(p) /\ Peer(p)' = Peer(p) /\ Peer(p) \in 1 .. Count
      BY <1>4, <2>1, <2>4, <3>1, <3>2 DEF Undisturbed
    <3>3. CASE p = Len(pollfds) + 1 /\ Peer(p)' = new
      <4>1. InTime(p) = 0
        BY <1>6, <1>16, <2>2, <3>3 DEF InTime
      <4>2. 0 \in Nat /\ 0 <= Line
        BY <1>3
      <4> QED BY <1>4, <2>2, <3>1, <3>3, <4>1, <4>2, SentNone
    <3> QED BY <1>17, <2>4, <3>2, <3>3
  <2>5. Ahead' <= Len(pollfds') + 1
    BY <1>6, <1>16, <2>2
  <2> QED BY <2>3, <2>4, <2>5
<1> QED BY <1>8, <1>12, <1>15, <1>18, <1>19 DEF Kept

-----------------------------------------------------------------------------
(* stdinReader *)

\* What its own steps leave alone.
Alone ==
  UNCHANGED <<added, conn, open, running, coros, pollfds, home, born>> /\ pc' # "exited"

LEMMA ReadLineKeeps ==
  ASSUME BInv, ReadLine
  PROVE  Kept'
<1> USE DEF BInv
<1>0. /\ Alone /\ pc = "handler" /\ me = Stdin /\ got' = got /\ moved' = FALSE
      /\ reader.at = "read" /\ input \in Nat /\ line \in Nat /\ input > 0
      /\ input' = input - 1 /\ line' = line + 1
      /\ reader' = [reader EXCEPT !.at = "next", !.k = 1]
  BY DEF ReadLine, Runs, Alone, loop, Types
<1>1. /\ reader' \in [at : {"read", "next", "write", "failed"}, k : Nat \ {0},
                      target : Fds, put : Nat]
      /\ reader'.at = "next" /\ reader'.k = 1
  <2>1. 1 \in Nat \ {0}
    OBVIOUS
  <2> QED BY <1>0, <2>1 DEF Types
<1>2. input' \in Nat /\ line' \in Nat /\ input' + line' = input + line /\ line' # 0
  BY <1>0
<1>3. Types'
  BY <1>0, <1>1, <1>2 DEF Types, Alone
<1>4. Conns'
  BY <1>0, <1>1 DEF Conns, Alone, Count
<1>5. Count \in Nat /\ Line \in Nat /\ MaxLines \in Nat /\ line' \in 1 .. MaxLines
      /\ 0 \in Nat /\ 0 <= Line /\ Count' = Count
  <2>1. Count \in Nat /\ Line \in Nat /\ MaxLines \in Nat
    BY Facts
  <2>2. input + line <= MaxLines
    BY DEF Types
  <2>3. line' \in 1 .. MaxLines
    <3> HIDE DEF BInv
    <3> QED BY <1>0, <1>2, <2>1, <2>2
  <2>4. Count' = Count
    BY <1>0 DEF Count
  <2> QED BY <2>1, <2>3, <2>4
\* Of the new line nobody has anything, of the one before nothing is half done.
<1>6. \A c \in 1 .. Count : got[c][line'] = Sent(0, 0)
  <2> TAKE c \in 1 .. Count
  <2>1. line' > line
    BY <1>0
  <2> QED BY <1>5, <2>1, SentNone DEF History
<1>7. ASSUME NEW c \in Range(conn), line # 0
      PROVE  \E r, m \in Nat : Has(c, line, r, m) /\ Settled(r, m)
  <2>1. PICK f \in DOMAIN conn : c = conn[f]
    BY <1>7 DEF Range
  <2>2. PICK p \in DOMAIN pollfds : pollfds[p].fd = f
    BY Facts DEF Conns
  <2> QED BY <1>0, <1>7, <2>1, <2>2 DEF Shares, Share, Connected, Peer
<1>8. History'
  <2>1. SUFFICES ASSUME NEW c \in 1 .. Count, NEW l \in 1 .. MaxLines
        PROVE  /\ l > line' => got[c][l] = <<>>
               /\ l <= line' => \E r, m \in Nat :
                    Has(c, l, r, m) /\ (l < line' /\ c \in Range(conn) => Settled(r, m))
    <3>1. \A c, l, r, m : Has(c, l, r, m)' <=> Has(c, l, r, m)
      BY <1>0 DEF Has, Alone
    <3>2. Range(conn') = Range(conn) /\ got' = got
      BY <1>0 DEF Alone, Range
    <3> HIDE DEF BInv
    <3> QED BY <1>5, <3>1, <3>2 DEF History, Settled
  <2>2. l > line' => l > line
    BY <1>0
  <2>3. CASE l = line'
    <3>1. Has(c, l, 0, 0) /\ Settled(0, 0)
      BY <1>5, <1>6, <2>3 DEF Has, Settled
    <3> QED BY <1>5, <2>3, <3>1
  <2>4. CASE l < line'
    <3>1. l <= line /\ l \in Nat /\ ~(l > line')
      BY <1>0, <2>4
    <3>2. CASE l = line /\ c \in Range(conn)
      <4>1. line # 0
        BY <3>2
      <4>2. c \in Range(conn) => \E r, m \in Nat : Has(c, l, r, m) /\ Settled(r, m)
        BY <1>7, <3>2, <4>1
      <4> QED BY <3>1, <3>2, <4>2
    <3>3. CASE ~(l = line /\ c \in Range(conn))
      <4>1. PICK r \in Nat, m \in Nat :
              Has(c, l, r, m) /\ (l < line /\ c \in Range(conn) => Settled(r, m))
        BY <3>1 DEF History
      <4>2. l # line => l < line
        BY <1>0, <3>1
      <4>3. l < line' /\ c \in Range(conn) => Settled(r, m)
        BY <3>3, <4>1, <4>2
      <4> QED BY <3>1, <4>1, <4>3
    <3> QED BY <3>2, <3>3
  <2>5. l > line' \/ l = line' \/ l < line'
    BY <1>2
  <2> QED BY <1>2, <2>2, <2>3, <2>4, <2>5 DEF History
<1>9. Ahead' = 1 /\ \A p \in DOMAIN pollfds : p \in Nat /\ p >= 1 /\ p >= Ahead'
  BY <1>1, Facts DEF Ahead
<1>10. \A p \in DOMAIN pollfds : Connected(p) => Peer(p) \in 1 .. Count
  BY DEF Connected, Peer, Conns
<1>11. Shares'
  <2>1. SUFFICES ASSUME NEW p \in DOMAIN pollfds, Connected(p)
                 PROVE  Has(Peer(p), line, 0, 0)' /\ Share(p, 0, 0)'
    BY <1>0, <1>5 DEF Shares, Alone, Connected
  <2>2. Has(Peer(p), line, 0, 0)'
    BY <1>0, <1>5, <1>6, <1>10, <2>1 DEF Has, Alone, Peer
  <2>3. Share(p, 0, 0)'
    BY <1>1 DEF Share, Settled
  <2> QED BY <2>2, <2>3
<1>12. Undisturbed'
  <2>1. Ahead' <= Len(pollfds') + 1
    BY <1>0, <1>9, Facts DEF Alone
  <2>2. \A p \in DOMAIN pollfds : InTime(p)' = 0
    BY <1>1, <1>9 DEF InTime
  <2> QED BY <1>0, <1>1, <1>6, <1>10, <2>1, <2>2 DEF Undisturbed, Alone, Connected, Peer
<1> QED BY <1>3, <1>4, <1>8, <1>11, <1>12 DEF Kept

\* The positions it passes over are its own and the first.
LEMMA NextTargetKeeps ==
  ASSUME BInv, NextTarget
  PROVE  Kept'
<1> USE DEF BInv
<1>0. /\ Alone /\ UNCHANGED <<got, line, moved, input>> /\ reader.at = "next"
      /\ Len(pollfds) \in Nat /\ DOMAIN pollfds = 1 .. Len(pollfds)
      /\ \A p \in DOMAIN pollfds : pollfds[p].fd \in Fds
      /\ reader.k \in Nat \ {0}
      /\ \A p, q \in DOMAIN pollfds : pollfds[p].fd = pollfds[q].fd => p = q
  BY Facts DEF NextTarget, Runs, Alone, loop, env, hist, Types
<1>1. PICK j \in Targets(reader.k) :
        /\ \A l \in Targets(reader.k) : j <= l
        /\ reader' = [at |-> "write", k |-> j, target |-> pollfds[j].fd, put |-> 0]
  BY DEF NextTarget
<1>2. j \in DOMAIN pollfds /\ j \in Nat \ {0} /\ j >= reader.k /\ j <= Len(pollfds)
  BY <1>0 DEF Targets
<1>3. /\ reader'.at = "write" /\ reader'.k = j /\ reader'.target = pollfds[j].fd /\ reader'.put = 0
      /\ reader' \in [at : {"read", "next", "write", "failed"}, k : Nat \ {0},
                      target : Fds, put : Nat]
  BY <1>0, <1>1, <1>2
<1>4. Ahead = reader.k /\ Ahead' = j + 1
  BY <1>0, <1>3 DEF Ahead
<1>5. 0 < Line
  BY DEF BroadcastAssumption
<1>6. Types'
  BY <1>0, <1>3, <1>5 DEF Types, Alone
<1>7. Conns'
  BY <1>0, <1>3 DEF Conns, Alone, Count
<1>8. History'
  BY <1>0 DEF History, Has, Alone, Count
<1>9. ASSUME NEW p \in DOMAIN pollfds, Connected(p), p >= reader.k, p < j
      PROVE  p = 1
  <2>1. p \notin Targets(reader.k) /\ p \in reader.k .. Len(pollfds)
    BY <1>0, <1>1, <1>2, <1>9
  <2>2. pollfds[p].fd # Stdin
    BY <1>0, <1>9 DEF Connected, Conns
  <2> QED BY <2>1, <2>2 DEF Targets
<1>10. Shares'
  <2>1. SUFFICES ASSUME line # 0, NEW p \in DOMAIN pollfds, Connected(p)
                 PROVE  \E r, m \in Nat : Has(Peer(p), line, r, m)' /\ Share(p, r, m)'
    BY <1>0 DEF Shares, Alone, Connected
  <2>2. PICK r \in Nat, m \in Nat : Has(Peer(p), line, r, m) /\ Share(p, r, m)
    BY <2>1 DEF Shares
  <2>3. Has(Peer(p), line, r, m)'
    BY <1>0, <2>2 DEF Has, Alone, Peer
  <2>4. IF p < reader.k THEN Settled(r, m) ELSE m = r
    BY <1>0, <1>4, <2>2 DEF Share
  <2>5. p \in Nat
    BY <1>0
  <2>6. Share(p, r, m)'
    <3>1. CASE p = j
      <4>1. ~(p < reader.k) /\ p < j + 1 /\ m = r + 0
        BY <1>0, <1>2, <2>2, <2>4, <3>1
      <4>2. /\ p < Ahead' /\ m = r + reader'.put
            /\ reader'.at = "write" /\ reader'.target = pollfds'[p].fd
        BY <1>0, <1>3, <1>4, <3>1, <4>1 DEF Alone
      <4> HIDE DEF BInv
      <4> QED BY <4>2 DEF Share
    <3>2. CASE p # j
      <4>1. pollfds'[p].fd # reader'.target
        BY <1>0, <1>2, <1>3, <3>2 DEF Alone
      <4>2. IF p < j + 1 THEN Settled(r, m) ELSE m = r
        BY <1>0, <1>2, <2>4, <2>5, <3>2 DEF Settled
      <4> QED BY <1>3, <1>4, <4>1, <4>2 DEF Share
    <3> QED BY <3>1, <3>2
  <2> QED BY <2>3, <2>6
<1>11. Undisturbed'
  <2>1. SUFFICES ASSUME ~moved
        PROVE  /\ Ahead' <= Len(pollfds') + 1
               /\ pollfds'[j].fd = reader'.target
               /\ \A p \in DOMAIN pollfds :
                    p # 1 /\ Connected(p) => got[Peer(p)][line] = Sent(0, InTime(p)')
    BY <1>0, <1>3 DEF Undisturbed, Alone, Connected, Peer
  <2>2. Ahead' <= Len(pollfds') + 1 /\ pollfds'[j].fd = reader'.target
    BY <1>0, <1>2, <1>3, <1>4 DEF Alone
  <2>3. ASSUME NEW p \in DOMAIN pollfds, p # 1, Connected(p)
        PROVE  got[Peer(p)][line] = Sent(0, InTime(p)')
    <3>1. got[Peer(p)][line] = Sent(0, InTime(p))
      BY <1>0, <2>1, <2>3 DEF Undisturbed
    <3>2. p \in Nat /\ (p >= reader.k => p >= j)
      BY <1>0, <1>2, <1>9, <2>3
    <3>3. InTime(p) = IF p >= reader.k THEN 0 ELSE Line
      BY <1>0, <1>4 DEF InTime
    <3>4. InTime(p)' = IF p >= j + 1 THEN 0 ELSE IF p = j THEN 0 ELSE Line
      BY <1>3, <1>4 DEF InTime
    <3>5. InTime(p)' = InTime(p)
      <4>1. CASE p >= reader.k
        <5>1. p >= j + 1 \/ p = j
          BY <1>2, <3>2, <4>1
        <5> QED BY <3>3, <3>4, <4>1, <5>1
      <4>2. CASE ~(p >= reader.k)
        <5>1. ~(p >= j + 1) /\ p # j
          BY <1>0, <1>2, <3>2, <4>2
        <5> QED BY <3>3, <3>4, <4>2, <5>1
      <4> QED BY <4>1, <4>2
    <3> QED BY <3>1, <3>5
  <2> QED BY <2>2, <2>3
<1> QED BY <1>6, <1>7, <1>8, <1>10, <1>11 DEF Kept

\* Nobody is left to be written to, or the rest of the line waits.
LEMMA YieldKeeps ==
  ASSUME BInv, EL!Yield, UNCHANGED <<open, added, conn, env, hist>>, pc = "handler",
         \/ UNCHANGED reader
         \/ /\ reader' = [reader EXCEPT !.at = "read"]
            /\ reader.at = "next" /\ Targets(reader.k) = {}
  PROVE  Kept'
<1> USE DEF BInv
<1>0. /\ UNCHANGED <<added, conn, open, line, got, born, moved, running, input, pollfds>>
      /\ pc' = "scan" /\ input \in Nat /\ input + line <= MaxLines
  BY DEF EL!Yield, EL!SwitchBack, EL!Goes, EL!Stays, env, hist, Types
<1>1. CASE UNCHANGED reader
  <2> HIDE DEF BInv
  <2> QED BY <1>0, <1>1, QuietKeeps
<1>2. CASE /\ reader' = [reader EXCEPT !.at = "read"]
           /\ reader.at = "next" /\ Targets(reader.k) = {}
  <2>0. /\ reader'.at = "read"
        /\ reader' \in [at : {"read", "next", "write", "failed"}, k : Nat \ {0},
                        target : Fds, put : Nat]
    BY <1>2 DEF Types
  <2>1. Types'
    BY <1>0, <2>0 DEF Types
  <2>2. Conns'
    BY <1>0, <1>2, <2>0 DEF Conns, Count
  <2>3. History'
    BY <1>0 DEF History, Has, Count
  <2>4. Shares'
    <3>1. SUFFICES ASSUME line # 0, NEW p \in DOMAIN pollfds, Connected(p)
                   PROVE  \E r, m \in Nat : Has(Peer(p), line, r, m)' /\ Share(p, r, m)'
      BY <1>0 DEF Shares, Connected
    <3>2. PICK r \in Nat, m \in Nat : Has(Peer(p), line, r, m) /\ Share(p, r, m)
      BY <3>1 DEF Shares
    <3>3. Has(Peer(p), line, r, m)'
      BY <1>0, <3>2 DEF Has, Peer
    <3>4. Share(p, r, m)'
      BY <1>2, <2>0, <3>2 DEF Share, Settled
    <3> QED BY <3>3, <3>4
  <2>5. Undisturbed'
    BY <2>0 DEF Undisturbed
  <2> QED BY <2>1, <2>2, <2>3, <2>4, <2>5 DEF Kept
<1> QED BY <1>1, <1>2

\* A write adds to what one connection has.
LEMMA WriteSomeKeeps ==
  ASSUME BInv, WriteSome
  PROVE  Kept'
<1> USE DEF BInv
<1>a. PICK f : f = reader.target
  OBVIOUS
<1>b. PICK c : c = conn[f]
  OBVIOUS
<1>c. PICK put : put = reader.put
  OBVIOUS
<1>0. /\ Alone /\ UNCHANGED <<line, moved, input>> /\ reader.at = "write" /\ f \in DOMAIN conn
      /\ line # 0 /\ line \in Nat /\ line <= MaxLines
      /\ reader.k \in Nat \ {0} /\ put \in Nat /\ put < Line
      /\ got \in Seq([1 .. MaxLines -> Seq(Nat)])
  <2>1. /\ UNCHANGED <<line, moved, input>> /\ reader.at = "write" /\ f \in DOMAIN conn
        /\ UNCHANGED <<added, conn, open, running, coros, pollfds, home, born>>
        /\ pc = "handler" /\ pc' = pc
    BY <1>a DEF WriteSome, Runs, loop, env
  <2>2. /\ line \in Nat /\ input \in Nat /\ input + line <= MaxLines /\ MaxLines \in Nat
        /\ got \in Seq([1 .. MaxLines -> Seq(Nat)])
    BY Facts DEF Types
  <2>3. line # 0 /\ reader.k \in Nat \ {0} /\ put \in Nat /\ put < Line
    BY <1>c, <2>1 DEF Types
  <2>4. line <= MaxLines
    BY <2>2
  <2> QED BY <2>1, <2>2, <2>3, <2>4 DEF Alone
<1>1. /\ Len(pollfds) \in Nat /\ DOMAIN pollfds = 1 .. Len(pollfds)
      /\ \A p, q \in DOMAIN pollfds : pollfds[p].fd = pollfds[q].fd => p = q
      /\ Count \in Nat /\ MaxLines \in Nat /\ Line \in Nat
  BY Facts
<1>2. PICK n \in 1 .. Line - put :
        /\ got' = [got EXCEPT ![c][line] = @ \o Chunk(put, n)]
        /\ reader' = IF put + n = Line
                     THEN [reader EXCEPT !.at = "next", !.k = NextIndex]
                     ELSE [reader EXCEPT !.put = @ + n]
  BY <1>a, <1>b, <1>c DEF WriteSome, Chunk
<1>3. n \in Nat /\ put + n <= Line /\ put + n \in Nat
      /\ (put + n # Line => put + n < Line)
  BY <1>0, <1>1
<1>4. c \in 1 .. Count /\ line \in 1 .. MaxLines /\ f \in open
  BY <1>0, <1>1, <1>b DEF Conns
<1>5. DOMAIN got = 1 .. Count /\ \A d \in 1 .. Count : got[d] \in [1 .. MaxLines -> Seq(Nat)]
  BY <1>0, LenProperties, ElementOfSeq DEF Count
<1>6. /\ got'[c][line] = got[c][line] \o Chunk(put, n)
      /\ \A d \in 1 .. Count, l \in 1 .. MaxLines :
           d # c \/ l # line => got'[d][l] = got[d][l]
  BY <1>2, <1>4, <1>5
<1>7. Count' = Count /\ got' \in Seq([1 .. MaxLines -> Seq(Nat)])
  <2>1. Chunk(put, n) \in Seq(Nat)
    BY <1>0, <1>3, ChunkIs
  <2>2. got[c][line] \o Chunk(put, n) \in Seq(Nat)
    <3>1. got[c][line] \in Seq(Nat)
      BY <1>4, <1>5
    <3> QED BY <2>1, <3>1, ConcatProperties
  <2> DEFINE row == [got[c] EXCEPT ![line] = @ \o Chunk(put, n)]
  <2>3. row \in [1 .. MaxLines -> Seq(Nat)]
    BY <1>4, <1>5, <2>2
  <2>4. got' = [got EXCEPT ![c] = row]
    BY <1>2
  <2> HIDE DEF row, BInv
  <2>5. got' \in Seq([1 .. MaxLines -> Seq(Nat)]) /\ Len(got') = Len(got)
    BY <1>0, <1>4, <2>3, <2>4, ExceptSeq DEF Count
  <2> QED BY <2>5 DEF Count
<1>8. /\ reader' \in [at : {"read", "next", "write", "failed"}, k : Nat \ {0},
                      target : Fds, put : Nat]
      /\ reader'.at \in {"next", "write"} /\ reader'.target = f
      /\ reader'.at = "write" => /\ put + n < Line
                                 /\ reader'.k = reader.k /\ reader'.put = put + n
      /\ reader'.at = "next" => put + n = Line /\ reader'.k = reader.k + 1
  <2>1. reader.k + 1 \in Nat \ {0}
    BY <1>0
  <2> QED BY <1>0, <1>2, <1>3, <1>a, <1>c, <2>1 DEF Types, NextIndex
<1>9. Types'
  BY <1>0, <1>7, <1>8 DEF Types, Alone, Count
<1>10. Conns'
  BY <1>0, <1>7, <1>8 DEF Conns, Alone
<1>11. Ahead = reader.k + 1 /\ Ahead' = reader.k + 1
  BY <1>0, <1>8 DEF Ahead
<1>12. PICK p0 \in DOMAIN pollfds : pollfds[p0].fd = f /\ Connected(p0) /\ Peer(p0) = c
  <2>1. PICK p0 \in DOMAIN pollfds : pollfds[p0].fd = f
    BY <1>4, Facts
  <2> QED BY <1>0, <1>b, <2>1 DEF Connected, Peer
\* What it has had and has now.
<1>13. PICK r0 \in Nat, m0 \in Nat :
         /\ Has(c, line, r0, m0)
         /\ m0 + Line = r0 + put \/ (p0 < reader.k + 1 /\ m0 = r0 + put)
  BY <1>0, <1>11, <1>12, <1>a, <1>c DEF Shares, Share
<1>14. m0 + n \in Nat /\ Has(c, line, r0, m0 + n)'
  <2>1. r0 <= Line /\ got[c][line] = Sent(r0, m0) /\ (r0 # 0 => born[c] = line)
    BY <1>13 DEF Has
  <2>2. got'[c][line] = Sent(r0, m0 + n)
    <3>1. BroadcastAssumption /\ Follow(r0, m0, put, n, m0 + n)
      BY <1>3, <1>13 DEF Follow
    <3> HIDE DEF BInv
    <3>2. put \in Nat /\ n \in Nat /\ r0 <= Line
      BY <1>0, <1>3, <2>1
    <3>3. Sent(r0, m0) \o Chunk(put, n) = Sent(r0, m0 + n)
      BY <3>1, <3>2, SentMore
    <3> QED BY <1>6, <2>1, <3>3
  <2>3. m0 + n \in Nat /\ m0 + n <= r0 + Line
    <3> HIDE DEF BInv
    <3> QED BY <1>0, <1>1, <1>3, <1>13
  <2>4. line' = line /\ born' = born
    BY <1>0 DEF Alone
  <2> QED BY <2>1, <2>2, <2>3, <2>4 DEF Has

\* What the others have is what they had.
<1>15. \A d \in 1 .. Count, l \in 1 .. MaxLines, r \in Nat, m \in Nat :
         (d # c \/ l # line) /\ Has(d, l, r, m) => Has(d, l, r, m)'
  BY <1>0, <1>6 DEF Has, Alone
<1>16. History'
  <2>1. SUFFICES ASSUME NEW d \in 1 .. Count, NEW l \in 1 .. MaxLines
        PROVE  /\ l > line => got'[d][l] = <<>>
               /\ l <= line => \E r, m \in Nat :
                    Has(d, l, r, m)' /\ (l < line /\ d \in Range(conn) => Settled(r, m))
    BY <1>0, <1>7 DEF History, Alone, Settled
  <2>2. CASE d = c /\ l = line
    <3>1. ~(l > line) /\ ~(l < line)
      BY <1>0, <2>2
    <3>2. Has(d, l, r0, m0 + n)'
      <4>1. line' = line
        BY <1>0
      <4> QED BY <1>14, <2>2, <4>1 DEF Has
    <3> QED BY <1>14, <3>1, <3>2
  <2>3. CASE d # c \/ l # line
    BY <1>6, <1>15, <2>3 DEF History
  <2> QED BY <2>2, <2>3
<1>17. ASSUME NEW p \in DOMAIN pollfds, Connected(p)
       PROVE  Peer(p) \in 1 .. Count /\ (p # p0 => Peer(p) # c /\ pollfds[p].fd # f)
  <2>1. p # p0 => pollfds[p].fd # f
    BY <1>1, <1>12
  <2> QED BY <1>0, <1>12, <1>17, <2>1 DEF Connected, Peer, Conns
<1>18. Shares'
  <2>1. SUFFICES ASSUME NEW p \in DOMAIN pollfds, Connected(p)
                 PROVE  \E r, m \in Nat : Has(Peer(p), line, r, m)' /\ Share(p, r, m)'
    BY <1>0 DEF Shares, Alone, Connected
  <2>2. CASE p = p0
    <3>1. Has(Peer(p), line, r0, m0 + n)'
      <4>1. Peer(p)' = c
        BY <1>0, <1>12, <2>2 DEF Alone, Peer
      <4> QED BY <1>14, <4>1 DEF Has
    <3>2. Share(p, r0, m0 + n)'
      <4>1. pollfds'[p].fd = f
        BY <1>0, <1>12, <2>2 DEF Alone
      <4>2. p0 \in Nat /\ r0 <= Line
        BY <1>1, <1>13 DEF Has
      <4>3. CASE reader'.at = "write"
        <5>1. \/ (m0 + n) + Line = r0 + reader'.put
              \/ p0 < reader.k + 1 /\ m0 + n = r0 + reader'.put
          <6>1. reader'.put = put + n
            BY <1>8, <4>3
          <6>2. m0 + Line = r0 + put => (m0 + n) + Line = r0 + (put + n)
            BY <1>0, <1>1, <1>3
          <6>3. m0 = r0 + put => m0 + n = r0 + (put + n)
            BY <1>0, <1>3
          <6> QED BY <1>13, <6>1, <6>2, <6>3
        <5> QED BY <1>8, <1>11, <2>2, <4>1, <4>3, <5>1 DEF Share
      <4>4. CASE reader'.at = "next"
        <5>1. m0 + n = r0 \/ (p0 < reader.k + 1 /\ m0 + n = r0 + Line)
          <6>1. put + n = Line
            BY <1>8, <4>4
          <6>2. m0 + Line = r0 + put => m0 + n = r0
            BY <1>0, <1>1, <1>3, <6>1
          <6>3. m0 = r0 + put => m0 + n = r0 + Line
            BY <1>0, <1>1, <1>3, <6>1
          <6> QED BY <1>13, <6>2, <6>3
        <5> QED BY <1>11, <2>2, <4>4, <5>1 DEF Share, Settled
      <4> QED BY <1>8, <4>3, <4>4
    <3> QED BY <1>14, <3>1, <3>2
  <2>3. CASE p # p0
    <3>1. PICK r \in Nat, m \in Nat : Has(Peer(p), line, r, m) /\ Share(p, r, m)
      BY <1>0, <2>1 DEF Shares
    <3>2. Has(Peer(p), line, r, m)'
      <4>1. Peer(p)' = Peer(p) /\ line' = line /\ born' = born
        BY <1>0 DEF Alone, Peer
      <4>2. got'[Peer(p)][line] = got[Peer(p)][line]
        BY <1>4, <1>6, <1>17, <2>1, <2>3
      <4> QED BY <3>1, <4>1, <4>2 DEF Has
    <3>3. IF p < reader.k + 1 THEN Settled(r, m) ELSE m = r
      BY <1>0, <1>11, <1>17, <1>a, <2>1, <2>3, <3>1 DEF Share
    <3>4. pollfds'[p].fd # f
      BY <1>0, <1>17, <2>1, <2>3 DEF Alone
    <3>5. Share(p, r, m)'
      BY <1>8, <1>11, <3>3, <3>4 DEF Share, Settled
    <3> QED BY <3>2, <3>5
  <2> QED BY <2>2, <2>3
<1>19. Undisturbed'
  <2>1. SUFFICES ASSUME ~moved
        PROVE  /\ Ahead' <= Len(pollfds) + 1
               /\ reader'.at = "write" => pollfds[reader'.k].fd = reader'.target
               /\ \A p \in DOMAIN pollfds :
                    p # 1 /\ Connected(p) => got'[Peer(p)][line] = Sent(0, InTime(p)')
    BY <1>0 DEF Undisturbed, Alone, Connected, Peer
  <2>2. Ahead <= Len(pollfds) + 1 /\ pollfds[reader.k].fd = f /\ reader.k = p0
    <3>1. Ahead <= Len(pollfds) + 1 /\ pollfds[reader.k].fd = f
      BY <1>0, <1>a, <2>1 DEF Undisturbed
    <3>2. reader.k \in DOMAIN pollfds
      BY <1>0, <1>1, <1>11, <3>1
    <3> QED BY <1>1, <1>12, <3>1, <3>2
  <2>3. ASSUME NEW p \in DOMAIN pollfds, p # 1, Connected(p)
        PROVE  got'[Peer(p)][line] = Sent(0, InTime(p)')
    <3>1. got[Peer(p)][line] = Sent(0, InTime(p))
      BY <1>0, <2>1, <2>3 DEF Undisturbed
    <3>2. p \in Nat
      BY <1>1
    <3>3. CASE p = p0
      <4>1. InTime(p) = put /\ InTime(p)' = put + n
        BY <1>0, <1>c, <1>8, <1>11, <2>2, <3>2, <3>3 DEF InTime
      <4>2. 0 \in Nat /\ 0 <= Line /\ put = 0 + put
        BY <1>0, <1>1
      <4>3. Sent(0, put) \o Chunk(put, n) = Sent(0, put + n)
        <5>1. BroadcastAssumption /\ Follow(0, put, put, n, put + n)
          BY <1>3, <1>c, <4>2 DEF Follow
        <5> HIDE DEF BInv
        <5>2. put \in Nat /\ n \in Nat /\ put + n <= Line
          BY <1>0, <1>3
        <5> QED BY <4>2, <5>1, <5>2, SentMore
      <4> QED BY <1>6, <1>12, <3>1, <3>3, <4>1, <4>3
    <3>4. CASE p # p0
      <4>1. InTime(p)' = InTime(p)
        BY <1>0, <1>8, <1>11, <2>2, <3>2, <3>4 DEF InTime
      <4> QED BY <1>4, <1>6, <1>17, <2>3, <3>1, <3>4, <4>1
    <3> QED BY <3>3, <3>4
  <2> QED BY <1>8, <1>11, <2>2, <2>3
<1> QED BY <1>9, <1>10, <1>16, <1>18, <1>19 DEF Kept

-----------------------------------------------------------------------------
(* Every step keeps the invariant. *)

LEMMA StepKeeps ==
  ASSUME BInv, [BroadcastNext]_broadcastVars
  PROVE  Kept'
<1>0. /\ input \in Nat /\ line \in Nat /\ input + line <= MaxLines /\ pc # "exited"
      /\ running = TRUE /\ MaxLines \in Nat
      /\ Conns /\ reader.at \in {"read", "next", "write", "failed"}
  BY Facts DEF BInv, Types
<1>1. CASE LoopRuns
  <2>1. UNCHANGED <<open, added, reader, conn, input, line, got, born, moved>>
    BY <1>1 DEF LoopRuns, env, hist
  <2>2. /\ running' = running /\ pc' # "exited"
        /\ DOMAIN pollfds' = DOMAIN pollfds /\ Len(pollfds') = Len(pollfds)
        /\ \A p \in DOMAIN pollfds : pollfds'[p].fd = pollfds[p].fd
    <3>1. CASE EL!Poll
      <4>1. /\ pollfds \in Seq(ELP!Entries) /\ Len(pollfds) \in Nat
            /\ DOMAIN pollfds = 1 .. Len(pollfds)
        BY Facts
      <4>2. /\ pollfds' = [k \in DOMAIN pollfds |-> [pollfds[k] EXCEPT !.revents = Kernel[pollfds[k].fd]]]
            /\ running' = running /\ pc' = "scan"
        BY <3>1 DEF EL!Poll
      <4>3. \A p \in DOMAIN pollfds : pollfds[p] \in ELP!Entries /\ pollfds[p].fd \in Fds
        <5>1. \A p \in 1 .. Len(pollfds) : pollfds[p] \in ELP!Entries
          BY <4>1, ElementOfSeq
        <5> QED BY <4>1, <5>1 DEF ELP!Entries
      <4>4. \A p \in DOMAIN pollfds : pollfds'[p].fd = pollfds[p].fd /\ pollfds'[p] \in ELP!Entries
        BY <4>2, <4>3, KernelIs DEF ELP!Entries
      <4>5. pollfds' \in [1 .. Len(pollfds) -> ELP!Entries]
        BY <4>1, <4>2, <4>4
      <4>6. pollfds' \in Seq(ELP!Entries)
        BY <4>1, <4>5, SeqDef
      <4>7. Len(pollfds') = Len(pollfds)
        <5>1. Len(pollfds') \in Nat /\ 1 .. Len(pollfds') = 1 .. Len(pollfds)
          BY <4>5, <4>6, LenProperties
        <5>2. Len(pollfds') <= Len(pollfds)
          BY <4>1, <5>1
        <5>3. Len(pollfds) <= Len(pollfds')
          BY <4>1, <5>1
        <5> QED BY <4>1, <5>1, <5>2, <5>3
      <4> QED BY <4>2, <4>4, <4>5, <4>7, <4>1
    <3>2. CASE EL!Skip \/ EL!Resume
      BY <1>0, <3>2 DEF EL!Skip, EL!Resume, EL!Scanning
    <3>3. CASE EL!EndPass
      BY <1>0, <3>3 DEF EL!EndPass, EL!GoesOn
    <3> QED BY <1>1, <3>1, <3>2, <3>3 DEF LoopRuns
  <2> QED BY <1>0, <2>1, <2>2, QuietKeeps
<1>2. CASE ClientReads \/ Connect \/ Send \/ UNCHANGED broadcastVars
  <2>1. UNCHANGED <<added, reader, conn, open, line, got, born, moved, running, input, pc, pollfds>>
    BY <1>2 DEF ClientReads, Connect, Send, broadcastVars, loop, env, hist
  <2> QED BY <1>0, <2>1, QuietKeeps
<1>3. CASE Type
  <2>1. UNCHANGED <<added, reader, conn, open, line, got, born, moved, running, pc, pollfds>>
        /\ input' = input + 1 /\ input + line < MaxLines
    BY <1>3 DEF Type, loop, hist
  <2>2. input' \in Nat /\ input' + line <= MaxLines
    BY <1>0, <2>1
  <2> QED BY <1>0, <2>1, <2>2, QuietKeeps
<1>4. CASE ClientWaits \/ WriteWaits
  <2>1. EL!Yield /\ UNCHANGED <<open, added, conn, env, hist, reader>> /\ pc = "handler"
    BY <1>4 DEF ClientWaits, WriteWaits, RunsClient, Runs
  <2> QED BY <2>1, YieldKeeps
<1>5. CASE LineDone
  <2>1. /\ EL!Yield /\ UNCHANGED <<open, added, conn, env, hist>> /\ pc = "handler"
        /\ reader' = [reader EXCEPT !.at = "read"]
        /\ reader.at = "next" /\ Targets(reader.k) = {}
    BY <1>5 DEF LineDone, Runs
  <2> QED BY <2>1, YieldKeeps
<1>6. CASE ClientEnds
  <2>1. /\ conn' = Restrict(conn, DOMAIN conn \ {me}) /\ open' = open \ {me} /\ moved' = TRUE
        /\ pc = "handler" /\ me \in DOMAIN conn
        /\ UNCHANGED <<added, reader, input, line, got, born>>
        /\ EL!Finish
    BY <1>6 DEF ClientEnds, RunsClient, env
  <2>2. EL!DelAt(i) /\ pc' = "scan" /\ running' = running
    BY <2>1 DEF EL!Finish, EL!SwitchBack, EL!Goes, EL!Stays
  <2>3. /\ DOMAIN conn' \subseteq DOMAIN conn \ {me} /\ conn' \in [DOMAIN conn' -> 1 .. Count]
        /\ \A f \in DOMAIN conn' : conn'[f] = conn[f]
    BY <1>0, <2>1 DEF Restrict, Conns
  <2>4. reader.at # "failed" => me # Stdin
    BY <1>0, <2>1 DEF Conns
  <2> QED BY <2>1, <2>2, <2>3, <2>4, DeleteKeeps
<1>7. CASE AcceptFails \/ WriteFails
  <2>1. /\ open' = open \ {me} /\ moved' = TRUE
        /\ pc = "handler" /\ me \notin DOMAIN conn
        /\ UNCHANGED <<added, input, conn, line, got, born>>
        /\ EL!Error
    BY <1>7 DEF AcceptFails, WriteFails, Runs, env
  <2>2. EL!DelAt(i) /\ pc' = "scan" /\ running' = running
    BY <2>1 DEF EL!Error, EL!SwitchBack, EL!Goes, EL!Stays
  <2>3. /\ DOMAIN conn' \subseteq DOMAIN conn \ {me} /\ conn' \in [DOMAIN conn' -> 1 .. Count]
        /\ \A f \in DOMAIN conn' : conn'[f] = conn[f]
    BY <1>0, <2>1 DEF Conns
  <2>4. \/ reader' = reader /\ (reader.at # "failed" => me # Stdin)
        \/ reader' = [reader EXCEPT !.at = "failed"] /\ reader.at = "write"
    <3>1. BroadcastAssumption
      BY DEF BInv
    <3> QED BY <1>7, <3>1 DEF AcceptFails, WriteFails, Runs, BroadcastAssumption
  <2> QED BY <2>1, <2>2, <2>3, <2>4, DeleteKeeps
<1> QED BY <1>1, <1>2, <1>3, <1>4, <1>5, <1>6, <1>7, AcceptKeeps, AddStdinKeeps,
           ReadLineKeeps, NextTargetKeeps, WriteSomeKeeps DEF BroadcastNext

LEMMA InitOK == BroadcastAssumption /\ BroadcastInit => BInv
<1> SUFFICES ASSUME BroadcastAssumption, BroadcastInit PROVE BInv
  OBVIOUS
<1>1. /\ ELP!IInv /\ open = {Listener} /\ running = TRUE /\ pc = "poll"
  BY LoopInitOK DEF BroadcastInit, EL!Init
<1>2. /\ added = FALSE /\ reader = [at |-> "read", k |-> 1, target |-> Listener, put |-> 0]
      /\ input = 0 /\ conn = << >> /\ line = 0 /\ got = <<>> /\ born = <<>>
      /\ DOMAIN conn = {} /\ Count = 0 /\ Stdin # Listener /\ Listener \in Fds
      /\ MaxLines \in Nat
  BY DEF BroadcastInit, Count, BroadcastAssumption
<1>3. Types
  <2>1. 1 \in Nat \ {0} /\ 0 \in Nat /\ 0 + 0 <= MaxLines
    BY <1>2
  <2> QED BY <1>1, <1>2, <2>1, EmptySeq DEF Types
<1>4. Conns
  BY <1>1, <1>2 DEF Conns
<1>5. History /\ Shares /\ Undisturbed
  BY <1>2 DEF History, Shares, Undisturbed
<1> QED BY <1>1, <1>3, <1>4, <1>5 DEF BInv

LEMMA Inductive == ASSUME BroadcastAssumption PROVE BroadcastSpec => []BInv
<1>1. BroadcastInit => BInv
  BY InitOK
<1>2. BInv /\ [BroadcastNext]_broadcastVars => BInv'
  BY LoopKeeps, StepKeeps DEF BInv, Kept
<1> QED BY <1>1, <1>2, PTL DEF BroadcastSpec

-----------------------------------------------------------------------------
(* The theorems *)

LEMMA AtMostOnce == BInv => BroadcastAtMostOnce
<1> SUFFICES ASSUME BInv, NEW c \in 1 .. Count, NEW l \in 1 .. line
    PROVE  \/ got[c][l] \in {<<>>, Whole}
           \/ IsPrefix(got[c][l], Whole) /\ (IsCurrent(l) \/ c \notin Range(conn))
           \/ /\ born[c] = l
              /\ \E b \in 1 .. Line : IsPrefix(got[c][l], SubSeq(Whole, b, Line) \o Whole)
  BY DEF BroadcastAtMostOnce
<1>1. /\ BroadcastAssumption /\ Line \in Nat /\ line \in Nat /\ line <= MaxLines
      /\ l \in 1 .. MaxLines /\ l <= line /\ MaxLines \in Nat /\ l \in Nat /\ line # 0
  <2>1. /\ BroadcastAssumption /\ Line \in Nat /\ line \in Nat /\ input \in Nat
        /\ input + line <= MaxLines /\ MaxLines \in Nat
    BY Facts DEF BInv, Types
  <2> QED BY <2>1
<1>2. PICK r \in Nat, m \in Nat :
        Has(c, l, r, m) /\ (Settled(r, m) \/ IsCurrent(l) \/ c \notin Range(conn))
  <2>1. CASE l = line /\ c \in Range(conn)
    <3>1. PICK f \in DOMAIN conn : c = conn[f]
      BY <2>1 DEF Range
    <3>2. PICK p \in DOMAIN pollfds : pollfds[p].fd = f
      BY Facts DEF BInv, Conns
    <3>3. PICK r \in Nat, m \in Nat : Has(c, line, r, m) /\ Share(p, r, m)
      BY <1>1, <3>1, <3>2 DEF BInv, Shares, Connected, Peer
    <3>4. Settled(r, m) \/ IsCurrent(l)
      BY <2>1, <3>3 DEF Share, IsCurrent
    <3> QED BY <2>1, <3>3, <3>4
  <2>2. CASE ~(l = line /\ c \in Range(conn))
    <3>1. PICK r \in Nat, m \in Nat :
            Has(c, l, r, m) /\ (l < line /\ c \in Range(conn) => Settled(r, m))
      BY <1>1 DEF BInv, History
    <3>2. l # line => l < line
      BY <1>1
    <3> QED BY <2>2, <3>1, <3>2
  <2> QED BY <2>1, <2>2
<1>3. /\ r <= Line /\ m <= r + Line /\ got[c][l] = Sent(r, m) /\ (r # 0 => born[c] = l)
  BY <1>2 DEF Has
<1>4. CASE r # 0
  <2>1. Line - r + 1 \in 1 .. Line /\ r + Line \in Nat
    BY <1>1, <1>3, <1>4
  <2>2. IsPrefix(Sent(r, m), Sent(r, r + Line))
    BY <1>1, <1>3, <2>1, SentPrefix
  <2>3. SubSeq(Whole, Line - r + 1, Line) \o Whole = Sent(r, r + Line)
    BY <1>1, <1>3, SentRest
  <2> QED BY <1>3, <1>4, <2>1, <2>2, <2>3
<1>5. CASE r = 0
  <2>1. 0 \in Nat /\ 0 <= Line /\ m <= Line /\ Whole = Sent(0, Line) /\ got[c][l] = Sent(0, m)
    BY <1>1, <1>3, <1>5, WholeIs
  <2>2. CASE Settled(r, m)
    <3>1. m = 0 \/ m = Line
      BY <1>1, <1>5, <2>2 DEF Settled
    <3> QED BY <1>1, <2>1, <3>1, SentNone
  <2>3. CASE IsCurrent(l) \/ c \notin Range(conn)
    <3>1. IsPrefix(Sent(0, m), Sent(0, Line))
      BY <1>1, <2>1, SentPrefix
    <3> QED BY <2>1, <2>3, <3>1
  <2> QED BY <1>2, <2>2, <2>3
<1> QED BY <1>4, <1>5

LEMMA NobodyMissed == BInv => BroadcastNobodyMissed
<1> SUFFICES ASSUME BInv, reader.at = "next", Targets(reader.k) = {}, ~moved,
                    NEW c \in Range(conn), pollfds[1].fd = Listener
             PROVE  got[c][line] = Whole
  BY DEF BroadcastNobodyMissed
<1>1. PICK f \in DOMAIN conn : c = conn[f]
  BY DEF Range
<1>2. /\ f \in open /\ f # Listener /\ f # Stdin
  BY DEF BInv, Conns
<1>3. PICK p \in DOMAIN pollfds : pollfds[p].fd = f
  BY <1>2, Facts
<1>4. /\ p # 1 /\ Connected(p) /\ Peer(p) = c
  BY <1>1, <1>2, <1>3 DEF Connected, Peer
<1>5. p \in Nat /\ p <= Len(pollfds) /\ reader.k \in Nat /\ Len(pollfds) \in Nat
  <2>1. Len(pollfds) \in Nat /\ DOMAIN pollfds = 1 .. Len(pollfds)
    BY Facts
  <2> QED BY <2>1 DEF BInv, Types
<1>6. ~(p >= reader.k)
  BY <1>2, <1>3, <1>4, <1>5 DEF Targets
<1>7. InTime(p) = Line
  BY <1>6 DEF InTime, Ahead
<1>8. got[c][line] = Sent(0, Line)
  BY <1>4, <1>7 DEF BInv, Undisturbed
<1> QED BY <1>8, WholeIs DEF BInv

\* No connection is sent a line twice, whatever is deleted, accepted and given
\* its descriptor while stdinReader waits in the middle (test/main.c:21-28).
THEOREM LinesAreSentOnce == ASSUME BroadcastAssumption PROVE BroadcastSpec => []BroadcastAtMostOnce
BY Inductive, AtMostOnce, PTL

\* When no entry is deleted during a line, all connections have it at its end
\* (test/main.c:21-28).
THEOREM LinesReachAll == ASSUME BroadcastAssumption PROVE BroadcastSpec => []BroadcastNobodyMissed
BY Inductive, NobodyMissed, PTL
=============================================================================
