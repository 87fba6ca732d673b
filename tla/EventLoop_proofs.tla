--------------------------- MODULE EventLoop_proofs ---------------------------
(***************************************************************************)
(* Proofs about EventLoop: the two arrays of the loop stay matched by      *)
(* position and own the coroutines and the descriptors, for any number of  *)
(* either.                                                                 *)
(***************************************************************************)
EXTENDS EventLoop, SequenceTheorems, TLAPS

-----------------------------------------------------------------------------
(* Removing a position from a sequence (krk_pushrd_del). *)

\* Removing position k of s moves every later element one place down and
\* leaves the others: what the memmove of krk_pushrd_del does.
LEMMA RemoveAtProperties ==
  ASSUME NEW S, NEW s \in Seq(S), NEW k \in 1 .. Len(s)
  PROVE  /\ RemoveAt(s, k) \in Seq(S)
         /\ Len(RemoveAt(s, k)) = Len(s) - 1
         /\ \A j \in 1 .. (Len(s) - 1) :
              RemoveAt(s, k)[j] = IF j < k THEN s[j] ELSE s[j + 1]
<1> DEFINE a == SubSeq(s, 1, k - 1)
           b == SubSeq(s, k + 1, Len(s))
<1>1. a \in Seq(S) /\ Len(a) = k - 1 /\ \A j \in 1 .. (k - 1) : a[j] = s[j]
  <2>1. \A j \in 1 .. (k - 1) : s[j] \in S
    BY ElementOfSeq
  <2> QED BY <2>1, SubSeqProperties
<1>2. b \in Seq(S) /\ Len(b) = Len(s) - k /\ \A j \in 1 .. (Len(s) - k) : b[j] = s[k + j]
  <2>1. \A j \in (k + 1) .. Len(s) : s[j] \in S
    BY ElementOfSeq
  <2> QED BY <2>1, SubSeqProperties
<1>3. RemoveAt(s, k) = a \o b
  BY DEF RemoveAt
<1> HIDE DEF a, b
<1> QED BY <1>1, <1>2, <1>3, ConcatProperties

-----------------------------------------------------------------------------
(* The inductive invariant. *)

\* Every entry with input that the scan has yet to reach is due.
DueAhead ==
  \A k \in DOMAIN pollfds :
    /\ "IN" \in pollfds[k].revents
    /\ \/ pc = "scan" /\ k >= i
       \/ pc = "handler" /\ k > i
    => coros[k] \in due

IInv == TypeOK /\ Aligned /\ Owned /\ NoneOver /\ DueAhead

\* krk_eventloop_delAt keeps the arrays matched and owned, moves the entries
\* after position k one place down, and touches no other coroutine.
LEMMA DelAtProperties ==
  ASSUME TypeOK, Aligned, OwnsCoros, OwnsFds,
         NEW k \in DOMAIN coros, DelAt(k)
  PROVE  /\ coros' \in Seq(Coros)
         /\ pollfds' \in Seq(Entries)
         /\ live' = live \ {coros[k]}
         /\ home' \in [live' -> Fds]
         /\ state' \in [live' -> CoroStates]
         /\ open' \in SUBSET Fds
         /\ kernel' \in [Fds -> SUBSET Events]
         /\ due' \in SUBSET Coros
         /\ \A c \in live' : state'[c] = state[c]
         /\ Len(coros') = Len(coros) - 1
         /\ \A j \in DOMAIN coros' : coros'[j] = coros[IF j < k THEN j ELSE j + 1]
         /\ Aligned'
         /\ OwnsCoros'
         /\ OwnsFds'
<1> DEFINE n == Len(coros)
           at(j) == IF j < k THEN j ELSE j + 1
<1>1. /\ n \in Nat /\ k \in 1 .. n
      /\ DOMAIN coros = 1 .. n /\ DOMAIN pollfds = 1 .. n /\ Len(pollfds) = n
      /\ \A j \in 1 .. n : coros[j] \in Coros /\ pollfds[j] \in Entries
  BY LenProperties, ElementOfSeq DEF TypeOK, Aligned
<1>2. /\ coros' \in Seq(Coros) /\ Len(coros') = n - 1
      /\ \A j \in 1 .. (n - 1) : coros'[j] = coros[at(j)]
  <2>1. coros' = RemoveAt(coros, k)
    BY DEF DelAt, DropAt
  <2>2. coros \in Seq(Coros) /\ k \in 1 .. Len(coros)
    BY <1>1 DEF TypeOK
  <2> QED BY <1>1, <2>1, <2>2, RemoveAtProperties
<1>3. /\ pollfds' \in Seq(Entries) /\ Len(pollfds') = n - 1
      /\ \A j \in 1 .. (n - 1) : pollfds'[j] = pollfds[at(j)]
  <2>1. pollfds' = RemoveAt(pollfds, k)
    BY DEF DelAt, DropAt
  <2>2. pollfds \in Seq(Entries) /\ k \in 1 .. Len(pollfds)
    BY <1>1 DEF TypeOK
  <2> QED BY <1>1, <2>1, <2>2, RemoveAtProperties
<1>4. DOMAIN coros' = 1 .. (n - 1) /\ DOMAIN pollfds' = 1 .. (n - 1)
  BY <1>2, <1>3, LenProperties
<1>5. \A j \in 1 .. (n - 1) : at(j) \in 1 .. n /\ at(j) # k
  BY <1>1
<1>6. \A l \in 1 .. n : l # k => \E j \in 1 .. (n - 1) : at(j) = l
  <2> SUFFICES ASSUME NEW l \in 1 .. n, l # k
               PROVE  \E j \in 1 .. (n - 1) : at(j) = l
    OBVIOUS
  <2>1. CASE l < k
    <3> WITNESS l \in 1 .. (n - 1)
    <3> QED BY <1>1, <2>1
  <2>2. CASE l > k
    <3> l - 1 \in 1 .. (n - 1)
      BY <1>1, <2>2
    <3> WITNESS l - 1 \in 1 .. (n - 1)
    <3> QED BY <1>1, <2>2
  <2> QED BY <1>1, <2>1, <2>2
<1>7. \A j, l \in 1 .. (n - 1) : at(j) = at(l) => j = l
  BY <1>1
<1> HIDE DEF n, at
<1>8. /\ live' = live \ {coros[k]}
      /\ home' \in [live' -> Fds] /\ state' \in [live' -> CoroStates]
      /\ \A c \in live' : state'[c] = state[c] /\ home'[c] = home[c]
  BY DEF DelAt, FreeAll, Restrict, TypeOK, live
<1>9. open' \in SUBSET Fds /\ kernel' \in [Fds -> SUBSET Events] /\ due' \in SUBSET Coros
  BY <1>1 DEF DelAt, FreeAll, TypeOK
<1>10. \A j \in 1 .. (n - 1) : coros'[j] \in live'
  BY <1>1, <1>2, <1>5, <1>8 DEF OwnsCoros, IsInjective, Range
<1>11. Aligned'
  BY <1>1, <1>2, <1>3, <1>4, <1>5, <1>8, <1>10 DEF Aligned
<1>12. OwnsCoros'
  <2>1. IsInjective(coros')
    BY <1>1, <1>2, <1>4, <1>5, <1>7 DEF OwnsCoros, IsInjective
  <2>2. ASSUME NEW c \in live'
        PROVE  c \in Range(coros')
    <3>1. PICK l \in 1 .. n : coros[l] = c
      BY <1>1, <1>8 DEF OwnsCoros, Range
    <3>2. PICK j \in 1 .. (n - 1) : at(j) = l
      BY <1>6, <1>8, <3>1
    <3> QED BY <1>2, <1>4, <3>1, <3>2 DEF Range
  <2> QED BY <1>4, <1>10, <2>1, <2>2 DEF OwnsCoros, Range
<1>13. OwnsFds'
  <2>1. \A j, l \in 1 .. (n - 1) : pollfds'[j].fd = pollfds'[l].fd => j = l
    BY <1>1, <1>3, <1>5, <1>7 DEF OwnsFds
  <2>2. open' = open \ {pollfds[k].fd}
    BY DEF DelAt
  <2>3. \A j \in 1 .. (n - 1) : pollfds'[j].fd \in open'
    BY <1>1, <1>3, <1>5, <2>2 DEF OwnsFds
  <2>4. ASSUME NEW f \in open'
        PROVE  \E j \in 1 .. (n - 1) : pollfds'[j].fd = f
    <3>1. PICK l \in 1 .. n : pollfds[l].fd = f
      BY <1>1, <2>2 DEF OwnsFds
    <3>2. PICK j \in 1 .. (n - 1) : at(j) = l
      BY <1>6, <2>2, <3>1
    <3> QED BY <1>3, <3>1, <3>2
  <2> QED BY <1>4, <2>1, <2>3, <2>4 DEF OwnsFds
<1> QED BY <1>1, <1>2, <1>3, <1>4, <1>8, <1>9, <1>11, <1>12, <1>13 DEF at, n
\* The same for the entries the scan has yet to reach: deleting position k,
\* at or after i, leaves them due.
LEMMA DelAtAhead ==
  ASSUME TypeOK, Aligned, OwnsCoros, OwnsFds, DueAhead,
         pc \in {"scan", "handler"},
         NEW k \in DOMAIN coros, k >= i, DelAt(k)
  PROVE  \A j \in DOMAIN pollfds' :
           "IN" \in pollfds'[j].revents /\ j > i => coros'[j] \in due'
<1> DEFINE n == Len(coros)
           at(j) == IF j < k THEN j ELSE j + 1
<1>1. /\ n \in Nat /\ k \in 1 .. n /\ i \in Nat
      /\ DOMAIN coros = 1 .. n /\ DOMAIN pollfds = 1 .. n /\ Len(pollfds) = n
  BY LenProperties DEF TypeOK, Aligned
<1>2. /\ coros' \in Seq(Coros) /\ Len(coros') = n - 1
      /\ \A j \in 1 .. (n - 1) : coros'[j] = coros[at(j)]
  <2>1. coros' = RemoveAt(coros, k)
    BY DEF DelAt, DropAt
  <2>2. coros \in Seq(Coros) /\ k \in 1 .. Len(coros)
    BY <1>1 DEF TypeOK
  <2> QED BY <1>1, <2>1, <2>2, RemoveAtProperties
<1>3. /\ pollfds' \in Seq(Entries) /\ Len(pollfds') = n - 1
      /\ \A j \in 1 .. (n - 1) : pollfds'[j] = pollfds[at(j)]
  <2>1. pollfds' = RemoveAt(pollfds, k)
    BY DEF DelAt, DropAt
  <2>2. pollfds \in Seq(Entries) /\ k \in 1 .. Len(pollfds)
    BY <1>1 DEF TypeOK
  <2> QED BY <1>1, <2>1, <2>2, RemoveAtProperties
<1>4. SUFFICES ASSUME NEW j \in 1 .. (n - 1), "IN" \in pollfds'[j].revents, j > i
               PROVE  coros'[j] \in due'
  BY <1>3, LenProperties
<1>5. at(j) \in 1 .. n /\ at(j) # k /\ at(j) > i
  BY <1>1, <1>4
<1> HIDE DEF at
<1>6. "IN" \in pollfds[at(j)].revents
  BY <1>3, <1>4
<1>7. coros[at(j)] \in due
  BY <1>1, <1>5, <1>6 DEF DueAhead
<1>8. coros[at(j)] # coros[k]
  BY <1>1, <1>5 DEF OwnsCoros, IsInjective
<1> QED BY <1>2, <1>4, <1>7, <1>8 DEF DelAt, FreeAll

\* krk_eventloop_addFd keeps the arrays matched and owned, and gives the new
\* entry the last position with nothing reported for it.
LEMMA AddFdProperties ==
  ASSUME TypeOK, Aligned, OwnsCoros, OwnsFds,
         NEW f \in Fds \ open, NEW c \in Coros \ live, AddFd(c, f)
  PROVE  /\ coros' \in Seq(Coros)
         /\ pollfds' \in Seq(Entries)
         /\ live' = live \cup {c}
         /\ home' \in [live' -> Fds]
         /\ state' \in [live' -> CoroStates]
         /\ open' \in SUBSET Fds
         /\ state'[c] = "INVALID"
         /\ \A d \in live : state'[d] = state[d]
         /\ Len(coros') = Len(coros) + 1
         /\ \A j \in DOMAIN coros : coros'[j] = coros[j] /\ pollfds'[j] = pollfds[j]
         /\ coros'[Len(coros) + 1] = c
         /\ pollfds'[Len(coros) + 1] = Slot(f)
         /\ Aligned'
         /\ OwnsCoros'
         /\ OwnsFds'
<1> DEFINE n == Len(coros)
<1>1. /\ n \in Nat
      /\ DOMAIN coros = 1 .. n /\ DOMAIN pollfds = 1 .. n /\ Len(pollfds) = n
      /\ \A j \in 1 .. n : coros[j] \in live /\ pollfds[j] \in Entries /\ pollfds[j].fd \in open
  BY LenProperties, ElementOfSeq DEF TypeOK, Aligned, OwnsCoros, OwnsFds, Range
<1>2. Slot(f) \in Entries /\ Slot(f).fd = f
  BY DEF Slot, Entries
<1>3. /\ coros' \in Seq(Coros) /\ Len(coros') = n + 1
      /\ \A j \in 1 .. n : coros'[j] = coros[j]
      /\ coros'[n + 1] = c
  BY <1>1, AppendProperties DEF AddFd, TypeOK
<1>4. /\ pollfds' \in Seq(Entries) /\ Len(pollfds') = n + 1
      /\ \A j \in 1 .. n : pollfds'[j] = pollfds[j]
      /\ pollfds'[n + 1] = Slot(f)
  BY <1>1, <1>2, AppendProperties DEF AddFd, TypeOK
<1>5. /\ DOMAIN coros' = 1 .. (n + 1) /\ DOMAIN pollfds' = 1 .. (n + 1)
      /\ \A j \in 1 .. (n + 1) : j \in 1 .. n \/ j = n + 1
  BY <1>1, <1>3, <1>4, LenProperties
<1> HIDE DEF n
<1>6. /\ live' = live \cup {c}
      /\ home' \in [live' -> Fds] /\ state' \in [live' -> CoroStates]
      /\ home'[c] = f /\ state'[c] = "INVALID"
      /\ \A d \in live : home'[d] = home[d] /\ state'[d] = state[d]
  BY DEF AddFd, TypeOK, live, CoroStates
<1>7. open' = open \cup {f} /\ open' \in SUBSET Fds
  BY DEF AddFd, TypeOK
<1>8. Aligned'
  BY <1>1, <1>2, <1>3, <1>4, <1>5, <1>6 DEF Aligned
<1>9. OwnsCoros'
  <2>1. IsInjective(coros')
    BY <1>1, <1>3, <1>5 DEF OwnsCoros, IsInjective
  <2>2. \A j \in 1 .. (n + 1) : coros'[j] \in live'
    BY <1>1, <1>3, <1>5, <1>6
  <2>3. \A d \in live' : \E j \in 1 .. (n + 1) : coros'[j] = d
    <3> SUFFICES ASSUME NEW d \in live' PROVE \E j \in 1 .. (n + 1) : coros'[j] = d
      OBVIOUS
    <3>1. CASE d = c
      BY <1>1, <1>3, <3>1
    <3>2. CASE d \in live
      BY <1>1, <1>3, <3>2 DEF OwnsCoros, Range
    <3> QED BY <1>6, <3>1, <3>2
  <2> QED BY <1>5, <2>1, <2>2, <2>3 DEF OwnsCoros, Range
<1>10. OwnsFds'
  <2>1. \A j, l \in 1 .. (n + 1) : pollfds'[j].fd = pollfds'[l].fd => j = l
    BY <1>1, <1>2, <1>4, <1>5 DEF OwnsFds
  <2>2. \A j \in 1 .. (n + 1) : pollfds'[j].fd \in open'
    BY <1>1, <1>2, <1>4, <1>5, <1>7
  <2>3. \A g \in open' : \E j \in 1 .. (n + 1) : pollfds'[j].fd = g
    <3> SUFFICES ASSUME NEW g \in open' PROVE \E j \in 1 .. (n + 1) : pollfds'[j].fd = g
      OBVIOUS
    <3>1. CASE g = f
      BY <1>1, <1>2, <1>4, <3>1
    <3>2. CASE g \in open
      BY <1>1, <1>4, <3>2 DEF OwnsFds
    <3> QED BY <1>7, <3>1, <3>2
  <2> QED BY <1>5, <2>1, <2>2, <2>3 DEF OwnsFds
<1> QED BY <1>1, <1>3, <1>4, <1>6, <1>7, <1>8, <1>9, <1>10 DEF n
-----------------------------------------------------------------------------
(* Every step keeps the invariant. *)

\* What the invariant says of the positions, in the form the steps need.
LEMMA Positions ==
  ASSUME TypeOK, Aligned, OwnsCoros
  PROVE  /\ Len(coros) \in Nat
         /\ DOMAIN coros = 1 .. Len(coros)
         /\ DOMAIN pollfds = 1 .. Len(coros)
         /\ Len(pollfds) = Len(coros)
         /\ i \in Nat \ {0}
         /\ \A k \in 1 .. Len(coros) : coros[k] \in live /\ pollfds[k] \in Entries
         /\ \A k, l \in 1 .. Len(coros) : coros[k] = coros[l] => k = l
BY LenProperties, ElementOfSeq DEF TypeOK, Aligned, OwnsCoros, IsInjective, Range

\* A step that deletes position i and goes on with the scan (or crashes)
\* keeps the invariant: the branches FINISHED, ERRORED, POLLHUP and unknown.
LEMMA DeletionKeepsInv ==
  ASSUME IInv, pc \in {"scan", "handler"}, i \in DOMAIN coros, DelAt(i),
         pc' \in {"scan", "crashed"}, i' = i + 1, running' \in BOOLEAN
  PROVE  IInv'
<1> USE DEF IInv, Owned
<1>1. OwnsFds /\ OwnsCoros
  OBVIOUS
<1>2. TypeOK'
  BY <1>1, DelAtProperties, Positions DEF TypeOK
<1>3. Aligned' /\ Owned'
  BY <1>1, DelAtProperties
<1>4. NoneOver'
  <2>1. /\ \A k \in DOMAIN coros' :
             /\ coros'[k] \in live' /\ state'[coros'[k]] = state[coros'[k]]
             /\ \E j \in DOMAIN coros : j # i /\ coros'[k] = coros[j]
    <3> SUFFICES ASSUME NEW k \in DOMAIN coros'
                 PROVE  /\ coros'[k] \in live' /\ state'[coros'[k]] = state[coros'[k]]
                        /\ \E j \in DOMAIN coros : j # i /\ coros'[k] = coros[j]
      OBVIOUS
    <3>1. /\ Len(coros') = Len(coros) - 1 /\ DOMAIN coros' = 1 .. (Len(coros) - 1)
          /\ coros'[k] = coros[IF k < i THEN k ELSE k + 1]
          /\ OwnsCoros' /\ \A c \in live' : state'[c] = state[c]
      BY <1>1, DelAtProperties, LenProperties
    <3>2. (IF k < i THEN k ELSE k + 1) \in 1 .. Len(coros) /\ (IF k < i THEN k ELSE k + 1) # i
      BY <1>1, <3>1, Positions
    <3> QED BY <1>1, <3>1, <3>2, Positions DEF OwnsCoros, Range
  <2> QED BY <1>1, <2>1, Positions DEF NoneOver
<1>5. DueAhead'
  <2>1. i \in Nat /\ i >= i
    BY <1>1, Positions
  <2>2. \A j \in DOMAIN pollfds' : j \in Nat
    BY <1>2, LenProperties DEF TypeOK
  <2>3. \A j \in DOMAIN pollfds' : "IN" \in pollfds'[j].revents /\ j > i => coros'[j] \in due'
    BY <1>1, <2>1, DelAtAhead
  <2> QED BY <2>1, <2>2, <2>3 DEF DueAhead
<1> QED BY <1>2, <1>3, <1>4, <1>5

LEMMA InitInv == Init => IInv
<1> SUFFICES ASSUME NEW c0 \in Coros,
                    running = TRUE, coros = <<c0>>, pollfds = <<Slot(Listener)>>,
                    state = [c \in {c0} |-> "INVALID"], home = [c \in {c0} |-> Listener],
                    open = {Listener}, kernel = [f \in Fds |-> {}],
                    pc = "poll", i = 1, due = {}
             PROVE  IInv
  BY DEF Init
<1>1. /\ Listener \in Fds /\ Slot(Listener) \in Entries /\ Slot(Listener).fd = Listener
  BY LoopAssumption DEF Slot, Entries
<1>2. /\ Len(coros) = 1 /\ DOMAIN coros = {1} /\ coros[1] = c0 /\ coros \in Seq(Coros)
      /\ Len(pollfds) = 1 /\ DOMAIN pollfds = {1} /\ pollfds[1] = Slot(Listener)
      /\ pollfds \in Seq(Entries)
  BY <1>1
<1>3. live = {c0}
  BY DEF live
<1>4. TypeOK
  BY <1>1, <1>2, <1>3 DEF TypeOK, CoroStates
<1>5. Aligned
  BY <1>1, <1>2 DEF Aligned
<1>6. Owned
  BY <1>1, <1>2, <1>3 DEF Owned, OwnsCoros, OwnsFds, IsInjective, Range
<1>7. NoneOver
  BY <1>2 DEF NoneOver
<1>8. DueAhead
  BY <1>2 DEF DueAhead
<1> QED BY <1>4, <1>5, <1>6, <1>7, <1>8 DEF IInv

LEMMA LoopStepKeepsInv ==
  ASSUME IInv, LoopStep
  PROVE  IInv'
<1> USE DEF IInv, Owned
<1>0. /\ Len(coros) \in Nat /\ Len(pollfds) = Len(coros) /\ i \in Nat \ {0}
      /\ DOMAIN coros = 1 .. Len(coros) /\ DOMAIN pollfds = 1 .. Len(coros)
      /\ \A k \in 1 .. Len(coros) : coros[k] \in live /\ pollfds[k] \in Entries
      /\ \A k, l \in 1 .. Len(coros) : coros[k] = coros[l] => k = l
  BY Positions
<1>1. CASE Poll
  <2> DEFINE n == Len(coros)
             entry(k) == [pollfds[k] EXCEPT !.revents = kernel[pollfds[k].fd]]
  <2> USE <1>1
  <2>1. \A k \in 1 .. n : /\ entry(k) \in Entries /\ entry(k).fd = pollfds[k].fd
                           /\ entry(k).revents = kernel[pollfds[k].fd]
    BY <1>0 DEF Entries, TypeOK
  <2>2. pollfds' = [k \in 1 .. n |-> entry(k)]
    BY <1>0 DEF Poll
  <2> HIDE DEF entry
  <2>3. pollfds' \in Seq(Entries)
    BY <1>0, <2>1, <2>2, IsASeq
  <2>4. /\ Len(pollfds') = n /\ DOMAIN pollfds' = 1 .. n
        /\ \A k \in 1 .. n : pollfds'[k].fd = pollfds[k].fd
        /\ \A k \in 1 .. n : pollfds'[k].revents = kernel[pollfds[k].fd]
    BY <1>0, <2>1, <2>2, <2>3, LenProperties
  <2>5. due' = {coros[k] : k \in {j \in 1 .. n : "IN" \in kernel[pollfds[j].fd]}}
    BY <1>0 DEF Poll
  <2> HIDE DEF n
  <2>6. TypeOK'
    <3>1. due' \in SUBSET Coros
      BY <1>0, <2>5 DEF TypeOK, n
    <3> QED BY <2>3, <3>1 DEF TypeOK, Poll, First, live
  <2>7. Aligned' /\ Owned'
    <3>1. UNCHANGED <<coros, home, open, live>> /\ pc = "poll" /\ pc' = "scan"
      BY DEF Poll, live
    <3>2. Aligned'
      BY <1>0, <2>4, <3>1 DEF Aligned, n
    <3>3. OwnsCoros'
      BY <3>1 DEF OwnsCoros, IsInjective, Range
    <3>4. OwnsFds'
      BY <1>0, <2>4, <3>1 DEF OwnsFds, n
    <3> QED BY <3>2, <3>3, <3>4
  <2>8. NoneOver'
    <3>1. UNCHANGED <<coros, state>> /\ pc = "poll" /\ pc' = "scan"
      BY DEF Poll
    <3> QED BY <3>1 DEF NoneOver
  <2>9. DueAhead'
    <3>1. coros' = coros
      BY DEF Poll
    <3>2. ASSUME NEW k \in 1 .. n, "IN" \in pollfds'[k].revents PROVE coros[k] \in due'
      <4>1. "IN" \in kernel[pollfds[k].fd]
        BY <2>4, <3>2
      <4> HIDE DEF IInv
      <4> QED BY <2>5, <4>1
    <3> HIDE DEF IInv
    <3> QED BY <2>4, <3>1, <3>2 DEF DueAhead
  <2> QED BY <2>6, <2>7, <2>8, <2>9
<1>2. CASE Skip
  <2>1. TypeOK' /\ Aligned' /\ Owned'
    BY <1>0, <1>2 DEF Skip, TypeOK, Aligned, OwnsCoros, OwnsFds, live, IsInjective, Range
  <2>2. NoneOver'
    BY <1>2 DEF Skip, Scanning, NoneOver
  <2>3. DueAhead'
    BY <1>0, <1>2 DEF Skip, Scanning, DueAhead
  <2> QED BY <2>1, <2>2, <2>3
<1>3. CASE Resume
  <2>1. i \in 1 .. Len(coros) /\ coros[i] \in live
    BY <1>0, <1>3 DEF Resume, Scanning
  <2>2. UNCHANGED <<coros, pollfds, home, live, open, i>> /\ pc = "scan" /\ pc' = "handler"
    BY <1>3 DEF Resume, Scanning, live
  <2>3. /\ state' \in [live -> CoroStates] /\ state'[coros[i]] = "RUNNING"
        /\ \A c \in live : c # coros[i] => state'[c] = state[c]
    BY <1>3, <2>1 DEF Resume, Current, TypeOK, CoroStates
  <2>4. TypeOK'
    BY <1>3, <2>2, <2>3 DEF Resume, TypeOK
  <2>5. Aligned' /\ Owned'
    BY <2>2 DEF Aligned, OwnsCoros, OwnsFds, IsInjective, Range
  <2>6. NoneOver'
    BY <1>0, <2>1, <2>2, <2>3 DEF NoneOver
  <2>7. DueAhead'
    BY <1>0, <1>3, <2>1, <2>2 DEF DueAhead, Resume, Current
  <2> QED BY <2>4, <2>5, <2>6, <2>7
<1>4. CASE HangUp
  BY <1>0, <1>4, DeletionKeepsInv DEF HangUp, Scanning, TypeOK
<1>5. CASE UnknownEvent
  BY <1>0, <1>5, DeletionKeepsInv DEF UnknownEvent, Scanning, TypeOK
<1>6. CASE EndPass
  <2>1. CASE running
    <3>1. UNCHANGED <<running, coros, pollfds, state, home, live, open, kernel, due>>
          /\ pc = "scan" /\ pc' = "poll" /\ i' = 1
      BY <1>6, <2>1 DEF EndPass, GoesOn, live
    <3> QED BY <3>1 DEF TypeOK, Aligned, OwnsCoros, OwnsFds, IsInjective, Range,
                       NoneOver, DueAhead
  <2>2. CASE ~running
    <3>1. /\ UNCHANGED <<running, open, kernel>> /\ pc' = "exited" /\ i' = 1
          /\ coros' = <<>> /\ pollfds' = <<>> /\ due' = due \ Range(coros)
          /\ home' = Restrict(home, live \ Range(coros))
          /\ state' = Restrict(state, live \ Range(coros))
      BY <1>6, <2>2 DEF EndPass, GoesOn, FreeAll
    <3>2. live' = {} /\ home' \in [live' -> Fds] /\ state' \in [live' -> CoroStates]
      BY <3>1 DEF OwnsCoros, Restrict, live
    <3>3. /\ coros' \in Seq(Coros) /\ pollfds' \in Seq(Entries)
          /\ Len(coros') = 0 /\ Len(pollfds') = 0
          /\ DOMAIN coros' = {} /\ DOMAIN pollfds' = {}
      BY <3>1
    <3> QED BY <3>1, <3>2, <3>3 DEF TypeOK, Aligned, OwnsCoros, IsInjective, Range,
                                   NoneOver, DueAhead
  <2> QED BY <2>1, <2>2 DEF TypeOK
<1> QED BY <1>1, <1>2, <1>3, <1>4, <1>5, <1>6 DEF LoopStep

\* A poll that fails changes the scan and what is due for it, nothing else.
LEMMA PollFailsKeepsInv ==
  ASSUME IInv, PollFails
  PROVE  IInv'
<1>1. /\ Len(coros) \in Nat /\ DOMAIN coros = 1 .. Len(coros)
      /\ DOMAIN pollfds = 1 .. Len(coros)
      /\ \A k \in 1 .. Len(coros) : coros[k] \in live /\ pollfds[k] \in Entries
  BY Positions DEF IInv, Owned
<1>2. /\ UNCHANGED <<running, coros, pollfds, state, home, live, open, kernel>>
      /\ pc = "poll" /\ pc' = "scan" /\ i' = 1
      /\ due' = {coros[k] : k \in {j \in 1 .. Len(coros) : "IN" \in pollfds[j].revents}}
  BY <1>1 DEF PollFails, First, live
<1>3. TypeOK'
  <2>1. due' \in SUBSET Coros
    BY <1>1, <1>2 DEF IInv, TypeOK
  <2> QED BY <1>2, <2>1 DEF IInv, TypeOK
<1>4. Aligned' /\ Owned'
  BY <1>2 DEF IInv, Aligned, Owned, OwnsCoros, OwnsFds, IsInjective, Range
<1>5. NoneOver'
  BY <1>2 DEF IInv, NoneOver
<1>6. DueAhead'
  <2>1. \A k \in 1 .. Len(coros) : "IN" \in pollfds[k].revents => coros[k] \in due'
    BY <1>2
  <2> QED BY <1>1, <1>2, <2>1 DEF DueAhead
<1> QED BY <1>3, <1>4, <1>5, <1>6 DEF IInv

LEMMA HandlerStepKeepsInv ==
  ASSUME IInv, HandlerStep
  PROVE  IInv'
<1> USE DEF IInv, Owned
<1>0. /\ Len(coros) \in Nat /\ Len(pollfds) = Len(coros) /\ i \in Nat \ {0}
      /\ DOMAIN coros = 1 .. Len(coros) /\ DOMAIN pollfds = 1 .. Len(coros)
      /\ \A k \in 1 .. Len(coros) : coros[k] \in live /\ pollfds[k] \in Entries
      /\ \A k, l \in 1 .. Len(coros) : coros[k] = coros[l] => k = l
  BY Positions
<1>a. pc = "handler" /\ i \in 1 .. Len(coros) /\ OwnsFds
  BY <1>0 DEF HandlerStep, Read, Register, Unregister, Stop, Return, Yield,
              Finish, Error, SwitchBack, InHandler, NoneOver
<1>1. CASE Read \/ Stop
  <2>1. UNCHANGED <<coros, pollfds, state, home, live, open, pc, i, due>>
    BY <1>1 DEF Read, Stop, live
  <2>2. running' \in BOOLEAN
    BY <1>1 DEF Read, Stop, TypeOK
  <2>3. kernel' \in [Fds -> SUBSET Events]
    <3>1. CASE Read
      <4>1. home[coros[i]] \in Fds
        BY <1>0, <1>a DEF TypeOK
      <4> QED BY <3>1, <4>1 DEF Read, Current, TypeOK
    <3> QED BY <1>1, <3>1 DEF Stop, TypeOK
  <2> QED BY <2>1, <2>2, <2>3 DEF TypeOK, Aligned, OwnsCoros, OwnsFds, IsInjective, Range,
                           NoneOver, DueAhead
<1>2. CASE Register
  <2>1. PICK f \in Fds \ open, c \in Coros \ live :
          /\ AddFd(c, f)
          /\ \E now \in SUBSET Events, used \in SUBSET {"IN"} :
               kernel' = [kernel EXCEPT ![f] = now, ![home[Current]] = @ \ used]
    BY <1>2 DEF Register
  <2>2. UNCHANGED <<running, pc, i, due>>
    BY <1>2 DEF Register
  <2>3. /\ TypeOK' /\ Aligned' /\ Owned'
    <3>1. home[Current] \in Fds
      BY <1>0, <1>a DEF TypeOK, Current
    <3>2. kernel' \in [Fds -> SUBSET Events]
      BY <2>1, <3>1 DEF TypeOK
    <3> QED BY <1>a, <2>1, <2>2, <3>2, AddFdProperties DEF TypeOK
  <2>4. /\ DOMAIN coros' = 1 .. (Len(coros) + 1)
        /\ DOMAIN pollfds' = 1 .. (Len(coros) + 1)
        /\ \A k \in 1 .. Len(coros) :
             /\ coros'[k] = coros[k] /\ pollfds'[k] = pollfds[k]
             /\ state'[coros[k]] = state[coros[k]]
        /\ coros'[Len(coros) + 1] = c /\ state'[c] = "INVALID"
        /\ pollfds'[Len(coros) + 1].revents = {}
    <3>1. Len(coros') = Len(coros) + 1 /\ Len(pollfds') = Len(coros')
      BY <1>a, <2>1, AddFdProperties DEF Aligned
    <3>2. DOMAIN coros' = 1 .. (Len(coros) + 1) /\ DOMAIN pollfds' = 1 .. (Len(coros) + 1)
      BY <2>3, <3>1, LenProperties DEF TypeOK
    <3>3. /\ \A k \in DOMAIN coros : coros'[k] = coros[k] /\ pollfds'[k] = pollfds[k]
          /\ \A d \in live : state'[d] = state[d]
      BY <1>a, <2>1, AddFdProperties
    <3>4. /\ coros'[Len(coros) + 1] = c /\ state'[c] = "INVALID"
          /\ pollfds'[Len(coros) + 1] = Slot(f)
      BY <1>a, <2>1, AddFdProperties
    <3> QED BY <1>0, <3>2, <3>3, <3>4 DEF Slot
  <2>5. \A k \in 1 .. (Len(coros) + 1) : k \in 1 .. Len(coros) \/ k = Len(coros) + 1
    BY <1>0
  <2>6. NoneOver'
    BY <1>0, <1>a, <2>2, <2>4, <2>5 DEF NoneOver
  <2>7. DueAhead'
    BY <1>0, <2>2, <2>4, <2>5 DEF DueAhead
  <2> QED BY <2>3, <2>6, <2>7
<1>3. CASE Unregister
  <2>1. PICK k \in (i + 1) .. Len(pollfds) : DelAt(k)
    BY <1>3 DEF Unregister
  <2>2. UNCHANGED <<running, pc, i>> /\ k \in 1 .. Len(coros) /\ k > i
    BY <1>0, <1>3, <2>1 DEF Unregister
  <2>3. TypeOK' /\ Aligned' /\ Owned'
    BY <1>0, <1>a, <2>1, <2>2, DelAtProperties DEF TypeOK
  <2>4. /\ DOMAIN coros' = 1 .. (Len(coros) - 1) /\ i \in DOMAIN coros'
        /\ \A j \in DOMAIN coros' :
             /\ coros'[j] = coros[IF j < k THEN j ELSE j + 1]
             /\ state'[coros'[j]] = state[coros'[j]]
    <3>1. /\ Len(coros') = Len(coros) - 1 /\ OwnsCoros'
          /\ \A j \in DOMAIN coros' : coros'[j] = coros[IF j < k THEN j ELSE j + 1]
          /\ \A c \in live' : state'[c] = state[c]
      BY <1>0, <1>a, <2>1, <2>2, DelAtProperties
    <3>2. DOMAIN coros' = 1 .. (Len(coros) - 1)
      BY <2>3, <3>1, LenProperties DEF TypeOK
    <3> QED BY <1>0, <1>a, <2>2, <3>1, <3>2 DEF OwnsCoros, Range
  <2>5. \A j \in DOMAIN coros' :
          LET l == IF j < k THEN j ELSE j + 1
          IN  l \in 1 .. Len(coros) /\ (l = i <=> j = i)
    BY <1>0, <1>a, <2>2, <2>4
  <2>6. NoneOver'
    BY <1>0, <2>2, <2>4, <2>5 DEF NoneOver
  <2>7. DueAhead'
    <3>1. \A j \in DOMAIN pollfds' : "IN" \in pollfds'[j].revents /\ j > i => coros'[j] \in due'
      BY <1>0, <1>a, <2>1, <2>2, DelAtAhead
    <3> QED BY <1>a, <2>2, <3>1 DEF DueAhead
  <2> QED BY <2>3, <2>6, <2>7
<1>4. CASE Return
  <2>1. PICK s \in {"PAUSED", "FINISHED", "ERRORED"} : SwitchBack(s)
    BY <1>4 DEF Return, Yield, Finish, Error
  <2>2. CASE DelAt(i)
    BY <1>0, <1>a, <2>1, <2>2, DeletionKeepsInv DEF SwitchBack, TypeOK
  <2>3. CASE /\ Stays(s)
             /\ state' = [state EXCEPT ![Current] = s]
             /\ UNCHANGED <<coros, pollfds, home, open, kernel, due>>
    <3>1. /\ UNCHANGED <<running, coros, pollfds, home, live, open, kernel, due>>
          /\ pc' = "scan" /\ i' = i + 1
      BY <2>1, <2>3 DEF SwitchBack, live
    <3>2. /\ state' \in [live -> CoroStates]
          /\ state'[coros[i]] \in {"PAUSED", "ERRORED"}
          /\ state'[coros[i]] = "ERRORED" => ErrorHandler # "NULL"
          /\ \A c \in live : c # coros[i] => state'[c] = state[c]
      BY <1>0, <1>a, <2>3 DEF TypeOK, CoroStates, Stays, Current
    <3>3. TypeOK'
      BY <1>0, <3>1, <3>2 DEF TypeOK
    <3>4. Aligned' /\ Owned'
      BY <1>a, <3>1 DEF Aligned, OwnsCoros, OwnsFds, IsInjective, Range
    <3>5. NoneOver'
      BY <1>0, <1>a, <3>1, <3>2 DEF NoneOver
    <3>6. DueAhead'
      BY <1>0, <1>a, <3>1 DEF DueAhead
    <3> QED BY <3>3, <3>4, <3>5, <3>6
  <2> QED BY <2>1, <2>2, <2>3 DEF SwitchBack
<1> QED BY <1>1, <1>2, <1>3, <1>4 DEF HandlerStep

\* The world outside changes only what poll will report.
LEMMA HappensKeepsInv ==
  ASSUME IInv, Happens
  PROVE  IInv'
<1>1. kernel' \in [Fds -> SUBSET Events]
  BY DEF IInv, Happens, TypeOK
<1>2. UNCHANGED <<running, coros, pollfds, state, home, live, open, pc, i, due>>
  BY DEF Happens, live
<1> QED BY <1>1, <1>2 DEF IInv, TypeOK, Aligned, Owned, OwnsCoros, OwnsFds, IsInjective,
                         Range, NoneOver, DueAhead

-----------------------------------------------------------------------------
(* The theorems. *)

\* The strengthened invariant holds in every reachable state.
THEOREM Inductive == Spec => []IInv
<1>1. IInv /\ UNCHANGED vars => IInv'
  BY DEF vars, IInv, TypeOK, Aligned, Owned, OwnsCoros, OwnsFds, IsInjective, Range,
         NoneOver, DueAhead, live
<1>2. IInv /\ [Next]_vars => IInv'
  BY <1>1, LoopStepKeepsInv, PollFailsKeepsInv, HandlerStepKeepsInv, HappensKeepsInv DEF Next
<1> QED BY <1>2, InitInv, PTL DEF Spec

\* Every variable keeps its type.
THEOREM TypeCorrect == Spec => []TypeOK
BY Inductive, PTL DEF IInv

\* coros and pollfds stay matched by position (eventloop.c:81-96 and 112-121).
THEOREM ArraysAligned == Spec => []Aligned
BY Inductive, PTL DEF IInv

\* The arrays own the coroutines and the descriptors: no leak, no double free,
\* no descriptor polled after it was closed.
THEOREM ArraysOwn == Spec => []Owned
BY Inductive, PTL DEF IInv

\* The loop never holds a coroutine that is over.
THEOREM NoCoroutineOver == Spec => []NoneOver
BY Inductive, PTL DEF IInv

\* A coroutine is resumed only for input reported on its descriptor.
THEOREM ResumptionsAreDue == Spec => ResumedOnlyIfDue
<1> DEFINE A == \A c \in live' :
                  state'[c] = "RUNNING" /\ (c \in live => state[c] # "RUNNING") => c \in due
<1>1. ASSUME IInv, [Next]_vars
      PROVE  [A]_vars
  <2>0. /\ OwnsCoros /\ Aligned
        /\ DOMAIN coros = 1 .. Len(coros) /\ DOMAIN pollfds = 1 .. Len(coros)
        /\ Len(pollfds) = Len(coros) /\ Len(coros) \in Nat /\ i \in Nat \ {0}
        /\ \A k \in 1 .. Len(coros) : coros[k] \in live
    BY <1>1, Positions DEF IInv, Owned
  <2>1. CASE Resume
    <3>1. i \in 1 .. Len(coros) /\ coros[i] \in due /\ i >= i
      BY <1>1, <2>0, <2>1 DEF Resume, Scanning, IInv, DueAhead
    <3>2. live' = live /\ \A c \in live : c # coros[i] => state'[c] = state[c]
      BY <2>1 DEF Resume, Current, live, IInv, TypeOK
    <3> QED BY <3>1, <3>2
  <2>2. CASE \E k \in DOMAIN coros : DelAt(k)
    <3>1. live' \subseteq live /\ \A c \in live' : state'[c] = state[c]
      BY <2>2 DEF DelAt, FreeAll, Restrict, live
    <3> QED BY <3>1
  <2>3. CASE Register
    <3>1. PICK c \in Coros \ live : \E f \in Fds : AddFd(c, f)
      BY <2>3 DEF Register
    <3>2. /\ live' = live \cup {c} /\ state'[c] = "INVALID"
          /\ \A d \in live : state'[d] = state[d]
      BY <3>1 DEF AddFd, live
    <3> QED BY <3>2
  <2>4. CASE Return
    <3>1. PICK s \in {"PAUSED", "FINISHED", "ERRORED"} : SwitchBack(s)
      BY <2>4 DEF Return, Yield, Finish, Error
    <3>2. CASE DelAt(i)
      BY <1>1, <2>2, <3>1, <3>2 DEF SwitchBack, InHandler, IInv, NoneOver
    <3>3. CASE state' = [state EXCEPT ![Current] = s] /\ UNCHANGED home
      BY <1>1, <3>3 DEF Current, live, IInv, TypeOK
    <3> QED BY <3>1, <3>2, <3>3 DEF SwitchBack
  <2>5. CASE EndPass
    <3>1. live' \subseteq live /\ \A c \in live' : state'[c] = state[c]
      BY <2>5 DEF EndPass, FreeAll, Restrict, live
    <3> QED BY <3>1
  <2>6. CASE Poll \/ PollFails \/ Skip \/ Read \/ Stop \/ Happens \/ UNCHANGED vars
    <3>1. live' = live /\ state' = state
      BY <2>6 DEF Poll, PollFails, Skip, Read, Stop, Happens, vars, live
    <3> QED BY <3>1
  <2>7. CASE HangUp \/ UnknownEvent
    BY <2>0, <2>2, <2>7 DEF HangUp, UnknownEvent, Scanning
  <2>8. CASE Unregister
    <3>1. PICK k \in (i + 1) .. Len(pollfds) : DelAt(k)
      BY <2>8 DEF Unregister
    <3>2. k \in DOMAIN coros
      BY <2>0, <3>1
    <3> QED BY <2>2, <3>1, <3>2
  <2> QED BY <1>1, <2>1, <2>3, <2>4, <2>5, <2>6, <2>7, <2>8
          DEF Next, LoopStep, HandlerStep
<1> QED BY <1>1, Inductive, PTL DEF Spec, ResumedOnlyIfDue

=============================================================================
