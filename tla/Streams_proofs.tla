----------------------------- MODULE Streams_proofs -----------------------------
(***************************************************************************)
(* What is passed on between two ends, for streams of any length: the      *)
(* handler of unet (for any room in the pipe) and the two pumps of the     *)
(* bridge (for any buffer and any room in the sockets).                    *)
(***************************************************************************)
EXTENDS Unet, Bridge, Integers, SequenceTheorems, TLAPS

-----------------------------------------------------------------------------
(* Sequences of units *)

\* The units are consecutive, from behind n on.
Run(units, n) == \A k \in 1 .. Len(units) : units[k] = n + k

LEMMA Appended ==
  ASSUME NEW S, NEW q \in Seq(S), NEW e \in S
  PROVE  /\ Append(q, e) \in Seq(S) /\ Len(q) \in Nat /\ Len(Append(q, e)) = Len(q) + 1
         /\ \A i \in 1 .. Len(q) : Append(q, e)[i] = q[i]
         /\ Append(q, e)[Len(q) + 1] = e
BY AppendProperties

LEMMA RunGrows ==
  ASSUME NEW units \in Seq(Nat), NEW n \in Int, Run(units, n), NEW u \in Nat, u = n + Len(units) + 1
  PROVE  Append(units, u) \in Seq(Nat) /\ Len(Append(units, u)) = Len(units) + 1 /\ Run(Append(units, u), n)
<1> DEFINE r == Append(units, u)
<1>1. PICK k \in Nat : k = Len(units)
  OBVIOUS
<1>2. r \in Seq(Nat) /\ Len(r) = k + 1 /\ (\A i \in 1 .. k : r[i] = units[i]) /\ r[k + 1] = u
  BY <1>1, Appended
<1> HIDE DEF r
<1>3. \A i \in 1 .. k : units[i] = n + i
  BY <1>1 DEF Run
<1>4. r[k + 1] = n + (k + 1)
  BY <1>1, <1>2
<1>5. \A i \in 1 .. k + 1 : i \in 1 .. k \/ i = k + 1
  OBVIOUS
<1>6. \A i \in 1 .. k + 1 : r[i] = n + i
  BY <1>2, <1>3, <1>4, <1>5
<1>. QED
  BY <1>1, <1>2, <1>6 DEF Run, r

LEMMA Joined ==
  ASSUME NEW s \in Seq(Nat), NEW t \in Seq(Nat)
  PROVE  /\ s \o t \in Seq(Nat) /\ Len(s \o t) = Len(s) + Len(t) /\ Len(s \o t) \in Nat
         /\ \A k \in 1 .. Len(s) : (s \o t)[k] = s[k]
         /\ \A k \in 1 .. Len(t) : (s \o t)[Len(s) + k] = t[k]
<1>1. s \o t \in Seq(Nat) /\ Len(s \o t) = Len(s) + Len(t)
  OBVIOUS
<1>2. \A k \in 1 .. Len(s) : (s \o t)[k] = s[k]
  OBVIOUS
<1>3. \A k \in 1 .. Len(t) : (s \o t)[Len(s) + k] = t[k]
  OBVIOUS
<1>. QED
  BY <1>1, <1>2, <1>3

\* It does not matter whether a unit or what is before it is joined first.
LEMMA JoinedBehind ==
  ASSUME NEW s \in Seq(Nat), NEW t \in Seq(Nat), NEW u \in Nat
  PROVE  s \o Append(t, u) = Append(s \o t, u)
<1> DEFINE a == s \o Append(t, u)
           b == Append(s \o t, u)
<1>1. PICK m \in Nat, n \in Nat : m = Len(s) /\ n = Len(t)
  OBVIOUS
<1>2. /\ s \o t \in Seq(Nat) /\ Len(s \o t) = m + n /\ \A k \in 1 .. m : (s \o t)[k] = s[k]
      /\ \A k \in 1 .. n : (s \o t)[m + k] = t[k]
  BY <1>1, Joined
<1>3. /\ Append(t, u) \in Seq(Nat) /\ Len(Append(t, u)) = n + 1 /\ \A k \in 1 .. n : Append(t, u)[k] = t[k]
      /\ Append(t, u)[n + 1] = u
  BY <1>1, Appended
<1>4. /\ a \in Seq(Nat) /\ Len(a) = m + (n + 1) /\ \A k \in 1 .. m : a[k] = s[k]
      /\ \A k \in 1 .. n + 1 : a[m + k] = Append(t, u)[k]
  BY <1>1, <1>3, Joined
<1>5. /\ b \in Seq(Nat) /\ Len(b) = m + n + 1 /\ \A k \in 1 .. m + n : b[k] = (s \o t)[k]
      /\ b[m + n + 1] = u
  BY <1>2, Appended
<1> HIDE DEF a, b
<1>6. ASSUME NEW k \in 1 .. m + n + 1 PROVE a[k] = b[k]
  <2>1. CASE k \in 1 .. m
    <3>1. k \in 1 .. m + n
      BY <2>1
    <3>. QED
      BY <1>2, <1>4, <1>5, <2>1, <3>1
  <2>2. CASE k \in m + 1 .. m + n
    <3>1. PICK i \in 1 .. n : k = m + i
      <4>1. k - m \in 1 .. n /\ k = m + (k - m)
        BY <2>2
      <4>. QED
        BY <4>1
    <3>2. k \in 1 .. m + n /\ i \in 1 .. n + 1
      BY <2>2, <3>1
    <3>3. a[m + i] = t[i] /\ (s \o t)[m + i] = t[i]
      BY <1>2, <1>3, <1>4, <3>2
    <3>. QED
      BY <1>5, <3>1, <3>2, <3>3
  <2>3. CASE k = m + n + 1
    <3>1. k = m + (n + 1) /\ n + 1 \in 1 .. n + 1
      BY <2>3
    <3>. QED
      BY <1>3, <1>4, <1>5, <2>3, <3>1
  <2>. QED
    BY <2>1, <2>2, <2>3
<1>7. Len(a) = m + n + 1 /\ Len(b) = m + n + 1
  BY <1>4, <1>5
<1>. QED
  BY <1>4, <1>5, <1>6, <1>7, SeqEqual DEF a, b

LEMMA PrefixByUnits ==
  ASSUME NEW s \in Seq(Nat), NEW t \in Seq(Nat), Len(s) <= Len(t), \A k \in 1 .. Len(s) : s[k] = t[k]
  PROVE  IsPrefix(s, t)
<1>1. SubSeq(s, 1, Len(s)) = [k \in 1 .. Len(s) |-> s[k]]
  OBVIOUS
<1>2. SubSeq(t, 1, Len(s)) = [k \in 1 .. Len(s) |-> t[k]]
  OBVIOUS
<1>3. SubSeq(s, 1, Len(s)) = SubSeq(t, 1, Len(s))
  BY <1>1, <1>2
<1>. QED
  BY <1>3 DEF IsPrefix

-----------------------------------------------------------------------------
(* The handler of unet: python/unet/main.py *)

UnetTypeOK ==
  /\ queue \in Seq(Idents \X Nat) /\ msg \in Idents \X Nat
  /\ reader \in [Idents -> {"read", "put", "ended"}]
  /\ item \in [Idents -> Nat] /\ given \in [Idents -> Nat]
  /\ handler \in {"start", "get", "work", "wait", "done"}
  /\ wire \in [Idents -> Seq(Nat)] /\ taken \in [Idents -> Seq(Nat)]
  /\ pipe \in Seq(Nat) /\ last \in SUBSET Idents

\* How many units of a source have been passed on; is one being worked on, or
\* about to be put into the queue?
Passed(id) == IF id = "CLIENT" THEN Len(taken["SERVER"]) + Len(pipe) ELSE Len(taken["CLIENT"])
InHand(id) == IF Working(id) /\ msg[2] # None THEN 1 ELSE 0
Behind(id) == IF reader[id] = "put" /\ item[id] # None THEN Len(wire[id]) + 1 ELSE Len(wire[id])

\* In a queue are exactly the units from behind lo to hi of a source, in order,
\* and behind them perhaps its end.
Queued(q, id, lo, hi) ==
  /\ lo <= hi
  /\ \A v \in lo + 1 .. hi : \E i \in 1 .. Len(q) : q[i] = <<id, v>>
  /\ \A i \in 1 .. Len(q) : q[i][1] = id /\ q[i][2] # None => q[i][2] \in lo + 1 .. hi
  /\ \A i, j \in 1 .. Len(q) :
       i < j /\ q[i][1] = id /\ q[j][1] = id =>
         q[i][2] # None /\ (q[j][2] = None \/ q[i][2] < q[j][2])

\* Nothing of a source is lost or changes places between it and the handler.
Flow(id) ==
  /\ Run(wire[id], given[id] - Len(wire[id]))
  /\ reader[id] = "put" /\ item[id] # None => item[id] = given[id] - Len(wire[id])
  /\ Working(id) /\ msg[2] # None => msg[2] = Passed(id) + 1
  /\ Passed(id) <= given[id] /\ Behind(id) <= given[id]
  /\ handler # "done" => Queued(queue, id, Passed(id) + InHand(id), given[id] - Behind(id))

PassedInOrder ==
  /\ Run(taken["SERVER"], 0) /\ Run(pipe, Len(taken["SERVER"])) /\ Run(taken["CLIENT"], 0)

InQueue(id) == \E i \in 1 .. Len(queue) : queue[i][1] = id
EndInQueue(id) == \E i \in 1 .. Len(queue) : queue[i][1] = id /\ queue[i][2] = None
EndInHand(id) == handler = "work" /\ msg = <<id, None>>

\* The end of a source is the last of it.
EndLast(id) ==
  /\ (reader[id] = "put" /\ item[id] = None) \/ EndInQueue(id) \/ EndInHand(id)
       => id \in last /\ wire[id] = <<>>
  /\ EndInQueue(id) \/ EndInHand(id) => reader[id] = "ended"
  /\ EndInHand(id) => ~InQueue(id)

\* The handler's loop goes on until the command's end, after which nothing of
\* what it printed is missing; the client's end counts once.
Loop ==
  /\ handler = "start" => queue = <<>> /\ reader = [id \in Idents |-> "ended"]
  /\ handler \in {"get", "work"} =>
       /\ running \in {1, 2} /\ (running = 2 => stdin)
       /\ running = 1 => reader["CLIENT"] = "ended" /\ ~InQueue("CLIENT") /\ ~Working("CLIENT")
  /\ handler = "wait" => "SERVER" \in last /\ Len(taken["CLIENT"]) = given["SERVER"]

UnetIInv == UnetTypeOK /\ PassedInOrder /\ Loop /\ \A id \in Idents : Flow(id) /\ EndLast(id)

-----------------------------------------------------------------------------
(* The queue *)

LEMMA Taken ==
  ASSUME NEW S, NEW q \in Seq(S), q # <<>>
  PROVE  /\ Tail(q) \in Seq(S) /\ Len(q) \in Nat \ {0} /\ Len(Tail(q)) = Len(q) - 1
         /\ \A i \in 1 .. Len(q) - 1 : Tail(q)[i] = q[i + 1]
         /\ Head(q) = q[1] /\ Head(q) \in S
<1>1. /\ Tail(q) \in Seq(S) /\ Len(Tail(q)) = Len(q) - 1
      /\ \A i \in 1 .. Len(Tail(q)) : Tail(q)[i] = q[i + 1]
  BY HeadTailProperties
<1>2. Len(q) \in Nat \ {0} /\ Head(q) = q[1] /\ Head(q) \in S
  OBVIOUS
<1>. QED
  BY <1>1, <1>2

\* A unit, or the end, is put behind the others.
LEMMA PutQueued ==
  ASSUME NEW q \in Seq(Idents \X Nat), NEW id, NEW by \in Idents, NEW x \in Nat, NEW lo \in Nat, NEW hi \in Nat,
         Queued(q, id, lo, hi),
         id = by => /\ x \in {None, hi + 1}
                    /\ \A i \in 1 .. Len(q) : ~(q[i][1] = id /\ q[i][2] = None)
  PROVE  Queued(Append(q, <<by, x>>), id, lo, IF id = by /\ x # None THEN hi + 1 ELSE hi)
<1> DEFINE r == Append(q, <<by, x>>)
<1>1. PICK n \in Nat : n = Len(q)
  OBVIOUS
<1>2. Len(r) = n + 1 /\ (\A i \in 1 .. n : r[i] = q[i]) /\ r[n + 1] = <<by, x>>
  <2>1. <<by, x>> \in Idents \X Nat
    OBVIOUS
  <2>. QED
    BY <1>1, <2>1, Appended
<1> HIDE DEF r
<1>3. PICK top \in Nat : top = IF id = by /\ x # None THEN hi + 1 ELSE hi
  OBVIOUS
<1>4. \A i \in 1 .. n + 1 : i \in 1 .. n \/ i = n + 1
  OBVIOUS
<1>5. \A i \in 1 .. n : q[i] \in Idents \X Nat
  BY <1>1
<1>6. lo <= hi /\ lo <= top /\ top >= hi
  BY <1>3 DEF Queued
<1>7. ASSUME NEW v \in lo + 1 .. top PROVE \E i \in 1 .. Len(r) : r[i] = <<id, v>>
  <2>1. CASE v \in lo + 1 .. hi
    <3>1. PICK i \in 1 .. n : q[i] = <<id, v>>
      BY <1>1, <2>1 DEF Queued
    <3>2. i \in 1 .. Len(r) /\ r[i] = <<id, v>>
      BY <1>2, <3>1
    <3>. QED
      BY <3>2
  <2>2. CASE v \notin lo + 1 .. hi
    <3>1. id = by /\ x = hi + 1 /\ v = hi + 1
      BY <1>3, <2>2 DEF None
    <3>2. n + 1 \in 1 .. Len(r) /\ r[n + 1] = <<id, v>>
      BY <1>2, <3>1
    <3>. QED
      BY <3>2
  <2>. QED
    BY <2>1, <2>2
<1>8. ASSUME NEW i \in 1 .. Len(r), r[i][1] = id, r[i][2] # None PROVE r[i][2] \in lo + 1 .. top
  <2>1. CASE i \in 1 .. n
    <3>1. q[i][2] \in lo + 1 .. hi
      BY <1>1, <1>2, <1>8, <2>1 DEF Queued
    <3>. QED
      BY <1>2, <1>6, <2>1, <3>1
  <2>2. CASE i = n + 1
    <3>1. id = by /\ x # None /\ r[i][2] = x
      BY <1>2, <1>8, <2>2
    <3>2. x = hi + 1 /\ top = hi + 1
      BY <1>3, <3>1
    <3>3. hi + 1 \in lo + 1 .. top
      BY <1>6, <3>2
    <3>. QED
      BY <3>1, <3>2, <3>3, Zenon
  <2>. QED
    BY <1>2, <1>4, <2>1, <2>2
<1>9. ASSUME NEW i \in 1 .. Len(r), NEW j \in 1 .. Len(r), i < j, r[i][1] = id, r[j][1] = id
      PROVE  r[i][2] # None /\ (r[j][2] = None \/ r[i][2] < r[j][2])
  <2>1. i \in 1 .. n
    BY <1>2, <1>9
  <2>2. CASE j \in 1 .. n
    BY <1>1, <1>2, <1>9, <2>1, <2>2 DEF Queued
  <2>3. CASE j = n + 1
    <3>1. id = by /\ r[j][2] = x /\ r[i] = q[i]
      BY <1>2, <1>9, <2>1, <2>3
    <3>2. q[i] \in Idents \X Nat /\ q[i][1] = id
      BY <1>1, <1>5, <1>9, <2>1, <3>1
    <3>3. q[i][2] # None
      BY <1>1, <2>1, <3>1, <3>2
    <3>4. q[i][2] \in lo + 1 .. hi
      BY <1>1, <2>1, <3>2, <3>3 DEF Queued
    <3>5. x = None \/ q[i][2] < x
      BY <3>1, <3>4
    <3>. QED
      BY <3>1, <3>3, <3>5
  <2>. QED
    BY <1>2, <1>4, <2>2, <2>3
<1>. QED
  BY <1>3, <1>6, <1>7, <1>8, <1>9 DEF Queued, r

\* What is taken out of the queue: a unit is the next of its source, and an end
\* the last that the queue has of it.
LEMMA GetQueued ==
  ASSUME NEW q \in Seq(Idents \X Nat), q # <<>>, NEW id \in Idents, NEW lo \in Nat, NEW hi \in Nat,
         Queued(q, id, lo, hi)
  PROVE  LET e == Head(q)
         IN  /\ e[1] # id => Queued(Tail(q), id, lo, hi)
             /\ e[1] = id /\ e[2] # None => e[2] = lo + 1 /\ Queued(Tail(q), id, lo + 1, hi)
             /\ e[1] = id /\ e[2] = None => /\ lo = hi /\ Queued(Tail(q), id, lo, hi)
                                           /\ \A i \in 1 .. Len(Tail(q)) : Tail(q)[i][1] # id
<1> DEFINE r == Tail(q)
           e == Head(q)
<1>1. PICK n \in Nat : Len(q) = n + 1
  <2>1. Len(q) - 1 \in Nat /\ Len(q) = Len(q) - 1 + 1
    OBVIOUS
  <2>. QED
    BY <2>1
<1>2. /\ Len(r) = n /\ (\A i \in 1 .. n : r[i] = q[i + 1]) /\ e = q[1]
      /\ \A i \in 1 .. n : i + 1 \in 1 .. n + 1 /\ 1 < i + 1
      /\ \A i \in 1 .. n + 1 : i = 1 \/ \E j \in 1 .. n : i = j + 1
  <2>1. Len(r) = Len(q) - 1 /\ (\A i \in 1 .. Len(q) - 1 : r[i] = q[i + 1]) /\ e = q[1]
    BY Taken
  <2>. HIDE DEF r, e
  <2>2. \A i \in 1 .. n + 1 : i = 1 \/ (i - 1 \in 1 .. n /\ i = i - 1 + 1)
    OBVIOUS
  <2>3. \A i \in 1 .. n : i + 1 \in 1 .. n + 1 /\ 1 < i + 1
    OBVIOUS
  <2>. QED
    BY <1>1, <2>1, <2>2, <2>3
<1> HIDE DEF r, e
<1>3. /\ lo <= hi
      /\ \A v \in lo + 1 .. hi : \E i \in 1 .. n + 1 : q[i] = <<id, v>>
      /\ \A i \in 1 .. n + 1 : q[i][1] = id /\ q[i][2] # None => q[i][2] \in lo + 1 .. hi
      /\ \A i, j \in 1 .. n + 1 :
           i < j /\ q[i][1] = id /\ q[j][1] = id =>
             q[i][2] # None /\ (q[j][2] = None \/ q[i][2] < q[j][2])
  BY <1>1 DEF Queued
<1>4. ASSUME NEW i \in 1 .. n, NEW j \in 1 .. n, i < j, r[i][1] = id, r[j][1] = id
      PROVE  r[i][2] # None /\ (r[j][2] = None \/ r[i][2] < r[j][2])
  <2>1. i + 1 < j + 1 /\ i + 1 \in 1 .. n + 1 /\ j + 1 \in 1 .. n + 1
    BY <1>4
  <2>2. r[i] = q[i + 1] /\ r[j] = q[j + 1]
    BY <1>2
  <2>3. q[i + 1][1] = id /\ q[j + 1][1] = id
    BY <1>4, <2>2
  <2>4. q[i + 1][2] # None /\ (q[j + 1][2] = None \/ q[i + 1][2] < q[j + 1][2])
    BY <1>3, <2>1, <2>3
  <2>. QED
    BY <2>2, <2>4
<1>5. ASSUME NEW i \in 1 .. n, r[i][1] = id, r[i][2] # None PROVE r[i][2] \in lo + 1 .. hi
  <2>1. i + 1 \in 1 .. n + 1 /\ r[i] = q[i + 1]
    BY <1>2
  <2>. QED
    BY <1>3, <1>5, <2>1
<1>6. ASSUME NEW i \in 1 .. n, r[i][1] = id, e[1] = id
      PROVE  e[2] # None /\ (r[i][2] = None \/ e[2] < r[i][2])
  <2>1. 1 \in 1 .. n + 1 /\ i + 1 \in 1 .. n + 1 /\ 1 < i + 1 /\ r[i] = q[i + 1] /\ e = q[1]
    BY <1>2
  <2>. QED
    BY <1>3, <1>6, <2>1
<1>7. ASSUME NEW v \in lo + 1 .. hi PROVE e = <<id, v>> \/ \E i \in 1 .. n : r[i] = <<id, v>>
  <2>1. PICK i \in 1 .. n + 1 : q[i] = <<id, v>>
    BY <1>3
  <2>2. CASE i = 1
    BY <1>2, <2>1, <2>2
  <2>3. CASE i # 1
    <3>1. PICK j \in 1 .. n : i = j + 1
      BY <1>2, <2>3
    <3>2. r[j] = <<id, v>>
      BY <1>2, <2>1, <3>1
    <3>. QED
      BY <3>2
  <2>. QED
    BY <2>2, <2>3
<1>8. e[1] # id => Queued(r, id, lo, hi)
  <2> SUFFICES ASSUME e[1] # id PROVE Queued(r, id, lo, hi)
    OBVIOUS
  <2>1. ASSUME NEW v \in lo + 1 .. hi PROVE \E i \in 1 .. n : r[i] = <<id, v>>
    <3>1. e # <<id, v>>
      OBVIOUS
    <3>. QED
      BY <1>7, <3>1, Zenon
  <2>. QED
    BY <1>2, <1>3, <1>4, <1>5, <2>1 DEF Queued
<1>9. ASSUME e[1] = id, e[2] # None PROVE e[2] = lo + 1 /\ Queued(r, id, lo + 1, hi)
  <2>1. e[2] \in lo + 1 .. hi
    <3>1. 1 \in 1 .. n + 1
      OBVIOUS
    <3>. QED
      BY <1>2, <1>3, <1>9, <3>1
  <2>2. e[2] = lo + 1
    <3>1. SUFFICES ASSUME e[2] # lo + 1 PROVE FALSE
      OBVIOUS
    <3>2. lo + 1 \in lo + 1 .. hi
      BY <2>1
    <3>3. PICK i \in 1 .. n : r[i] = <<id, lo + 1>>
      <4>1. e # <<id, lo + 1>>
        BY <3>1
      <4>. QED
        BY <1>7, <3>2, <4>1, Zenon
    <3>4. lo + 1 = None \/ e[2] < lo + 1
      <4>1. r[i][1] = id /\ r[i][2] = lo + 1
        BY <3>3
      <4>2. r[i][2] = None \/ e[2] < r[i][2]
        BY <1>6, <1>9, <4>1, Zenon
      <4>. QED
        BY <4>1, <4>2
    <3>. QED
      BY <2>1, <3>4 DEF None
  <2>3. ASSUME NEW v \in lo + 1 + 1 .. hi PROVE \E i \in 1 .. n : r[i] = <<id, v>>
    <3>1. v \in lo + 1 .. hi /\ v # lo + 1
      OBVIOUS
    <3>2. e # <<id, v>>
      BY <2>2, <3>1
    <3>. QED
      BY <1>7, <3>1, <3>2, Zenon
  <2>4. ASSUME NEW i \in 1 .. n, r[i][1] = id, r[i][2] # None PROVE r[i][2] \in lo + 1 + 1 .. hi
    <3>1. r[i][2] \in lo + 1 .. hi /\ e[2] < r[i][2]
      BY <1>5, <1>6, <1>9, <2>4
    <3>. QED
      BY <2>2, <3>1
  <2>5. lo + 1 <= hi
    BY <2>1, <2>2
  <2>. QED
    BY <1>2, <1>4, <2>2, <2>3, <2>4, <2>5 DEF Queued
<1>10. ASSUME e[1] = id, e[2] = None
       PROVE  lo = hi /\ Queued(r, id, lo, hi) /\ \A i \in 1 .. Len(r) : r[i][1] # id
  <2>1. \A i \in 1 .. n : r[i][1] # id
    BY <1>6, <1>10
  <2>2. lo = hi
    <3>1. SUFFICES ASSUME lo # hi PROVE FALSE
      OBVIOUS
    <3>2. lo + 1 \in lo + 1 .. hi
      BY <1>3, <3>1
    <3>3. \A i \in 1 .. n : r[i] # <<id, lo + 1>>
      BY <2>1
    <3>4. e = <<id, lo + 1>>
      BY <1>7, <3>2, <3>3, Zenon
    <3>. QED
      BY <1>10, <3>4 DEF None
  <2>3. \A v : v \notin lo + 1 .. hi
    BY <2>2
  <2>. QED
    BY <1>2, <1>3, <2>1, <2>2, <2>3 DEF Queued
<1>. QED
  BY <1>8, <1>9, <1>10 DEF r, e

-----------------------------------------------------------------------------
(* Steps *)

LEMMA Numbers ==
  ASSUME UnetTypeOK, NEW id \in Idents
  PROVE  /\ given[id] \in Nat /\ Passed(id) \in Nat /\ Behind(id) \in Nat /\ InHand(id) \in 0 .. 1
         /\ Len(wire[id]) \in Nat /\ Len(queue) \in Nat /\ wire[id] \in Seq(Nat)
<1>1. /\ given[id] \in Nat /\ Len(wire[id]) \in Nat /\ Len(queue) \in Nat /\ wire[id] \in Seq(Nat)
      /\ Len(taken["SERVER"]) \in Nat /\ Len(taken["CLIENT"]) \in Nat /\ Len(pipe) \in Nat
  BY DEF UnetTypeOK, Idents
<1>2. Passed(id) \in Nat
  BY <1>1 DEF Passed
<1>3. Behind(id) \in Nat
  BY <1>1 DEF Behind
<1>4. InHand(id) \in 0 .. 1
  BY DEF InHand
<1>. QED
  BY <1>1, <1>2, <1>3, <1>4

LEMMA UnetInitOK == UnetInit => UnetIInv
<1> SUFFICES ASSUME UnetInit PROVE UnetIInv
  OBVIOUS
<1>1. UnetTypeOK /\ PassedInOrder /\ Loop
  BY DEF UnetInit, UnetTypeOK, PassedInOrder, Run, Loop, Idents, None
<1>2. ASSUME NEW id \in Idents PROVE Flow(id) /\ EndLast(id)
  <2>1. /\ wire[id] = <<>> /\ reader[id] = "ended" /\ given[id] = 0 /\ queue = <<>> /\ handler = "start"
        /\ Len(<<>>) = 0 /\ Passed(id) = 0 /\ InHand(id) = 0 /\ Behind(id) = 0
    BY <1>2 DEF UnetInit, Passed, InHand, Behind, Working, Idents
  <2>2. Queued(<<>>, id, 0, 0)
    BY DEF Queued
  <2>3. Run(<<>>, 0 - 0)
    BY DEF Run
  <2>. QED
    BY <2>1, <2>2, <2>3 DEF Flow, EndLast, InQueue, EndInQueue, EndInHand, Working
<1>. QED
  BY <1>1, <1>2 DEF UnetIInv

\* A step that does not touch a source.
LEMMA SourceStays ==
  ASSUME UnetIInv, NEW id \in Idents, wire'[id] = wire[id], given'[id] = given[id],
         reader'[id] = reader[id], item'[id] = item[id], id \in last => id \in last',
         UNCHANGED <<queue, handler, msg, taken, pipe>>
  PROVE  Flow(id)' /\ EndLast(id)'
<1>1. Flow(id) /\ EndLast(id)
  BY DEF UnetIInv
<1>2. Passed(id)' = Passed(id) /\ Behind(id)' = Behind(id) /\ InHand(id)' = InHand(id)
  BY DEF Passed, Behind, InHand, Working
<1>3. Flow(id)'
  BY <1>1, <1>2 DEF Flow, Working
<1>4. EndLast(id)'
  BY <1>1 DEF EndLast, EndInQueue, InQueue, EndInHand
<1>. QED
  BY <1>3, <1>4

\* A step of the handler or the command.
LEMMA HandlerMoves ==
  ASSUME UnetIInv, NEW id \in Idents, UNCHANGED <<wire, given, reader, item>>, id \in last => id \in last',
         Passed(id)' <= given[id],
         Working(id)' /\ msg'[2] # None => msg'[2] = Passed(id)' + 1,
         handler' # "done" => Queued(queue', id, Passed(id)' + InHand(id)', given[id] - Behind(id)),
         EndInQueue(id)' => EndInQueue(id),
         EndInHand(id)' => (EndInHand(id) \/ EndInQueue(id)) /\ ~InQueue(id)'
  PROVE  Flow(id)' /\ EndLast(id)'
<1>1. Flow(id) /\ EndLast(id)
  BY DEF UnetIInv
<1>2. Behind(id)' = Behind(id)
  BY DEF Behind
<1>3. Flow(id)'
  BY <1>1, <1>2 DEF Flow
<1>4. EndLast(id)'
  BY <1>1 DEF EndLast
<1>. QED
  BY <1>3, <1>4

\* A step of a reader that does not touch the queue.
LEMMA ReaderMoves ==
  ASSUME UnetIInv, NEW by \in Idents, reader[by] = "read", NEW l, reader' = [reader EXCEPT ![by] = l],
         UNCHANGED <<queue, handler, msg, running, stdin, last, pipe, given, taken>>
  PROVE  PassedInOrder' /\ Loop'
<1>1. PassedInOrder'
  BY DEF UnetIInv, PassedInOrder
<1>2. handler # "start"
  BY DEF UnetIInv, Loop
<1>3. reader["CLIENT"] = "ended" => reader'["CLIENT"] = "ended"
  BY DEF UnetIInv, UnetTypeOK, Idents
<1>4. InQueue("CLIENT")' = InQueue("CLIENT") /\ Working("CLIENT")' = Working("CLIENT")
  BY DEF InQueue, Working
<1>. QED
  BY <1>1, <1>2, <1>3, <1>4 DEF UnetIInv, Loop

LEMMA ReadUnitKeeps ==
  ASSUME UnetIInv, NEW by \in Idents, ReadUnit(by)
  PROVE  UnetIInv'
<1>1. /\ reader[by] = "read" /\ wire[by] # <<>>
      /\ reader' = [reader EXCEPT ![by] = "put"] /\ item' = [item EXCEPT ![by] = Head(wire[by])]
      /\ wire' = [wire EXCEPT ![by] = Tail(wire[by])]
      /\ UNCHANGED <<queue, handler, msg, running, stdin, last, reset, command, pipe, given, taken>>
  BY DEF ReadUnit
<1>2. UnetTypeOK /\ Flow(by) /\ EndLast(by)
  BY DEF UnetIInv
<1>3. PICK n \in Nat : Len(wire[by]) = n + 1
  <2>1. Len(wire[by]) - 1 \in Nat /\ Len(wire[by]) = Len(wire[by]) - 1 + 1
    BY <1>1, <1>2, Numbers
  <2>. QED
    BY <2>1
<1>4. /\ Tail(wire[by]) \in Seq(Nat) /\ Len(Tail(wire[by])) = n
      /\ \A i \in 1 .. n : Tail(wire[by])[i] = wire[by][i + 1]
      /\ Head(wire[by]) = wire[by][1] /\ Head(wire[by]) \in Nat
  <2>1. wire[by] \in Seq(Nat)
    BY <1>2, Numbers
  <2>. QED
    BY <1>1, <1>3, <2>1, Taken
<1>5. PICK c \in Nat : c = given[by] /\ n + 1 <= c
  <2>1. Behind(by) = n + 1
    BY <1>1, <1>3 DEF Behind
  <2>. QED
    BY <1>2, <2>1, Numbers DEF Flow
<1>6. \A i \in 1 .. n + 1 : wire[by][i] = c - (n + 1) + i
  BY <1>2, <1>3, <1>5 DEF Flow, Run
<1>7. Head(wire[by]) = c - n /\ c - n # None /\ \A i \in 1 .. n : Tail(wire[by])[i] = c - n + i
  <2>1. 1 \in 1 .. n + 1 /\ \A i \in 1 .. n : i + 1 \in 1 .. n + 1
    OBVIOUS
  <2>2. wire[by][1] = c - n
    BY <1>5, <1>6, <2>1
  <2>3. \A i \in 1 .. n : wire[by][i + 1] = c - n + i
    BY <1>5, <1>6, <2>1
  <2>. QED
    BY <1>4, <1>5, <2>2, <2>3 DEF None
<1>8. UnetTypeOK' /\ PassedInOrder' /\ Loop'
  <2>1. UnetTypeOK'
    BY <1>1, <1>2, <1>4 DEF UnetTypeOK
  <2>2. PassedInOrder' /\ Loop'
    BY <1>1, ReaderMoves
  <2>. QED
    BY <2>1, <2>2
<1>9. /\ reader'[by] = "put" /\ item'[by] = c - n /\ wire'[by] = Tail(wire[by]) /\ given'[by] = c
      /\ \A r \in Idents \ {by} : reader'[r] = reader[r] /\ item'[r] = item[r] /\ wire'[r] = wire[r]
  BY <1>1, <1>2, <1>5, <1>7 DEF UnetTypeOK
<1>10. Flow(by)' /\ EndLast(by)'
  <2>1. Passed(by)' = Passed(by) /\ InHand(by)' = InHand(by) /\ Behind(by) = n + 1 /\ Behind(by)' = n + 1
    BY <1>1, <1>3, <1>4, <1>7, <1>9 DEF Passed, InHand, Behind, Working
  <2>2. Run(wire'[by], c - Len(wire'[by]))
    BY <1>4, <1>7, <1>9 DEF Run
  <2>3. Flow(by)'
    BY <1>1, <1>2, <1>4, <1>5, <1>9, <2>1, <2>2 DEF Flow, Working
  <2>4. ~EndInQueue(by) /\ ~EndInHand(by)
    BY <1>1, <1>2 DEF EndLast
  <2>5. EndLast(by)'
    BY <1>1, <1>7, <1>9, <2>4 DEF EndLast, EndInQueue, EndInHand
  <2>. QED
    BY <2>3, <2>5
<1>11. \A r \in Idents \ {by} : Flow(r)' /\ EndLast(r)'
  BY <1>1, <1>9, SourceStays
<1>. QED
  BY <1>8, <1>10, <1>11 DEF UnetIInv

LEMMA SourceEndsKeeps ==
  ASSUME UnetIInv, NEW by \in Idents, SourceEnds(by) \/ (by = "CLIENT" /\ ReadRaises)
  PROVE  UnetIInv'
<1>1. PICK l \in {"put", "ended"}, x \in Nat :
        /\ reader' = [reader EXCEPT ![by] = l] /\ item' = [item EXCEPT ![by] = x]
        /\ l = "put" => x = None /\ by \in last
  <2>1. CASE SourceEnds(by)
    BY <2>1 DEF SourceEnds, None
  <2>2. CASE by = "CLIENT" /\ ReadRaises
    <3>1. item = [item EXCEPT ![by] = item[by]] /\ item[by] \in Nat
      BY DEF UnetIInv, UnetTypeOK
    <3>. QED
      BY <2>2, <3>1 DEF ReadRaises
  <2>. QED
    BY <2>1, <2>2
<1>2. /\ reader[by] = "read" /\ wire[by] = <<>>
      /\ UNCHANGED <<queue, handler, msg, running, stdin, last, pipe, given, taken, wire>>
  BY DEF SourceEnds, ReadRaises
<1>3. UnetTypeOK /\ Flow(by) /\ EndLast(by)
  BY DEF UnetIInv
<1>4. UnetTypeOK' /\ PassedInOrder' /\ Loop'
  <2>1. UnetTypeOK'
    BY <1>1, <1>2, <1>3 DEF UnetTypeOK
  <2>2. PassedInOrder' /\ Loop'
    BY <1>1, <1>2, ReaderMoves
  <2>. QED
    BY <2>1, <2>2
<1>5. /\ reader'[by] = l /\ item'[by] = x
      /\ \A r \in Idents \ {by} : reader'[r] = reader[r] /\ item'[r] = item[r]
  BY <1>1, <1>3 DEF UnetTypeOK
<1>6. Flow(by)' /\ EndLast(by)'
  <2>1. Passed(by)' = Passed(by) /\ InHand(by)' = InHand(by) /\ Behind(by)' = Behind(by)
    BY <1>1, <1>2, <1>5 DEF Passed, InHand, Behind, Working
  <2>2. Flow(by)'
    BY <1>1, <1>2, <1>3, <1>5, <2>1 DEF Flow, Working
  <2>3. ~EndInQueue(by) /\ ~EndInHand(by)
    BY <1>2, <1>3 DEF EndLast
  <2>4. EndLast(by)'
    BY <1>1, <1>2, <1>5, <2>3 DEF EndLast, EndInQueue, EndInHand
  <2>. QED
    BY <2>2, <2>4
<1>7. \A r \in Idents \ {by} : Flow(r)' /\ EndLast(r)'
  BY <1>2, <1>5, SourceStays
<1>. QED
  BY <1>4, <1>6, <1>7 DEF UnetIInv

LEMMA PutKeeps ==
  ASSUME UnetIInv, NEW by \in Idents, Put(by)
  PROVE  UnetIInv'
<1>1. PICK x \in Nat : x = item[by]
  BY DEF UnetIInv, UnetTypeOK
<1>2. PICK l \in {"read", "ended"} : l = IF x = None THEN "ended" ELSE "read"
  OBVIOUS
<1>3. /\ reader[by] = "put" /\ queue' = Append(queue, <<by, x>>) /\ reader' = [reader EXCEPT ![by] = l]
      /\ UNCHANGED <<item, handler, msg, running, stdin, wire, last, reset, command, pipe, given, taken>>
  BY <1>1, <1>2 DEF Put
<1>4. UnetTypeOK /\ Flow(by) /\ EndLast(by)
  BY DEF UnetIInv
<1>5. PICK n \in Nat : n = Len(queue)
  BY <1>4, Numbers
<1>6. /\ queue' \in Seq(Idents \X Nat) /\ Len(queue') = n + 1 /\ queue \in Seq(Idents \X Nat)
      /\ (\A i \in 1 .. n : queue'[i] = queue[i]) /\ queue'[n + 1] = <<by, x>>
      /\ \A i \in 1 .. n + 1 : i \in 1 .. n \/ i = n + 1
  <2>1. <<by, x>> \in Idents \X Nat /\ queue \in Seq(Idents \X Nat)
    BY <1>4 DEF UnetTypeOK
  <2>. QED
    BY <1>3, <1>5, <2>1, Appended
<1>7. /\ reader'[by] = l /\ \A r \in Idents \ {by} : reader'[r] = reader[r]
  BY <1>3, <1>4 DEF UnetTypeOK
<1>8. ASSUME NEW r \in Idents \ {by}, InQueue(r)' PROVE InQueue(r)
  <2>1. PICK i \in 1 .. n + 1 : queue'[i][1] = r
    BY <1>6, <1>8 DEF InQueue
  <2>2. i # n + 1
    BY <1>6, <2>1
  <2>3. i \in 1 .. Len(queue) /\ queue[i][1] = r
    BY <1>5, <1>6, <2>1, <2>2
  <2>. QED
    BY <2>3 DEF InQueue
<1>9. UnetTypeOK' /\ PassedInOrder' /\ Loop'
  <2>1. UnetTypeOK'
    BY <1>3, <1>4, <1>6 DEF UnetTypeOK
  <2>2. PassedInOrder'
    BY <1>3 DEF UnetIInv, PassedInOrder
  <2>3. Loop'
    <3>1. handler # "start"
      BY <1>3 DEF UnetIInv, Loop
    <3>2. reader["CLIENT"] = "ended" => by # "CLIENT" /\ reader'["CLIENT"] = "ended"
      BY <1>3, <1>7 DEF Idents
    <3>3. "CLIENT" # by => (InQueue("CLIENT")' => InQueue("CLIENT"))
      BY <1>8 DEF Idents
    <3>. QED
      BY <1>3, <3>1, <3>2, <3>3 DEF UnetIInv, Loop, Working
  <2>. QED
    BY <2>1, <2>2, <2>3
<1>10. ASSUME NEW id \in Idents PROVE Flow(id)'
  <2>1. Flow(id) /\ Passed(id)' = Passed(id) /\ InHand(id)' = InHand(id)
    BY <1>3 DEF UnetIInv, Passed, InHand, Working
  <2>2. PICK p \in Nat, h \in 0 .. 1, c \in Nat, b \in Nat, w \in Nat :
          p = Passed(id) /\ h = InHand(id) /\ c = given[id] /\ b = Behind(id) /\ w = Len(wire[id])
    BY <1>4, Numbers
  <2>3. /\ id = by => b = IF x # None THEN w + 1 ELSE w
        /\ Behind(id)' = IF id = by THEN w ELSE b
    BY <1>1, <1>2, <1>3, <1>7, <2>2 DEF Behind
  <2>4. b <= c /\ p <= c
    BY <2>1, <2>2 DEF Flow
  <2>5. handler # "done" => Queued(queue', id, p + h, c - Behind(id)')
    <3> SUFFICES ASSUME handler # "done" PROVE Queued(queue', id, p + h, c - Behind(id)')
      OBVIOUS
    <3>1. p + h \in Nat /\ c - b \in Nat /\ Queued(queue, id, p + h, c - b)
      BY <2>1, <2>2, <2>4 DEF Flow
    <3>2. id = by => /\ x \in {None, c - b + 1}
                     /\ \A i \in 1 .. Len(queue) : ~(queue[i][1] = id /\ queue[i][2] = None)
      <4>1. id = by /\ x # None => x = c - w /\ b = w + 1
        BY <1>1, <1>3, <2>1, <2>2, <2>3 DEF Flow
      <4>2. id = by => ~EndInQueue(by)
        BY <1>3, <1>4 DEF EndLast
      <4>3. c - w = c - (w + 1) + 1
        OBVIOUS
      <4>4. id = by => x \in {None, c - b + 1}
        BY <4>1, <4>3, Zenon
      <4>. QED
        BY <4>2, <4>4, Zenon DEF EndInQueue
    <3>3. Queued(Append(queue, <<by, x>>), id, p + h, IF id = by /\ x # None THEN c - b + 1 ELSE c - b)
      BY <1>6, <3>1, <3>2, PutQueued
    <3>4. c - Behind(id)' = IF id = by /\ x # None THEN c - b + 1 ELSE c - b
      <4>1. c - w = c - (w + 1) + 1
        OBVIOUS
      <4>2. CASE id = by /\ x # None
        BY <2>3, <4>1, <4>2
      <4>3. CASE ~(id = by /\ x # None)
        BY <2>3, <4>3
      <4>. QED
        BY <4>2, <4>3
    <3>. QED
      BY <1>3, <3>3, <3>4, Zenon
  <2>6. Behind(id)' <= c
    BY <2>2, <2>3, <2>4
  <2>7. ~(reader'[id] = "put") \/ reader'[id] = reader[id]
    BY <1>7
  <2>. QED
    BY <1>3, <2>1, <2>2, <2>5, <2>6, <2>7 DEF Flow, Working
<1>11. EndLast(by)'
  <2>1. ~EndInQueue(by) /\ ~EndInHand(by) /\ ~EndInHand(by)'
    BY <1>3, <1>4 DEF EndLast, EndInHand
  <2>2. ASSUME EndInQueue(by)' PROVE x = None
    <3>1. PICK i \in 1 .. n + 1 : queue'[i][1] = by /\ queue'[i][2] = None
      BY <1>6, <2>2 DEF EndInQueue
    <3>2. i \notin 1 .. n
      BY <1>5, <1>6, <2>1, <3>1 DEF EndInQueue
    <3>3. queue'[i] = <<by, x>>
      BY <1>6, <3>2
    <3>. QED
      BY <3>1, <3>3
  <2>3. x = None => by \in last /\ wire[by] = <<>> /\ l = "ended"
    BY <1>1, <1>2, <1>3, <1>4 DEF EndLast
  <2>. QED
    BY <1>2, <1>3, <1>7, <2>1, <2>2, <2>3 DEF EndLast
<1>12. ASSUME NEW r \in Idents \ {by} PROVE EndLast(r)'
  <2>1. ASSUME EndInQueue(r)' PROVE EndInQueue(r)
    <3>1. PICK i \in 1 .. n + 1 : queue'[i][1] = r /\ queue'[i][2] = None
      BY <1>6, <2>1 DEF EndInQueue
    <3>2. i # n + 1
      BY <1>6, <3>1
    <3>3. i \in 1 .. Len(queue) /\ queue[i][1] = r /\ queue[i][2] = None
      BY <1>5, <1>6, <3>1, <3>2
    <3>. QED
      BY <3>3 DEF EndInQueue
  <2>2. EndLast(r) /\ EndInHand(r)' = EndInHand(r)
    BY <1>3 DEF UnetIInv, EndInHand
  <2>. QED
    BY <1>3, <1>7, <1>8, <2>1, <2>2 DEF EndLast
<1>. QED
  BY <1>9, <1>10, <1>11, <1>12 DEF UnetIInv

LEMMA StartKeeps == ASSUME UnetIInv, Start PROVE UnetIInv'
<1> USE DEF Start
<1>1. /\ queue = <<>> /\ queue' = <<>> /\ Len(queue') = 0 /\ handler' = "get"
      /\ \A id \in Idents : reader[id] = "ended" /\ reader'[id] = "read"
  BY DEF UnetIInv, Loop
<1>2. UnetTypeOK'
  BY DEF UnetIInv, UnetTypeOK
<1>3. PassedInOrder' /\ Loop'
  BY <1>1 DEF UnetIInv, PassedInOrder, Loop, InQueue, Working, Idents
<1>4. ASSUME NEW id \in Idents PROVE Flow(id)' /\ EndLast(id)'
  <2>1. Passed(id)' = Passed(id) /\ InHand(id)' = InHand(id) /\ Behind(id)' = Behind(id)
    BY <1>1 DEF Passed, InHand, Behind, Working
  <2>2. Flow(id)'
    BY <1>1, <2>1 DEF UnetIInv, Flow, Working
  <2>3. EndLast(id)'
    BY <1>1 DEF EndLast, EndInQueue, InQueue, EndInHand
  <2>. QED
    BY <2>2, <2>3
<1>. QED
  BY <1>2, <1>3, <1>4 DEF UnetIInv

\* The handler stops, or waits for the command and stops.
LEMMA DoneKeeps ==
  ASSUME UnetIInv, CannotStart \/ Raises \/ Wait
  PROVE  UnetIInv'
<1>1. /\ handler' = "done" /\ stdin' \in {stdin, FALSE}
      /\ UNCHANGED <<queue, reader, item, msg, running, wire, last, reset, command, pipe, given, taken>>
  BY DEF CannotStart, Raises, Wait
<1>2. UnetTypeOK' /\ PassedInOrder' /\ Loop'
  BY <1>1 DEF UnetIInv, UnetTypeOK, PassedInOrder, Loop
<1>3. ASSUME NEW id \in Idents PROVE Flow(id)' /\ EndLast(id)'
  <2>1. Passed(id)' = Passed(id) /\ Passed(id) <= given[id]
    BY <1>1 DEF UnetIInv, Flow, Passed
  <2>2. ~Working(id)' /\ ~EndInHand(id)' /\ EndInQueue(id)' = EndInQueue(id)
    BY <1>1 DEF Working, EndInHand, EndInQueue
  <2>. QED
    BY <1>1, <2>1, <2>2, HandlerMoves
<1>. QED
  BY <1>2, <1>3 DEF UnetIInv

LEMMA GetKeeps == ASSUME UnetIInv, Get PROVE UnetIInv'
<1>1. /\ handler = "get" /\ queue # <<>> /\ handler' = "work" /\ msg' = Head(queue) /\ queue' = Tail(queue)
      /\ UNCHANGED <<reader, item, running, stdin, wire, last, reset, command, pipe, given, taken>>
  BY DEF Get
<1>2. queue \in Seq(Idents \X Nat) /\ queue' \in Seq(Idents \X Nat) /\ msg' \in Idents \X Nat /\ UnetTypeOK
  BY <1>1, Taken DEF UnetIInv, UnetTypeOK
<1>3. PICK n \in Nat : /\ Len(queue) = n + 1 /\ Len(queue') = n
                       /\ \A i \in 1 .. n : queue'[i] = queue[i + 1] /\ i + 1 \in 1 .. n + 1
                       /\ msg' = queue[1] /\ 1 \in 1 .. n + 1
  <2>1. /\ Len(queue) \in Nat \ {0} /\ Len(queue') = Len(queue) - 1
        /\ \A i \in 1 .. Len(queue) - 1 : queue'[i] = queue[i + 1]
        /\ msg' = queue[1]
    BY <1>1, <1>2, Taken
  <2>2. PICK n \in Nat : n = Len(queue) - 1
    BY <2>1
  <2>3. Len(queue) = n + 1 /\ \A i \in 1 .. n : i + 1 \in 1 .. n + 1
    BY <2>1, <2>2
  <2>. QED
    BY <2>1, <2>2, <2>3
<1>4. \A id \in Idents : /\ InQueue(id)' => InQueue(id)
                         /\ msg'[1] = id => InQueue(id)
                         /\ EndInQueue(id)' => EndInQueue(id)
                         /\ msg' = <<id, None>> => EndInQueue(id)
  BY <1>3 DEF InQueue, EndInQueue
<1>5. UnetTypeOK'
  BY <1>1, <1>2 DEF UnetTypeOK
<1>6. PassedInOrder' /\ Loop'
  <2>1. PassedInOrder'
    BY <1>1 DEF UnetIInv, PassedInOrder
  <2>2. running = 1 => ~InQueue("CLIENT")' /\ ~Working("CLIENT")' /\ reader["CLIENT"] = "ended"
    BY <1>1, <1>4 DEF UnetIInv, Loop, Working, Idents
  <2>. QED
    BY <1>1, <2>1, <2>2 DEF UnetIInv, Loop
<1>7. ASSUME NEW id \in Idents PROVE Flow(id)' /\ EndLast(id)'
  <2>1. PICK p \in Nat, top \in Nat : /\ p = Passed(id) /\ top = given[id] - Behind(id) /\ p <= given[id]
                                      /\ Queued(queue, id, p, top)
    <3>1. InHand(id) = 0 /\ Flow(id)
      BY <1>1 DEF InHand, Working, UnetIInv
    <3>2. {given[id], Passed(id), Behind(id)} \subseteq Nat /\ Behind(id) <= given[id]
      BY <1>2, <3>1, Numbers DEF Flow
    <3>3. given[id] - Behind(id) \in Nat /\ Passed(id) + 0 = Passed(id)
      BY <3>2
    <3>. QED
      BY <1>1, <3>1, <3>2, <3>3 DEF Flow
  <2>2. Passed(id)' = p
    BY <1>1, <2>1 DEF Passed
  <2>3. /\ msg'[1] # id => Queued(queue', id, p, top)
        /\ msg'[1] = id /\ msg'[2] # None => msg'[2] = p + 1 /\ Queued(queue', id, p + 1, top)
        /\ msg'[1] = id /\ msg'[2] = None => /\ Queued(queue', id, p, top)
                                             /\ \A i \in 1 .. Len(queue') : queue'[i][1] # id
    <3>0. queue # <<>> /\ queue \in Seq(Idents \X Nat) /\ p \in Nat /\ top \in Nat /\ Queued(queue, id, p, top)
      BY <1>1, <1>2, <2>1
    <3>1. /\ Head(queue)[1] # id => Queued(Tail(queue), id, p, top)
          /\ Head(queue)[1] = id /\ Head(queue)[2] # None =>
               Head(queue)[2] = p + 1 /\ Queued(Tail(queue), id, p + 1, top)
          /\ Head(queue)[1] = id /\ Head(queue)[2] = None =>
               /\ Queued(Tail(queue), id, p, top)
               /\ \A i \in 1 .. Len(Tail(queue)) : Tail(queue)[i][1] # id
      BY <3>0, GetQueued, Zenon
    <3>2. Head(queue) = msg' /\ Tail(queue) = queue'
      BY <1>1
    <3>. QED
      BY <3>1, <3>2, Zenon
  <2>4. Queued(queue', id, p + InHand(id)', top)
    <3>1. CASE msg'[1] = id /\ msg'[2] # None
      BY <1>1, <2>3, <3>1 DEF InHand, Working
    <3>2. CASE ~(msg'[1] = id /\ msg'[2] # None)
      <4>1. InHand(id)' = 0 /\ p + 0 = p
        BY <1>1, <2>1, <3>2 DEF InHand, Working
      <4>. QED
        BY <2>3, <3>2, <4>1
    <3>. QED
      BY <3>1, <3>2
  <2>5. EndInHand(id)' => EndInQueue(id) /\ ~InQueue(id)'
    <3> SUFFICES ASSUME EndInHand(id)' PROVE EndInQueue(id) /\ ~InQueue(id)'
      OBVIOUS
    <3>1. msg'[1] = id /\ msg'[2] = None /\ msg' = <<id, None>>
      BY DEF EndInHand
    <3>. QED
      BY <1>4, <2>3, <3>1 DEF InQueue
  <2>6. Working(id)' /\ msg'[2] # None => msg'[2] = p + 1
    BY <2>3 DEF Working
  <2>. QED
    BY <1>1, <1>4, <2>1, <2>2, <2>4, <2>5, <2>6, HandlerMoves
<1>. QED
  BY <1>5, <1>6, <1>7 DEF UnetIInv

\* An end: the client's counts once, the command's for both.
LEMMA HandleEndKeeps == ASSUME UnetIInv, HandleEnd PROVE UnetIInv'
<1>1. PICK e \in Idents : msg[1] = e /\ EndInHand(e)
  <2>1. msg[1] \in Idents /\ msg = <<msg[1], msg[2]>>
    BY DEF UnetIInv, UnetTypeOK
  <2>. QED
    BY <2>1 DEF HandleEnd, EndInHand
<1>2. /\ handler = "work" /\ msg[2] = None /\ stdin' = FALSE /\ running' = running - Weight(e)
      /\ handler' = IF running' > 0 THEN "get" ELSE "wait"
      /\ UNCHANGED <<queue, reader, item, msg, wire, last, reset, command, pipe, given, taken>>
  BY <1>1 DEF HandleEnd
<1>3. e \in last /\ wire[e] = <<>> /\ reader[e] = "ended" /\ ~InQueue(e)
  BY <1>1 DEF UnetIInv, EndLast
<1>4. running \in {1, 2} /\ (e = "CLIENT" => running = 2)
  BY <1>1, <1>2 DEF UnetIInv, Loop, Working
<1>5. IF e = "CLIENT" THEN running' = 1 /\ handler' = "get" ELSE handler' = "wait"
  BY <1>2, <1>4 DEF Weight, Idents
<1>6. \A id \in Idents : InHand(id) = 0 /\ InHand(id)' = 0 /\ Passed(id)' = Passed(id) /\ Flow(id)
  BY <1>2, <1>5 DEF InHand, Working, Passed, UnetIInv
<1>7. ASSUME e = "SERVER" PROVE Len(taken["CLIENT"]) = given["SERVER"]
  <2>1. Queued(queue, e, Passed(e) + 0, given[e] - Behind(e))
    BY <1>2, <1>6 DEF Flow
  <2>2. Behind(e) = 0 /\ Passed(e) = Len(taken["CLIENT"])
    BY <1>3, <1>7 DEF Behind, Passed
  <2>3. UnetTypeOK
    BY DEF UnetIInv
  <2>4. PICK p \in Nat, g \in Nat : p = Passed(e) /\ g = given[e] /\ Queued(queue, e, p, g)
    <3>1. Passed(e) \in Nat /\ given[e] \in Nat
      BY <2>3, Numbers
    <3>2. Passed(e) + 0 = Passed(e) /\ given[e] - 0 = given[e]
      BY <3>1
    <3>. QED
      BY <2>1, <2>2, <3>1, <3>2
  <2>5. p + 1 \notin p + 1 .. g
    <3>1. \A i \in 1 .. Len(queue) : queue[i] # <<e, p + 1>>
      BY <1>3 DEF InQueue
    <3>. QED
      BY <2>4, <3>1 DEF Queued
  <2>6. p = g
    BY <2>4, <2>5 DEF Queued
  <2>. QED
    BY <1>7, <2>2, <2>4, <2>6
<1>8. UnetTypeOK'
  BY <1>2 DEF UnetIInv, UnetTypeOK
<1>9. PassedInOrder' /\ Loop'
  <2>1. PassedInOrder'
    BY <1>2 DEF UnetIInv, PassedInOrder
  <2>2. CASE e = "CLIENT"
    BY <1>2, <1>3, <1>5, <2>1, <2>2 DEF Loop, InQueue, Working
  <2>3. CASE e = "SERVER"
    BY <1>2, <1>3, <1>5, <1>7, <2>1, <2>3 DEF Loop
  <2>. QED
    BY <2>1, <2>2, <2>3 DEF Idents
<1>10. ASSUME NEW id \in Idents PROVE Flow(id)' /\ EndLast(id)'
  <2>1. Passed(id)' + InHand(id)' = Passed(id) + InHand(id)
    BY <1>6
  <2>2. Passed(id)' <= given[id] /\ Queued(queue', id, Passed(id)' + InHand(id)', given[id] - Behind(id))
    BY <1>2, <1>6, <2>1 DEF Flow
  <2>3. ~Working(id)' /\ ~EndInHand(id)' /\ EndInQueue(id)' = EndInQueue(id)
    BY <1>2, <1>5 DEF Working, EndInHand, EndInQueue
  <2>. QED
    BY <1>2, <2>2, <2>3, HandlerMoves
<1>. QED
  BY <1>8, <1>9, <1>10 DEF UnetIInv

\* The unit in hand is passed on: it is the next of its source.
LEMMA PassOnKeeps ==
  ASSUME UnetIInv, NEW by \in Idents, Working(by), msg[2] # None, handler' = "get", UnetTypeOK', PassedInOrder',
         Passed(by)' = Passed(by) + 1, \A id \in Idents \ {by} : Passed(id)' = Passed(id),
         Len(taken["CLIENT"])' \in Nat,
         UNCHANGED <<queue, reader, item, msg, running, stdin, wire, last, reset, command, given>>
  PROVE  UnetIInv'
<1>1. handler = "work" /\ msg[1] = by
  BY DEF Working
<1>2. Loop'
  BY <1>1 DEF UnetIInv, Loop, InQueue, Working
<1>3. ASSUME NEW id \in Idents PROVE Flow(id)' /\ EndLast(id)'
  <2>1. Flow(id) /\ {Passed(id), given[id], Behind(id)} \subseteq Nat
    BY Numbers DEF UnetIInv
  <2>2. InHand(id)' = 0 /\ InHand(id) = IF id = by THEN 1 ELSE 0
    BY <1>1 DEF InHand, Working
  <2>3. Passed(id)' + InHand(id)' = Passed(id) + InHand(id)
    BY <2>1, <2>2
  <2>4. Queued(queue', id, Passed(id)' + InHand(id)', given[id] - Behind(id))
    BY <1>1, <2>1, <2>3 DEF Flow
  <2>5. Passed(id)' + 0 <= given[id] - Behind(id)
    BY <2>2, <2>4 DEF Queued
  <2>6. Passed(id)' \in Nat /\ Passed(id)' <= given[id]
    BY <2>1, <2>5
  <2>7. ~Working(id)' /\ ~EndInHand(id)' /\ EndInQueue(id)' = EndInQueue(id)
    BY DEF Working, EndInHand, EndInQueue
  <2>. QED
    BY <2>4, <2>6, <2>7, HandlerMoves
<1>. QED
  BY <1>2, <1>3 DEF UnetIInv

LEMMA RunShrinks ==
  ASSUME NEW units \in Seq(Nat), NEW n \in Nat, Run(units, n), units # <<>>
  PROVE  Tail(units) \in Seq(Nat) /\ Len(Tail(units)) = Len(units) - 1 /\ Len(units) \in Nat \ {0}
         /\ Head(units) = n + 1 /\ Run(Tail(units), n + 1)
<1> DEFINE r == Tail(units)
<1>1. /\ r \in Seq(Nat) /\ Len(r) = Len(units) - 1 /\ Len(units) \in Nat \ {0}
      /\ (\A i \in 1 .. Len(units) - 1 : r[i] = units[i + 1]) /\ Head(units) = units[1]
  BY Taken
<1> HIDE DEF r
<1>2. Head(units) = n + 1
  BY <1>1 DEF Run
<1>3. ASSUME NEW i \in 1 .. Len(r) PROVE r[i] = n + 1 + i
  <2>1. i \in Nat /\ i + 1 \in 1 .. Len(units) /\ r[i] = units[i + 1]
    BY <1>1
  <2>2. units[i + 1] = n + (i + 1)
    BY <2>1 DEF Run
  <2>. QED
    BY <2>1, <2>2
<1>. QED
  BY <1>1, <1>2, <1>3 DEF Run, r

LEMMA WriteStdinKeeps == ASSUME UnetIInv, WriteStdin PROVE UnetIInv'
<1>1. /\ Working("CLIENT") /\ msg[2] # None /\ handler' = "get" /\ pipe' = Append(pipe, msg[2])
      /\ UNCHANGED <<queue, reader, item, msg, running, stdin, wire, last, reset, command, given, taken>>
  BY DEF WriteStdin
<1>2. /\ pipe \in Seq(Nat) /\ taken["SERVER"] \in Seq(Nat) /\ taken["CLIENT"] \in Seq(Nat) /\ msg[2] \in Nat
      /\ Run(pipe, Len(taken["SERVER"])) /\ UnetTypeOK /\ "CLIENT" \in Idents
  BY DEF UnetIInv, UnetTypeOK, PassedInOrder, Idents
<1>3. PICK t \in Nat : t = Len(taken["SERVER"])
  BY <1>2
<1>4. msg[2] = t + Len(pipe) + 1
  BY <1>1, <1>2, <1>3 DEF UnetIInv, Flow, Passed
<1>5. pipe' \in Seq(Nat) /\ Len(pipe') = Len(pipe) + 1 /\ Run(pipe', t)
  BY <1>1, <1>2, <1>3, <1>4, RunGrows
<1>6. UnetTypeOK' /\ PassedInOrder'
  BY <1>1, <1>2, <1>3, <1>5 DEF UnetIInv, UnetTypeOK, PassedInOrder
<1>7. Passed("CLIENT")' = Passed("CLIENT") + 1 /\ \A id \in Idents \ {"CLIENT"} : Passed(id)' = Passed(id)
  <2>1. PICK m \in Nat : m = Len(pipe) /\ Len(pipe') = m + 1
    BY <1>2, <1>5
  <2>2. Passed("CLIENT") = t + m /\ Passed("CLIENT")' = t + (m + 1)
    BY <1>1, <1>3, <2>1 DEF Passed
  <2>3. \A id \in Idents \ {"CLIENT"} : Passed(id)' = Passed(id)
    BY <1>1 DEF Passed
  <2>. QED
    BY <2>2, <2>3
<1>8. Len(taken["CLIENT"])' \in Nat
  BY <1>1, <1>2
<1>. QED
  BY <1>1, <1>2, <1>6, <1>7, <1>8, PassOnKeeps

LEMMA SendClientKeeps == ASSUME UnetIInv, SendClient PROVE UnetIInv'
<1>1. /\ Working("SERVER") /\ msg[2] # None /\ handler' = "get"
      /\ taken' = [taken EXCEPT !["CLIENT"] = Append(@, msg[2])]
      /\ UNCHANGED <<queue, reader, item, msg, running, stdin, wire, last, reset, command, pipe, given>>
  BY DEF SendClient
<1>2. /\ taken["CLIENT"] \in Seq(Nat) /\ msg[2] \in Nat /\ taken \in [Idents -> Seq(Nat)]
      /\ Run(taken["CLIENT"], 0) /\ UnetTypeOK /\ {"CLIENT", "SERVER"} = Idents
  BY DEF UnetIInv, UnetTypeOK, PassedInOrder, Idents
<1>3. taken'["CLIENT"] = Append(taken["CLIENT"], msg[2]) /\ taken'["SERVER"] = taken["SERVER"]
  BY <1>1, <1>2
<1>4. msg[2] = 0 + Len(taken["CLIENT"]) + 1
  <2>1. msg[2] = Len(taken["CLIENT"]) + 1
    BY <1>1, <1>2 DEF UnetIInv, Flow, Passed
  <2>. QED
    BY <1>2, <2>1
<1>5. /\ taken'["CLIENT"] \in Seq(Nat) /\ Len(taken'["CLIENT"]) = Len(taken["CLIENT"]) + 1
      /\ Run(taken'["CLIENT"], 0)
  BY <1>2, <1>3, <1>4, RunGrows
<1>6. UnetTypeOK'
  BY <1>1, <1>2, <1>3, <1>5 DEF UnetTypeOK
<1>7. PassedInOrder'
  BY <1>1, <1>3, <1>5 DEF UnetIInv, PassedInOrder
<1>8. Passed("SERVER")' = Passed("SERVER") + 1 /\ \A id \in Idents \ {"SERVER"} : Passed(id)' = Passed(id)
  BY <1>1, <1>2, <1>3, <1>5 DEF Passed
<1>9. Len(taken["CLIENT"])' \in Nat
  BY <1>2, <1>5
<1>. QED
  BY <1>1, <1>2, <1>6, <1>7, <1>8, <1>9, PassOnKeeps

LEMMA CommandReadsKeeps == ASSUME UnetIInv, CommandReads PROVE UnetIInv'
<1>1. /\ pipe # <<>> /\ taken' = [taken EXCEPT !["SERVER"] = Append(@, Head(pipe))] /\ pipe' = Tail(pipe)
      /\ UNCHANGED <<queue, reader, item, handler, msg, running, stdin, wire, last, reset, command, given>>
  BY DEF CommandReads
<1>2. /\ pipe \in Seq(Nat) /\ taken["SERVER"] \in Seq(Nat) /\ taken \in [Idents -> Seq(Nat)]
      /\ Run(taken["SERVER"], 0) /\ Run(pipe, Len(taken["SERVER"])) /\ UnetTypeOK /\ {"CLIENT", "SERVER"} = Idents
  BY DEF UnetIInv, UnetTypeOK, PassedInOrder, Idents
<1>3. PICK t \in Nat : t = Len(taken["SERVER"])
  BY <1>2
<1>4. /\ pipe' \in Seq(Nat) /\ Len(pipe') = Len(pipe) - 1 /\ Len(pipe) \in Nat \ {0}
      /\ Head(pipe) = t + 1 /\ Run(pipe', t + 1)
  BY <1>1, <1>2, <1>3, RunShrinks
<1>5. taken'["SERVER"] = Append(taken["SERVER"], t + 1) /\ taken'["CLIENT"] = taken["CLIENT"]
  BY <1>1, <1>2, <1>4
<1>6. taken'["SERVER"] \in Seq(Nat) /\ Len(taken'["SERVER"]) = t + 1 /\ Run(taken'["SERVER"], 0)
  <2>1. t + 1 = 0 + Len(taken["SERVER"]) + 1
    BY <1>3
  <2>. QED
    BY <1>2, <1>3, <1>5, <2>1, RunGrows
<1>7. UnetTypeOK' /\ PassedInOrder'
  BY <1>1, <1>2, <1>4, <1>5, <1>6 DEF UnetIInv, UnetTypeOK, PassedInOrder
<1>8. \A id \in Idents : Passed(id)' = Passed(id)
  BY <1>3, <1>4, <1>5, <1>6 DEF Passed
<1>9. Loop'
  BY <1>1, <1>5 DEF UnetIInv, Loop, InQueue, Working
<1>10. ASSUME NEW id \in Idents PROVE Flow(id)' /\ EndLast(id)'
  <2>1. Flow(id) /\ EndLast(id) /\ InHand(id)' = InHand(id) /\ Behind(id)' = Behind(id)
    BY <1>1 DEF InHand, Behind, Working, UnetIInv
  <2>2. Flow(id)'
    BY <1>1, <1>8, <2>1 DEF Flow, Working
  <2>3. EndLast(id)'
    BY <1>1, <2>1 DEF EndLast, EndInQueue, InQueue, EndInHand
  <2>. QED
    BY <2>2, <2>3
<1>. QED
  BY <1>7, <1>9, <1>10 DEF UnetIInv

LEMMA GiveKeeps == ASSUME UnetIInv, NEW by \in Idents, Give(by) PROVE UnetIInv'
<1>1. /\ by \notin last /\ given' = [given EXCEPT ![by] = @ + 1]
      /\ wire' = [wire EXCEPT ![by] = Append(@, given[by] + 1)]
      /\ UNCHANGED <<queue, reader, item, handler, msg, running, stdin, last, reset, command, pipe, taken>>
  BY DEF Give
<1>2. UnetTypeOK /\ wire[by] \in Seq(Nat) /\ Flow(by) /\ EndLast(by)
  BY DEF UnetIInv, UnetTypeOK
<1>3. PICK g \in Nat, w \in Nat : g = given[by] /\ w = Len(wire[by])
  BY <1>2, Numbers
<1>4. /\ given'[by] = g + 1 /\ wire'[by] = Append(wire[by], g + 1)
      /\ \A id \in Idents \ {by} : given'[id] = given[id] /\ wire'[id] = wire[id]
  BY <1>1, <1>2, <1>3 DEF UnetTypeOK
<1>5. wire'[by] \in Seq(Nat) /\ Len(wire'[by]) = w + 1 /\ Run(wire'[by], g - w)
  <2>1. g + 1 = g - w + Len(wire[by]) + 1 /\ g - w \in Int /\ g + 1 \in Nat
    BY <1>3
  <2>. QED
    BY <1>2, <1>3, <1>4, <2>1, RunGrows DEF Flow
<1>6. UnetTypeOK'
  <2>1. given' \in [Idents -> Nat] /\ wire' \in [Idents -> Seq(Nat)]
    <3>1. given' = [given EXCEPT ![by] = g + 1] /\ wire' = [wire EXCEPT ![by] = Append(wire[by], g + 1)]
      BY <1>1, <1>3
    <3>2. g + 1 \in Nat /\ Append(wire[by], g + 1) \in Seq(Nat)
      BY <1>4, <1>5
    <3>3. given \in [Idents -> Nat] /\ wire \in [Idents -> Seq(Nat)]
      BY <1>2 DEF UnetTypeOK
    <3>. QED
      BY <3>1, <3>2, <3>3
  <2>. QED
    BY <1>1, <1>2, <2>1 DEF UnetTypeOK
<1>7. PassedInOrder' /\ Loop'
  <2>1. PassedInOrder'
    BY <1>1 DEF UnetIInv, PassedInOrder
  <2>2. handler = "wait" => given'["SERVER"] = given["SERVER"]
    BY <1>1, <1>4 DEF UnetIInv, Loop, Idents
  <2>. QED
    BY <1>1, <2>1, <2>2 DEF UnetIInv, Loop, InQueue, Working
<1>8. Flow(by)' /\ EndLast(by)'
  <2>1. PICK b \in Nat : b = Behind(by) /\ b <= g
    BY <1>2, <1>3, Numbers DEF Flow
  <2>2. Behind(by)' = b + 1 /\ Passed(by)' = Passed(by) /\ InHand(by)' = InHand(by)
    BY <1>1, <1>3, <1>5, <2>1 DEF Behind, Passed, InHand, Working
  <2>3. Passed(by) \in Nat /\ Passed(by) <= g + 1
    BY <1>2, <1>3, Numbers DEF Flow
  <2>4. given'[by] - Behind(by)' = given[by] - Behind(by) /\ given'[by] - Len(wire'[by]) = given[by] - Len(wire[by])
    <3>1. g + 1 - (b + 1) = g - b /\ g + 1 - (w + 1) = g - w
      OBVIOUS
    <3>2. given'[by] - Behind(by)' = g - b
      BY <1>4, <2>2, <3>1
    <3>3. given'[by] - Len(wire'[by]) = g - w
      <4>1. Len(wire'[by]) = w + 1 /\ given'[by] = g + 1
        BY <1>4, <1>5, Zenon
      <4>. QED
        BY <4>1
    <3>. QED
      BY <1>3, <2>1, <3>2, <3>3
  <2>5. handler' # "done" => Queued(queue', by, Passed(by)' + InHand(by)', given'[by] - Behind(by)')
    BY <1>1, <1>2, <2>2, <2>4 DEF Flow
  <2>6. Run(wire'[by], given'[by] - Len(wire'[by]))
    BY <1>3, <1>5, <2>4
  <2>7. reader'[by] = "put" /\ item'[by] # None => item'[by] = given'[by] - Len(wire'[by])
    BY <1>1, <1>2, <2>4 DEF Flow
  <2>8. Working(by)' /\ msg'[2] # None => msg'[2] = Passed(by)' + 1
    BY <1>1, <1>2, <2>2 DEF Flow, Working
  <2>9. Behind(by)' <= given'[by]
    BY <1>4, <2>1, <2>2
  <2>10. Flow(by)'
    BY <1>4, <2>2, <2>3, <2>5, <2>6, <2>7, <2>8, <2>9 DEF Flow
  <2>11. EndLast(by)'
    BY <1>1, <1>2 DEF EndLast, EndInQueue, InQueue, EndInHand
  <2>. QED
    BY <2>10, <2>11
<1>9. \A id \in Idents \ {by} : Flow(id)' /\ EndLast(id)'
  BY <1>1, <1>4, SourceStays
<1>. QED
  BY <1>6, <1>7, <1>8, <1>9 DEF UnetIInv

\* A source will give no more.
LEMMA LastKeeps ==
  ASSUME UnetIInv, (\E id \in Idents : Stop(id)) \/ Reset \/ CommandExits
  PROVE  UnetIInv'
<1>1. /\ last' \in SUBSET Idents /\ last \subseteq last'
      /\ UNCHANGED <<queue, reader, item, handler, msg, running, stdin, wire, pipe, given, taken>>
  BY DEF Stop, Reset, CommandExits, UnetIInv, UnetTypeOK, Idents
<1>2. UnetTypeOK' /\ PassedInOrder' /\ Loop'
  BY <1>1 DEF UnetIInv, UnetTypeOK, PassedInOrder, Loop, InQueue, Working
<1>3. \A id \in Idents : Flow(id)' /\ EndLast(id)'
  BY <1>1, SourceStays
<1>. QED
  BY <1>2, <1>3 DEF UnetIInv

LEMMA ClientReadsKeeps ==
  ASSUME UnetIInv, ClientReads
  PROVE  UnetIInv'
<1>1. UNCHANGED <<queue, reader, item, handler, msg, running, stdin, wire, last, reset, command, pipe, given, taken>>
  BY DEF ClientReads
<1>2. UnetTypeOK' /\ PassedInOrder' /\ Loop'
  BY <1>1 DEF UnetIInv, UnetTypeOK, PassedInOrder, Loop, InQueue, Working
<1>3. \A id \in Idents : Flow(id)' /\ EndLast(id)'
  BY <1>1, SourceStays
<1>. QED
  BY <1>2, <1>3 DEF UnetIInv

LEMMA UnetStepOK == UnetIInv /\ [UnetNext]_unetVars => UnetIInv'
<1> SUFFICES ASSUME UnetIInv, [UnetNext]_unetVars PROVE UnetIInv'
  OBVIOUS
<1>1. CASE Handler
  BY <1>1, StartKeeps, DoneKeeps, GetKeeps, HandleEndKeeps, WriteStdinKeeps, SendClientKeeps DEF Handler
<1>2. CASE Outside
  BY <1>2, ClientReadsKeeps, CommandReadsKeeps, GiveKeeps, LastKeeps DEF Outside
<1>3. ASSUME NEW id \in Idents, Reader(id) PROVE UnetIInv'
  BY <1>3, ReadUnitKeeps, SourceEndsKeeps, PutKeeps DEF Reader
<1>4. CASE UNCHANGED unetVars
  <2>1. UnetTypeOK' /\ PassedInOrder' /\ Loop'
    BY <1>4 DEF unetVars, UnetIInv, UnetTypeOK, PassedInOrder, Loop, InQueue, Working
  <2>2. \A id \in Idents : Flow(id)' /\ EndLast(id)'
    BY <1>4, SourceStays DEF unetVars
  <2>. QED
    BY <2>1, <2>2 DEF UnetIInv
<1>. QED
  BY <1>1, <1>2, <1>3, <1>4 DEF UnetNext

-----------------------------------------------------------------------------
(* What is passed on *)

LEMMA RunIsPrefix ==
  ASSUME NEW units \in Seq(Nat), NEW n \in Nat, Len(units) <= n, Run(units, 0)
  PROVE  IsPrefix(units, [k \in 1 .. n |-> k])
<1> DEFINE all == [k \in 1 .. n |-> k]
<1>1. all \in Seq(Nat) /\ Len(all) = n
  OBVIOUS
<1>2. \A i \in 1 .. Len(units) : units[i] = all[i]
  BY DEF Run
<1>3. SubSeq(units, 1, Len(units)) = [i \in 1 .. Len(units) |-> units[i]]
  OBVIOUS
<1>4. SubSeq(all, 1, Len(units)) = [i \in 1 .. Len(units) |-> all[i]]
  BY <1>1
<1> HIDE DEF all
<1>5. SubSeq(units, 1, Len(units)) = SubSeq(all, 1, Len(units))
  BY <1>2, <1>3, <1>4
<1>. QED
  BY <1>1, <1>5 DEF IsPrefix, all

\* What the handler passes on is what was sent, in order; nothing that the
\* command printed is missing when the handler waits for it; and the client's
\* data never meets a closed file (main.py:65-97).
THEOREM HandlerPassesOn == UnetSpec => []UnetOrderly
<1>1. UnetIInv => UnetOrderly
  <2> SUFFICES ASSUME UnetIInv PROVE UnetOrderly
    OBVIOUS
  <2>1. NoLateWrite
    BY DEF UnetIInv, Loop, NoLateWrite, Working
  <2>2. /\ taken["SERVER"] \in Seq(Nat) /\ taken["CLIENT"] \in Seq(Nat) /\ pipe \in Seq(Nat)
        /\ given["CLIENT"] \in Nat /\ given["SERVER"] \in Nat /\ {"CLIENT", "SERVER"} = Idents
    BY DEF UnetIInv, UnetTypeOK, Idents
  <2>3. Passed("CLIENT") <= given["CLIENT"] /\ Passed("SERVER") <= given["SERVER"]
    BY <2>2 DEF UnetIInv, Flow
  <2>4. IsPrefix(taken["CLIENT"], [k \in 1 .. given["SERVER"] |-> k])
    BY <2>2, <2>3, RunIsPrefix DEF Passed, UnetIInv, PassedInOrder
  <2>5. IsPrefix(taken["SERVER"] \o pipe, [k \in 1 .. given["CLIENT"] |-> k])
    <3> DEFINE t == taken["SERVER"]
               r == t \o pipe
    <3>1. r \in Seq(Nat) /\ Len(r) = Len(t) + Len(pipe) /\ Len(t) \in Nat /\ Len(pipe) \in Nat
      BY <2>2
    <3>2. ASSUME NEW i \in 1 .. Len(r) PROVE r[i] = 0 + i
      <4>1. CASE i <= Len(t)
        BY <2>2, <3>1, <4>1 DEF UnetIInv, PassedInOrder, Run
      <4>2. CASE i > Len(t)
        <5>1. r[i] = pipe[i - Len(t)] /\ i - Len(t) \in 1 .. Len(pipe)
          BY <2>2, <3>1, <4>2
        <5>2. pipe[i - Len(t)] = Len(t) + (i - Len(t))
          BY <5>1 DEF UnetIInv, PassedInOrder, Run
        <5>. QED
          BY <3>1, <5>1, <5>2
      <4>. QED
        BY <3>1, <4>1, <4>2
    <3>3. Run(r, 0)
      BY <3>2 DEF Run
    <3>. QED
      BY <2>2, <2>3, <3>1, <3>3, RunIsPrefix DEF Passed
  <2>6. handler = "wait" => Len(taken["CLIENT"]) = given["SERVER"]
    BY DEF UnetIInv, Loop
  <2>. QED
    BY <2>1, <2>4, <2>5, <2>6 DEF UnetOrderly, PassedOn
<1>. QED
  BY <1>1, UnetInitOK, UnetStepOK, PTL DEF UnetSpec

-----------------------------------------------------------------------------
(* The bridge: c/unix-tcp-bridge.c *)

BridgeTypeOK ==
  /\ bpc \in [Pumps -> {"unborn", "connect", "fork", "read", "write", "exit", "done"}]
  /\ put \in [Pumps -> Nat] /\ now \in [Pumps -> Nat] /\ sent \in [Pumps -> Nat]
  /\ bbuf \in [Pumps -> Seq(Nat)] /\ in \in [Pumps -> Seq(Nat)]
  /\ out \in [Pumps -> Seq(Nat)] /\ got \in [Pumps -> Seq(Nat)]
  /\ shut \in [Pumps -> BOOLEAN] /\ eof \in [Pumps -> BOOLEAN]
  /\ chld \in BOOLEAN /\ over \in SUBSET Pumps

\* How many units of a direction were read, and how many of them are no longer
\* in its buffer.
Got(d) == sent[d] - Len(in[d])
Base(d) == Got(d) - Len(bbuf[d])

\* The units that wait, and those in the buffer, are consecutive.
Sourced(d) ==
  /\ Run(in[d], Got(d)) /\ Run(bbuf[d], Base(d)) /\ Base(d) >= 0 /\ Len(bbuf[d]) <= Buf
  /\ now[d] <= Len(bbuf[d]) /\ (bpc[d] \notin {"write", "done"} => now[d] = 0)

\* Where a pump is when the unit it has written last is number `at`.
Placed(d, at) ==
  /\ at <= Got(d)
  /\ bpc[d] = "write" => at = Base(d) + now[d]
  /\ bpc[d] \notin {"write", "done"} \/ eof[d] => at = Got(d)

\* The first j units came in order, and those behind them continue from i.
Copied(d, j, i) ==
  /\ j <= Len(Delivered(d)) /\ j <= Got(d) /\ i \in 1 .. j + 1
  /\ \A k \in 1 .. Len(Delivered(d)) : Delivered(d)[k] = IF k <= j THEN k ELSE k - j + i - 1
  /\ Placed(d, Len(Delivered(d)) - j + i - 1)

\* One write of the parent can be cut short, once its child has ended.
Replayed ==
  /\ bpc["up"] = "done" /\ ~chld
  /\ \E j, i \in Nat : j > 0 /\ i <= j /\ j - i < Buf - 1 /\ Copied("down", j, i)
FirstTime == bpc["down"] = "write" => put["down"] = 0
Copies == Copied("up", 0, 1) /\ (Replayed \/ (Copied("down", 0, 1) /\ FirstTime))

\* An end that was shut down stays so, and its pump has ended.
Ended(d) ==
  /\ d \in over => eof[d]
  /\ eof[d] => shut[d] /\ in[d] = <<>> /\ bpc[d] \in {"exit", "done"}

Phases ==
  /\ bpc["up"] = "unborn" <=> bpc["down"] \in {"connect", "fork"}
  /\ bpc["up"] \notin {"connect", "fork"} /\ bpc["down"] # "unborn"
  /\ chld => bpc["up"] = "done"

BridgeIInv ==
  BridgeTypeOK /\ Copies /\ Phases /\ \A d \in Pumps : Sourced(d) /\ Ended(d)

LEMMA Counts ==
  ASSUME BridgeTypeOK, NEW d \in Pumps
  PROVE  /\ in[d] \in Seq(Nat) /\ bbuf[d] \in Seq(Nat) /\ out[d] \in Seq(Nat) /\ got[d] \in Seq(Nat)
         /\ Len(in[d]) \in Nat /\ Len(bbuf[d]) \in Nat /\ sent[d] \in Nat /\ now[d] \in Nat /\ put[d] \in Nat
         /\ Got(d) \in Int /\ Base(d) \in Int /\ Got(d) = Base(d) + Len(bbuf[d])
<1>1. /\ in[d] \in Seq(Nat) /\ bbuf[d] \in Seq(Nat) /\ out[d] \in Seq(Nat) /\ got[d] \in Seq(Nat)
      /\ sent[d] \in Nat /\ now[d] \in Nat /\ put[d] \in Nat
  BY DEF BridgeTypeOK
<1>2. Len(in[d]) \in Nat /\ Len(bbuf[d]) \in Nat
  BY <1>1
<1>3. Got(d) \in Int /\ Base(d) \in Int /\ Got(d) = Base(d) + Len(bbuf[d])
  BY <1>1, <1>2 DEF Got, Base
<1>. QED
  BY <1>1, <1>2, <1>3

LEMMA InOrder ==
  ASSUME BridgeTypeOK, NEW d \in Pumps
  PROVE  /\ Delivered(d) \in Seq(Nat) /\ Len(Delivered(d)) = Len(got[d]) + Len(out[d]) /\ Len(Delivered(d)) \in Nat
         /\ \A k \in 1 .. Len(got[d]) : Delivered(d)[k] = got[d][k]
         /\ \A k \in 1 .. Len(out[d]) : Delivered(d)[Len(got[d]) + k] = out[d][k]
<1>1. got[d] \in Seq(Nat) /\ out[d] \in Seq(Nat)
  BY DEF BridgeTypeOK
<1>. QED
  BY <1>1, Joined DEF Delivered

LEMMA BridgeInitOK == BridgeAssumption /\ BridgeInit => BridgeIInv
<1> SUFFICES ASSUME BridgeAssumption, BridgeInit PROVE BridgeIInv
  OBVIOUS
<1>1. BridgeTypeOK /\ Phases
  <2>1. bpc \in [Pumps -> {"unborn", "connect", "fork", "read", "write", "exit", "done"}]
    BY DEF BridgeInit
  <2>2. bpc["up"] = "unborn" /\ bpc["down"] = "connect"
    BY DEF BridgeInit, Pumps
  <2>3. BridgeTypeOK
    <3>1. <<>> \in Seq(Nat) /\ 0 \in Nat
      OBVIOUS
    <3>2. /\ bbuf \in [Pumps -> Seq(Nat)] /\ in \in [Pumps -> Seq(Nat)]
          /\ out \in [Pumps -> Seq(Nat)] /\ got \in [Pumps -> Seq(Nat)]
      BY <3>1 DEF BridgeInit
    <3>3. put \in [Pumps -> Nat] /\ now \in [Pumps -> Nat] /\ sent \in [Pumps -> Nat]
      BY DEF BridgeInit
    <3>4. shut \in [Pumps -> BOOLEAN] /\ eof \in [Pumps -> BOOLEAN] /\ chld \in BOOLEAN /\ over \in SUBSET Pumps
      BY DEF BridgeInit
    <3>. QED
      BY <2>1, <3>2, <3>3, <3>4 DEF BridgeTypeOK
  <2>4. Phases
    BY <2>2 DEF BridgeInit, Phases
  <2>. QED
    BY <2>3, <2>4
<1>2. ASSUME NEW d \in Pumps PROVE Sourced(d) /\ Ended(d) /\ Copied(d, 0, 1)
  <2>1. /\ in[d] = <<>> /\ bbuf[d] = <<>> /\ got[d] = <<>> /\ out[d] = <<>> /\ sent[d] = 0 /\ now[d] = 0
        /\ ~eof[d] /\ over = {} /\ bpc[d] \notin {"write", "done"} /\ Len(<<>>) = 0
    BY DEF BridgeInit, Pumps
  <2>2. Delivered(d) = <<>> /\ Got(d) = 0 /\ Base(d) = 0
    <3>1. <<>> \o <<>> = <<>>
      OBVIOUS
    <3>2. Delivered(d) = <<>>
      BY <2>1, <3>1 DEF Delivered
    <3>3. Got(d) = 0 - 0 /\ Base(d) = Got(d) - 0
      BY <2>1, Zenon DEF Got, Base
    <3>. QED
      BY <3>2, <3>3
  <2>3. Sourced(d) /\ Ended(d)
    BY <2>1, <2>2 DEF Sourced, Ended, Run, BridgeAssumption
  <2>4. Copied(d, 0, 1)
    BY <2>1, <2>2 DEF Copied, Placed
  <2>. QED
    BY <2>3, <2>4
<1>3. Copies
  BY <1>2 DEF Copies, FirstTime, BridgeInit, Pumps
<1>. QED
  BY <1>1, <1>2, <1>3 DEF BridgeIInv

\* What was delivered is still in place when the pump is.
LEMMA CopiedStays ==
  ASSUME BridgeTypeOK, NEW d \in Pumps, NEW j \in Nat, NEW i \in Nat, Copied(d, j, i),
         got'[d] = got[d], out'[d] = out[d], Got(d) <= Got(d)', Got(d)' \in Int,
         \A at \in Int : Placed(d, at) => Placed(d, at)'
  PROVE  Copied(d, j, i)'
<1>1. Delivered(d)' = Delivered(d)
  BY DEF Delivered
<1>2. Len(Delivered(d)) \in Nat /\ Got(d) \in Int
  BY Counts, InOrder
<1>3. Len(Delivered(d)) - j + i - 1 \in Int
  BY <1>2
<1>. QED
  BY <1>1, <1>2, <1>3 DEF Copied

LEMMA CopiesStay ==
  ASSUME Copies, \A d \in Pumps : \A j, i \in Nat : Copied(d, j, i) => Copied(d, j, i)',
         FirstTime => FirstTime', bpc["up"] = "done" /\ ~chld => bpc'["up"] = "done" /\ ~chld'
  PROVE  Copies'
<1>1. Copied("up", 0, 1)' /\ (Copied("down", 0, 1) => Copied("down", 0, 1)')
  BY DEF Copies, Pumps
<1>2. Replayed => Replayed'
  BY DEF Replayed, Pumps
<1>. QED
  BY <1>1, <1>2 DEF Copies

\* A direction that a step does not touch.
Untouched(d) ==
  /\ bpc'[d] = bpc[d] /\ bbuf'[d] = bbuf[d] /\ now'[d] = now[d] /\ in'[d] = in[d] /\ sent'[d] = sent[d]
  /\ eof'[d] = eof[d] /\ got'[d] = got[d] /\ out'[d] = out[d]
  /\ (shut[d] => shut'[d]) /\ (d \in over' => d \in over)

LEMMA UntouchedStays ==
  ASSUME BridgeIInv, NEW d \in Pumps, Untouched(d)
  PROVE  Sourced(d)' /\ Ended(d)' /\ \A j, i \in Nat : Copied(d, j, i) => Copied(d, j, i)'
<1>1. Got(d)' = Got(d) /\ Base(d)' = Base(d) /\ Delivered(d)' = Delivered(d)
  BY DEF Got, Base, Delivered, Untouched
<1>2. Sourced(d)' /\ Ended(d)'
  BY <1>1 DEF BridgeIInv, Sourced, Ended, Untouched
<1>3. \A j, i \in Nat : Copied(d, j, i) => Copied(d, j, i)'
  BY <1>1 DEF Copied, Placed, Untouched
<1>. QED
  BY <1>2, <1>3

\* A step of one direction.
LEMMA OneMoves ==
  ASSUME BridgeIInv, NEW d \in Pumps, \A e \in Pumps \ {d} : Untouched(e),
         BridgeTypeOK', Phases', Sourced(d)', Ended(d)',
         \A j, i \in Nat : Copied(d, j, i) => Copied(d, j, i)',
         FirstTime => FirstTime', bpc["up"] = "done" /\ ~chld => bpc'["up"] = "done" /\ ~chld'
  PROVE  BridgeIInv'
<1>1. \A e \in Pumps \ {d} : Sourced(e)' /\ Ended(e)' /\ \A j, i \in Nat : Copied(e, j, i) => Copied(e, j, i)'
  BY UntouchedStays
<1>2. Copies'
  BY <1>1, CopiesStay DEF BridgeIInv
<1>. QED
  BY <1>1, <1>2 DEF BridgeIInv

\* A pump goes on.
LEMMA PumpGoes ==
  ASSUME BridgeTypeOK, Phases, NEW d \in Pumps, NEW l \in {"read", "write", "exit", "done"},
         bpc[d] \in {"read", "write", "exit"}, bpc' = [bpc EXCEPT ![d] = l],
         chld' \in BOOLEAN, chld' => chld \/ (d = "up" /\ l = "done")
  PROVE  /\ Phases'
         /\ bpc' \in [Pumps -> {"unborn", "connect", "fork", "read", "write", "exit", "done"}]
         /\ bpc'[d] = l /\ \A e \in Pumps \ {d} : bpc'[e] = bpc[e]
         /\ bpc["up"] = "done" /\ ~chld => bpc'["up"] = "done" /\ ~chld'
<1>1. bpc'[d] = l /\ \A e \in Pumps \ {d} : bpc'[e] = bpc[e]
  BY DEF BridgeTypeOK
<1>2. bpc' \in [Pumps -> {"unborn", "connect", "fork", "read", "write", "exit", "done"}]
  BY DEF BridgeTypeOK
<1>3. Phases' /\ (bpc["up"] = "done" /\ ~chld => bpc'["up"] = "done" /\ ~chld')
  <2>1. CASE d = "up"
    BY <1>1, <2>1 DEF Phases, Pumps
  <2>2. CASE d = "down"
    BY <1>1, <2>2 DEF Phases, Pumps
  <2>. QED
    BY <2>1, <2>2 DEF Pumps
<1>. QED
  BY <1>1, <1>2, <1>3

LEMMA Cut ==
  ASSUME NEW s \in Seq(Nat), NEW n \in Nat, n <= Len(s)
  PROVE  /\ SubSeq(s, 1, n) \in Seq(Nat) /\ Len(SubSeq(s, 1, n)) = n
         /\ \A k \in 1 .. n : SubSeq(s, 1, n)[k] = s[k]
         /\ SubSeq(s, n + 1, Len(s)) \in Seq(Nat) /\ Len(SubSeq(s, n + 1, Len(s))) = Len(s) - n
         /\ \A k \in 1 .. Len(s) - n : SubSeq(s, n + 1, Len(s))[k] = s[n + k]
<1>1. Len(s) \in Nat
  OBVIOUS
<1>2. /\ SubSeq(s, 1, n) \in Seq(Nat) /\ Len(SubSeq(s, 1, n)) = n
      /\ \A k \in 1 .. n : SubSeq(s, 1, n)[k] = s[k]
  BY <1>1
<1>3. SubSeq(s, n + 1, Len(s)) \in Seq(Nat) /\ Len(SubSeq(s, n + 1, Len(s))) = Len(s) - n
  BY <1>1
<1>4. ASSUME NEW k \in 1 .. Len(s) - n PROVE SubSeq(s, n + 1, Len(s))[k] = s[n + k]
  <2>1. SubSeq(s, n + 1, Len(s))[k] = s[n + 1 + k - 1] /\ n + 1 + k - 1 = n + k
    BY <1>1
  <2>. QED
    BY <2>1
<1>. QED
  BY <1>2, <1>3, <1>4

LEMMA ReadKeeps ==
  ASSUME BridgeAssumption, BridgeIInv, NEW d \in Pumps, Read(d)
  PROVE  BridgeIInv'
<1>1. PICK n \in Nat :
        /\ n <= Len(in[d]) /\ n <= Buf
        /\ bpc[d] = "read" /\ bpc' = [bpc EXCEPT ![d] = "write"]
        /\ bbuf' = [bbuf EXCEPT ![d] = SubSeq(in[d], 1, n)]
        /\ in' = [in EXCEPT ![d] = SubSeq(in[d], n + 1, Len(in[d]))]
        /\ put' = [put EXCEPT ![d] = 0]
        /\ UNCHANGED <<now, chld, held, out, sent, shut, eof, over, gone, got>>
  <2>1. Len(in[d]) \in Nat
    BY Counts DEF BridgeIInv
  <2>2. PICK n \in Nat : n = IF Len(in[d]) < Buf THEN Len(in[d]) ELSE Buf
    BY <2>1 DEF BridgeAssumption
  <2>3. n <= Len(in[d]) /\ n <= Buf
    BY <2>1, <2>2 DEF BridgeAssumption
  <2>. QED
    BY <2>2, <2>3 DEF Read, PumpTo
<1>2. BridgeTypeOK /\ Phases /\ Sourced(d) /\ Ended(d)
  BY DEF BridgeIInv
<1>3. PICK s \in Nat, w \in Nat : s = sent[d] /\ w = Len(in[d]) /\ in[d] \in Seq(Nat) /\ n <= w
  BY <1>1, <1>2, Counts
<1>4. /\ SubSeq(in[d], 1, n) \in Seq(Nat) /\ Len(SubSeq(in[d], 1, n)) = n
      /\ \A k \in 1 .. n : SubSeq(in[d], 1, n)[k] = in[d][k]
      /\ SubSeq(in[d], n + 1, Len(in[d])) \in Seq(Nat) /\ Len(SubSeq(in[d], n + 1, Len(in[d]))) = w - n
      /\ \A k \in 1 .. w - n : SubSeq(in[d], n + 1, Len(in[d]))[k] = in[d][n + k]
  BY <1>3, Cut
<1>5. /\ bbuf'[d] = SubSeq(in[d], 1, n) /\ in'[d] = SubSeq(in[d], n + 1, Len(in[d])) /\ put'[d] = 0
      /\ \A e \in Pumps \ {d} : bbuf'[e] = bbuf[e] /\ in'[e] = in[e] /\ put'[e] = put[e]
  BY <1>1, <1>2 DEF BridgeTypeOK
<1>6. /\ Phases' /\ bpc'[d] = "write" /\ \A e \in Pumps \ {d} : bpc'[e] = bpc[e]
      /\ bpc' \in [Pumps -> {"unborn", "connect", "fork", "read", "write", "exit", "done"}]
      /\ bpc["up"] = "done" /\ ~chld => bpc'["up"] = "done" /\ ~chld'
  <2>1. chld' \in BOOLEAN /\ (chld' => chld)
    BY <1>1, <1>2 DEF BridgeTypeOK
  <2>. QED
    BY <1>1, <1>2, <2>1, PumpGoes
<1>7. BridgeTypeOK'
  BY <1>1, <1>2, <1>4, <1>6 DEF BridgeTypeOK
<1>8. /\ Got(d) = s - w /\ Got(d)' = s - (w - n) /\ Base(d)' = s - w /\ Len(bbuf'[d]) = n /\ Len(in'[d]) = w - n
      /\ Base(d) = s - w - Len(bbuf[d]) /\ Len(bbuf[d]) \in Nat
  <2>1. Len(bbuf'[d]) = n /\ Len(in'[d]) = w - n /\ sent'[d] = s /\ Len(bbuf[d]) \in Nat
    BY <1>1, <1>2, <1>3, <1>4, <1>5, Counts
  <2>2. Got(d) = s - w /\ Base(d) = s - w - Len(bbuf[d])
    BY <1>3 DEF Got, Base
  <2>3. Got(d)' = s - (w - n)
    BY <2>1 DEF Got
  <2>4. Base(d)' = s - (w - n) - n
    BY <2>1, <2>3 DEF Base
  <2>. QED
    BY <2>1, <2>2, <2>3, <2>4
<1>9. Sourced(d)'
  <2>1. \A k \in 1 .. w : in[d][k] = s - w + k
    BY <1>2, <1>3, <1>8 DEF Sourced, Run
  <2>2. \A k \in 1 .. n : bbuf'[d][k] = s - w + k
    BY <1>3, <1>4, <1>5, <2>1
  <2>3. ASSUME NEW k \in 1 .. w - n PROVE in'[d][k] = s - (w - n) + k
    <3>1. in'[d][k] = in[d][n + k] /\ n + k \in 1 .. w
      <4>1. n + k \in 1 .. w
        OBVIOUS
      <4>2. in'[d][k] = SubSeq(in[d], n + 1, Len(in[d]))[k]
        BY <1>5
      <4>. QED
        BY <1>4, <4>1, <4>2
    <3>2. in[d][n + k] = s - w + (n + k)
      BY <2>1, <3>1
    <3>. QED
      BY <3>1, <3>2
  <2>4. now'[d] = 0 /\ s - w >= 0 /\ n <= Buf /\ now'[d] <= n
    BY <1>1, <1>2, <1>8 DEF Sourced
  <2>. QED
    BY <1>6, <1>8, <2>2, <2>3, <2>4 DEF Sourced, Run
<1>10. Ended(d)'
  BY <1>1, <1>2 DEF Ended
<1>11. ASSUME NEW j \in Nat, NEW i \in Nat, Copied(d, j, i) PROVE Copied(d, j, i)'
  <2>1. \A at \in Int : Placed(d, at) => Placed(d, at)'
    <3> SUFFICES ASSUME NEW at \in Int, Placed(d, at) PROVE Placed(d, at)'
      OBVIOUS
    <3>1. at = s - w /\ now'[d] = 0 /\ ~eof'[d]
      BY <1>1, <1>2, <1>8 DEF Placed, Sourced, Ended
    <3>. QED
      BY <1>6, <1>8, <3>1 DEF Placed
  <2>2. Got(d)' \in Int /\ Got(d) <= Got(d)'
    <3>1. s - w \in Int /\ s - (w - n) \in Int /\ s - w <= s - (w - n)
      OBVIOUS
    <3>. QED
      BY <1>8, <3>1
  <2>3. got'[d] = got[d] /\ out'[d] = out[d]
    BY <1>1
  <2>. QED
    BY <1>2, <1>11, <2>1, <2>2, <2>3, CopiedStays
<1>12. FirstTime => FirstTime'
  BY <1>5, <1>6 DEF FirstTime, Pumps
<1>13. \A e \in Pumps \ {d} : Untouched(e)
  BY <1>1, <1>5, <1>6 DEF Untouched
<1>. QED
  BY <1>6, <1>7, <1>9, <1>10, <1>11, <1>12, <1>13, OneMoves

\* The pump comes to its end, is cut off in its write, or leaves the buffer.
LEMMA PumpStops ==
  ASSUME BridgeAssumption, BridgeIInv, NEW d \in Pumps, InputEnds(d) \/ ExitPump(d) \/ WriteFails(d) \/ WriteReturns(d)
  PROVE  BridgeIInv'
<1>1. /\ UNCHANGED <<bbuf, held, in, out, sent, shut, gone, got>>
      /\ put' \in [Pumps -> Nat] /\ now' \in [Pumps -> Nat]
      /\ \A e \in Pumps \ {d} : put'[e] = put[e] /\ now'[e] = now[e]
  <2>1. put[d] \in Nat /\ now[d] \in Nat
    BY Counts DEF BridgeIInv
  <2>2. put \in [Pumps -> Nat] /\ now \in [Pumps -> Nat]
    BY DEF BridgeIInv, BridgeTypeOK
  <2>3. CASE WriteReturns(d)
    <3>1. put[d] + now[d] \in Nat
      BY <2>1
    <3>. QED
      BY <2>1, <2>2, <2>3, <3>1 DEF WriteReturns, Return
  <2>. QED
    BY <2>2, <2>3 DEF InputEnds, ExitPump, WriteFails
<1>2. BridgeTypeOK /\ Phases /\ Sourced(d) /\ Ended(d)
  BY DEF BridgeIInv
<1>3. PICK l \in {"read", "exit", "done"} :
        /\ bpc[d] \in {"read", "write", "exit"} /\ bpc' = [bpc EXCEPT ![d] = l]
        /\ chld' \in BOOLEAN /\ (chld' => chld \/ (d = "up" /\ l = "done"))
        /\ l = "read" => bpc[d] = "write" /\ now[d] = Len(bbuf[d]) /\ now'[d] = 0
        /\ l = "exit" => bpc[d] = "read" /\ now'[d] = now[d] /\ shut[d] /\ in[d] = <<>>
        /\ l = "done" => bpc[d] \in {"write", "exit"} /\ now'[d] = now[d]
        /\ eof' \in [Pumps -> BOOLEAN] /\ eof'[d] = (eof[d] \/ l = "exit")
        /\ over' \in SUBSET Pumps /\ (d \in over' => eof'[d])
        /\ \A e \in Pumps \ {d} : eof'[e] = eof[e] /\ (e \in over' => e \in over)
  <2> USE DEF PumpTo
  <2>1. eof \in [Pumps -> BOOLEAN] /\ over \in SUBSET Pumps /\ chld \in BOOLEAN /\ put[d] \in Nat /\ now[d] \in Nat /\ Len(bbuf[d]) \in Nat
    BY <1>2, Counts DEF BridgeTypeOK
  <2>2. CASE InputEnds(d)
    <3>1. shut[d]
      BY <1>2, <2>2 DEF InputEnds, Ended
    <3>. QED
      BY <1>2, <2>1, <2>2, <3>1 DEF InputEnds, ShutDown, Ended
  <2>3. CASE ExitPump(d)
    BY <1>2, <2>1, <2>3 DEF ExitPump, Exit, Ended
  <2>4. CASE WriteFails(d)
    BY <1>2, <2>1, <2>4 DEF WriteFails, Exit, Ended
  <2>5. CASE WriteReturns(d)
    <3>1. put[d] + now[d] >= Len(bbuf[d])
      BY <2>1, <2>5 DEF WriteReturns
    <3>2. now'[d] = 0
      BY <1>2, <2>5 DEF WriteReturns, Return, BridgeTypeOK
    <3>. QED
      BY <1>2, <2>1, <2>5, <3>1, <3>2 DEF WriteReturns, Return, Enough, Ended
  <2>. QED
    BY <2>2, <2>3, <2>4, <2>5
<1>4. /\ Phases' /\ bpc'[d] = l /\ \A e \in Pumps \ {d} : bpc'[e] = bpc[e]
      /\ bpc' \in [Pumps -> {"unborn", "connect", "fork", "read", "write", "exit", "done"}]
      /\ bpc["up"] = "done" /\ ~chld => bpc'["up"] = "done" /\ ~chld'
  BY <1>2, <1>3, PumpGoes
<1>5. BridgeTypeOK'
  BY <1>1, <1>2, <1>3, <1>4 DEF BridgeTypeOK
<1>6. Got(d)' = Got(d) /\ Base(d)' = Base(d) /\ Got(d) = Base(d) + Len(bbuf[d])
  <2>1. Got(d)' = Got(d) /\ Base(d)' = Base(d)
    BY <1>1 DEF Got, Base
  <2>2. Got(d) = Base(d) + Len(bbuf[d])
    BY <1>2, Counts
  <2>. QED
    BY <2>1, <2>2
<1>7. Sourced(d)'
  <2>1. now'[d] <= Len(bbuf[d]) /\ (l # "done" => now'[d] = 0)
    <3>1. now[d] \in Nat /\ Len(bbuf[d]) \in Nat /\ now[d] <= Len(bbuf[d]) /\ (bpc[d] = "read" => now[d] = 0)
      BY <1>2, Counts DEF Sourced
    <3>. QED
      BY <1>3, <3>1
  <2>. QED
    BY <1>1, <1>2, <1>4, <1>6, <2>1 DEF Sourced
<1>8. Ended(d)'
  BY <1>1, <1>2, <1>3, <1>4 DEF Ended
<1>9. ASSUME NEW j \in Nat, NEW i \in Nat, Copied(d, j, i) PROVE Copied(d, j, i)'
  <2>1. ASSUME NEW at \in Int, Placed(d, at) PROVE Placed(d, at)'
    <3>1. l # "done" => at = Got(d)
      BY <1>2, <1>3, <1>6, <2>1 DEF Placed
    <3>2. eof'[d] => at = Got(d)
      BY <1>3, <2>1, <3>1 DEF Placed
    <3>. QED
      BY <1>4, <1>6, <2>1, <3>1, <3>2 DEF Placed
  <2>2. Got(d)' \in Int /\ Got(d) <= Got(d)'
    BY <1>2, <1>6, Counts
  <2>3. got'[d] = got[d] /\ out'[d] = out[d]
    BY <1>1
  <2>. QED
    BY <1>2, <1>9, <2>1, <2>2, <2>3, CopiedStays
<1>10. FirstTime => FirstTime'
  <2>1. "down" # d => put'["down"] = put["down"] /\ bpc'["down"] = bpc["down"]
    BY <1>1, <1>4 DEF Pumps
  <2>2. "down" = d => bpc'["down"] # "write"
    BY <1>4
  <2>. QED
    BY <2>1, <2>2 DEF FirstTime
<1>11. \A e \in Pumps \ {d} : Untouched(e)
  BY <1>1, <1>3, <1>4 DEF Untouched
<1>. QED
  BY <1>4, <1>5, <1>7, <1>8, <1>9, <1>10, <1>11, OneMoves

LEMMA CopyOutKeeps ==
  ASSUME BridgeAssumption, BridgeIInv, NEW d \in Pumps, CopyOut(d)
  PROVE  BridgeIInv'
<1>1. /\ bpc[d] = "write" /\ now[d] < Len(bbuf[d]) /\ ~eof[d]
      /\ out' = [out EXCEPT ![d] = Append(@, bbuf[d][now[d] + 1])]
      /\ now' = [now EXCEPT ![d] = @ + 1]
      /\ UNCHANGED <<bpc, bbuf, put, chld, held, in, sent, shut, eof, over, gone, got>>
  BY DEF CopyOut
<1>2. BridgeTypeOK /\ Phases /\ Sourced(d) /\ Ended(d)
  BY DEF BridgeIInv
<1>3. PICK n \in Nat, b \in Nat, l \in Nat :
        n = now[d] /\ b = Base(d) /\ l = Len(bbuf[d]) /\ n < l /\ Got(d) = b + l /\ l <= Buf
  <2>1. Base(d) \in Int /\ now[d] \in Nat /\ Len(bbuf[d]) \in Nat
    BY <1>2, Counts
  <2>2. Got(d) = Base(d) + Len(bbuf[d])
    BY <1>2, Counts
  <2>3. Base(d) >= 0 /\ now[d] < Len(bbuf[d]) /\ Len(bbuf[d]) <= Buf
    BY <1>1, <1>2 DEF Sourced
  <2>. QED
    BY <2>1, <2>2, <2>3
<1>4. bbuf[d][n + 1] = b + (n + 1) /\ b + (n + 1) \in Nat
  <2>1. \A k \in 1 .. l : bbuf[d][k] = b + k
    BY <1>2, <1>3 DEF Sourced, Run
  <2>2. n + 1 \in 1 .. l
    BY <1>3
  <2>. QED
    BY <2>1, <2>2
<1>5. /\ out'[d] = Append(out[d], b + (n + 1)) /\ now'[d] = n + 1
      /\ \A e \in Pumps \ {d} : out'[e] = out[e] /\ now'[e] = now[e]
  BY <1>1, <1>2, <1>3, <1>4 DEF BridgeTypeOK
<1>6. BridgeTypeOK'
  <2>1. Append(out[d], b + (n + 1)) \in Seq(Nat) /\ now[d] + 1 \in Nat
    <3>1. out[d] \in Seq(Nat)
      BY <1>2, Counts
    <3>. QED
      BY <1>3, <1>4, <3>1, Appended
  <2>2. out' \in [Pumps -> Seq(Nat)] /\ now' \in [Pumps -> Nat]
    <3>1. out' = [out EXCEPT ![d] = Append(out[d], b + (n + 1))] /\ now' = [now EXCEPT ![d] = now[d] + 1]
      BY <1>1, <1>3, <1>4
    <3>. QED
      BY <1>2, <2>1, <3>1 DEF BridgeTypeOK
  <2>. QED
    BY <1>1, <1>2, <2>2 DEF BridgeTypeOK
<1>7. Got(d)' = Got(d) /\ Base(d)' = Base(d)
  BY <1>1 DEF Got, Base
<1>8. Phases' /\ Ended(d)' /\ Sourced(d)'
  <2>1. Phases' /\ Ended(d)'
    BY <1>1, <1>2 DEF Phases, Ended
  <2>2. now'[d] <= Len(bbuf[d])
    BY <1>3, <1>5
  <2>. QED
    BY <1>1, <1>2, <1>7, <2>1, <2>2 DEF Sourced
<1>9. ASSUME NEW j \in Nat, NEW i \in Nat, Copied(d, j, i) PROVE Copied(d, j, i)'
  <2>1. PICK m \in Nat : m = Len(Delivered(d)) /\ Delivered(d) \in Seq(Nat)
    BY <1>2, InOrder
  <2>2. /\ Len(Delivered(d)') = m + 1 /\ \A k \in 1 .. m : Delivered(d)'[k] = Delivered(d)[k]
        /\ Delivered(d)'[m + 1] = b + (n + 1)
    <3> DEFINE u == b + (n + 1)
    <3>1. Delivered(d)' = got[d] \o Append(out[d], u)
      BY <1>1, <1>5 DEF Delivered
    <3>2. got[d] \in Seq(Nat) /\ out[d] \in Seq(Nat) /\ u \in Nat
      BY <1>2, <1>4, Counts
    <3>3. got[d] \o Append(out[d], u) = Append(got[d] \o out[d], u)
      BY <3>2, JoinedBehind
    <3> HIDE DEF u
    <3>4. Delivered(d)' = Append(Delivered(d), u)
      BY <3>1, <3>3 DEF Delivered
    <3>5. u = b + (n + 1)
      BY DEF u
    <3>. QED
      BY <2>1, <3>2, <3>4, <3>5, Appended
  <2>3. m - j + i - 1 = b + n /\ j <= m /\ j <= b + l /\ i \in 1 .. j + 1
    BY <1>1, <1>3, <1>9, <2>1 DEF Copied, Placed
  <2>4. \A k \in 1 .. m + 1 : Delivered(d)'[k] = IF k <= j THEN k ELSE k - j + i - 1
    <3>1. \A k \in 1 .. m : Delivered(d)'[k] = IF k <= j THEN k ELSE k - j + i - 1
      BY <1>9, <2>1, <2>2 DEF Copied
    <3>2. ~(m + 1 <= j) /\ m + 1 - j + i - 1 = b + (n + 1)
      BY <2>3
    <3>. QED
      BY <2>2, <3>1, <3>2
  <2>5. Placed(d, m + 1 - j + i - 1)'
    <3>1. m + 1 - j + i - 1 = b + (n + 1)
      BY <2>3
    <3>2. b + (n + 1) <= b + l
      BY <1>3
    <3>. QED
      BY <1>1, <1>3, <1>5, <1>7, <3>1, <3>2 DEF Placed
  <2>6. j <= m + 1 /\ j <= Got(d)'
    BY <1>3, <1>7, <2>3
  <2>. QED
    BY <2>2, <2>3, <2>4, <2>5, <2>6 DEF Copied
<1>10. FirstTime => FirstTime'
  BY <1>1 DEF FirstTime
<1>11. \A e \in Pumps \ {d} : Untouched(e)
  BY <1>1, <1>5 DEF Untouched
<1>. QED
  BY <1>1, <1>6, <1>8, <1>9, <1>10, <1>11, OneMoves

\* Before it forks the handler only opens the way.
LEMMA HandlerKeeps ==
  ASSUME BridgeIInv, Connect \/ SetupFails \/ Fork
  PROVE  BridgeIInv'
<1>1. BridgeTypeOK /\ Phases /\ Copies /\ \A d \in Pumps : Sourced(d) /\ Ended(d)
  BY DEF BridgeIInv
<1>2. UNCHANGED <<bbuf, put, now, chld, held, in, out, sent, shut, eof, over, gone, got>>
  BY DEF Connect, SetupFails, Fork
<1>3. bpc["up"] = "unborn" /\ bpc["down"] \in {"connect", "fork"} /\ ~chld
  BY <1>1 DEF Phases, Connect, SetupFails, Fork
<1>4. /\ bpc' \in [Pumps -> {"unborn", "connect", "fork", "read", "write", "exit", "done"}]
      /\ bpc'["up"] # "write" /\ bpc'["down"] # "write" /\ Phases'
  <2>1. ~chld'
    BY <1>2, <1>3
  <2>2. CASE Connect
    BY <1>1, <1>3, <2>1, <2>2 DEF Connect, PumpTo, BridgeTypeOK, Phases, Pumps
  <2>3. CASE SetupFails
    BY <1>1, <1>3, <2>1, <2>3 DEF SetupFails, BridgeTypeOK, Phases, Pumps
  <2>4. CASE Fork
    BY <1>1, <1>3, <2>1, <2>4 DEF Fork, BridgeTypeOK, Phases, Pumps
  <2>. QED
    BY <2>2, <2>3, <2>4
<1>5. BridgeTypeOK'
  BY <1>1, <1>2, <1>4 DEF BridgeTypeOK
<1>6. ASSUME NEW d \in Pumps
      PROVE  Sourced(d)' /\ Ended(d)' /\ \A j, i \in Nat : Copied(d, j, i) => Copied(d, j, i)'
  <2>1. bpc[d] \in {"unborn", "connect", "fork"} /\ bpc'[d] # "write" /\ Sourced(d) /\ Ended(d)
    BY <1>1, <1>3, <1>4 DEF Pumps
  <2>2. Got(d)' = Got(d) /\ Base(d)' = Base(d) /\ Delivered(d)' = Delivered(d)
    BY <1>2 DEF Got, Base, Delivered
  <2>3. Sourced(d)' /\ Ended(d)'
    BY <1>2, <2>1, <2>2 DEF Sourced, Ended
  <2>4. ASSUME NEW at, Placed(d, at) PROVE Placed(d, at)'
    BY <1>2, <2>1, <2>2, <2>4 DEF Placed
  <2>5. \A j, i \in Nat : Copied(d, j, i) => Copied(d, j, i)'
    BY <2>2, <2>4 DEF Copied
  <2>. QED
    BY <2>3, <2>5
<1>7. Copies'
  BY <1>1, <1>3, <1>4, <1>6, CopiesStay DEF FirstTime
<1>. QED
  BY <1>4, <1>5, <1>6, <1>7 DEF BridgeIInv

\* A step that no direction notices.
LEMMA NoneMoves ==
  ASSUME BridgeIInv, \A d \in Pumps : Untouched(d), BridgeTypeOK', bpc' = bpc, put' = put,
         chld' \in BOOLEAN, chld' => chld
  PROVE  BridgeIInv'
<1>1. \A d \in Pumps : Sourced(d)' /\ Ended(d)' /\ \A j, i \in Nat : Copied(d, j, i) => Copied(d, j, i)'
  BY UntouchedStays
<1>2. Copies'
  BY <1>1, CopiesStay DEF BridgeIInv, FirstTime
<1>3. Phases'
  BY DEF BridgeIInv, Phases
<1>. QED
  BY <1>1, <1>2, <1>3 DEF BridgeIInv

LEMMA EndsKeep ==
  ASSUME BridgeIInv, NEW d \in Pumps, MainCloses \/ Shut(d) \/ CloseSink(d)
  PROVE  BridgeIInv'
<1>1. BridgeTypeOK
  BY DEF BridgeIInv
<1>2. /\ UNCHANGED <<bpc, bbuf, put, now, chld, in, out, sent, eof, over, got>>
      /\ shut' \in [Pumps -> BOOLEAN] /\ \A e \in Pumps : shut[e] => shut'[e]
  <2>1. Back(d) \in Pumps
    BY DEF Back, Pumps
  <2>. QED
    BY <1>1, <2>1 DEF BridgeTypeOK, MainCloses, Shut, CloseSink, proc
<1>3. BridgeTypeOK'
  BY <1>1, <1>2 DEF BridgeTypeOK
<1>4. \A e \in Pumps : Untouched(e)
  BY <1>2 DEF Untouched
<1>5. chld' \in BOOLEAN /\ (chld' => chld)
  BY <1>1, <1>2 DEF BridgeTypeOK
<1>. QED
  BY <1>2, <1>3, <1>4, <1>5, NoneMoves

\* The source's next unit waits behind the others.
LEMMA SendKeeps ==
  ASSUME BridgeIInv, NEW d \in Pumps, Send(d)
  PROVE  BridgeIInv'
<1>1. BridgeTypeOK /\ Phases /\ Sourced(d) /\ Ended(d)
  BY DEF BridgeIInv
<1>2. PICK s \in Nat, w \in Nat : s = sent[d] /\ w = Len(in[d]) /\ in[d] \in Seq(Nat)
  BY <1>1, Counts
<1>3. /\ ~shut[d] /\ sent' = [sent EXCEPT ![d] = s + 1] /\ in' = [in EXCEPT ![d] = Append(in[d], s + 1)]
      /\ UNCHANGED <<bpc, bbuf, put, now, chld, held, out, shut, eof, over, gone, got>>
  BY <1>2 DEF Send, proc
<1>4. /\ sent'[d] = s + 1 /\ in'[d] = Append(in[d], s + 1)
      /\ \A e \in Pumps \ {d} : sent'[e] = sent[e] /\ in'[e] = in[e]
  BY <1>1, <1>3 DEF BridgeTypeOK
<1>5. Run(in[d], s - w)
  BY <1>1, <1>2 DEF Sourced, Got
<1>6. in'[d] \in Seq(Nat) /\ Len(in'[d]) = w + 1 /\ Run(in'[d], s - w)
  <2>1. s - w \in Int /\ s + 1 \in Nat /\ s + 1 = s - w + w + 1
    OBVIOUS
  <2>. QED
    BY <1>2, <1>4, <1>5, <2>1, RunGrows
<1>7. Got(d)' = Got(d) /\ Base(d)' = Base(d) /\ Got(d) = s - w
  <2>1. Got(d)' = s + 1 - (w + 1) /\ Got(d) = s - w
    BY <1>2, <1>4, <1>6 DEF Got
  <2>2. Got(d)' = Got(d)
    BY <2>1
  <2>. QED
    BY <1>3, <2>1, <2>2 DEF Base
<1>8. BridgeTypeOK' /\ Phases'
  <2>1. Append(in[d], s + 1) \in Seq(Nat) /\ s + 1 \in Nat
    BY <1>4, <1>6
  <2>2. in' \in [Pumps -> Seq(Nat)] /\ sent' \in [Pumps -> Nat]
    BY <1>1, <1>3, <2>1 DEF BridgeTypeOK
  <2>. QED
    BY <1>1, <1>3, <2>2 DEF BridgeTypeOK, Phases
<1>9. Sourced(d)'
  BY <1>1, <1>3, <1>6, <1>7 DEF Sourced
<1>10. Ended(d)'
  BY <1>1, <1>3 DEF Ended
<1>11. ASSUME NEW j \in Nat, NEW i \in Nat, Copied(d, j, i) PROVE Copied(d, j, i)'
  <2>1. Delivered(d)' = Delivered(d)
    BY <1>3 DEF Delivered
  <2>2. \A at : Placed(d, at) => Placed(d, at)'
    BY <1>3, <1>7 DEF Placed
  <2>. QED
    BY <1>7, <1>11, <2>1, <2>2 DEF Copied
<1>12. \A e \in Pumps \ {d} : Untouched(e)
  BY <1>3, <1>4 DEF Untouched
<1>. QED
  BY <1>3, <1>8, <1>9, <1>10, <1>11, <1>12, OneMoves DEF FirstTime

\* What the sink takes was already on its way.
LEMMA RecvKeeps ==
  ASSUME BridgeIInv, NEW d \in Pumps, Recv(d)
  PROVE  BridgeIInv'
<1>1. BridgeTypeOK /\ Phases /\ Sourced(d) /\ Ended(d)
  BY DEF BridgeIInv
<1>2. got[d] \in Seq(Nat) /\ out[d] \in Seq(Nat) /\ Delivered(d) \in Seq(Nat)
  BY <1>1, Counts, InOrder
<1>3. /\ got' = [got EXCEPT ![d] = Delivered(d)] /\ out' = [out EXCEPT ![d] = <<>>]
      /\ UNCHANGED <<bpc, bbuf, put, now, chld, held, in, sent, shut, eof, over, gone>>
  BY DEF Recv, proc, Delivered
<1>4. /\ got'[d] = Delivered(d) /\ out'[d] = <<>>
      /\ \A e \in Pumps \ {d} : got'[e] = got[e] /\ out'[e] = out[e]
  BY <1>1, <1>3 DEF BridgeTypeOK
<1>5. Delivered(d)' = Delivered(d)
  <2>1. Delivered(d)' = Delivered(d) \o <<>>
    BY <1>4 DEF Delivered
  <2>2. Delivered(d) \o <<>> = Delivered(d)
    BY <1>2, ConcatEmptySeq
  <2>. QED
    BY <2>1, <2>2
<1>6. BridgeTypeOK' /\ Phases'
  <2>1. got' \in [Pumps -> Seq(Nat)] /\ out' \in [Pumps -> Seq(Nat)]
    BY <1>1, <1>2, <1>3 DEF BridgeTypeOK
  <2>. QED
    BY <1>1, <1>3, <2>1 DEF BridgeTypeOK, Phases
<1>7. Got(d)' = Got(d) /\ Base(d)' = Base(d)
  BY <1>3 DEF Got, Base
<1>8. Sourced(d)' /\ Ended(d)'
  BY <1>1, <1>3, <1>7 DEF Sourced, Ended
<1>9. ASSUME NEW j \in Nat, NEW i \in Nat, Copied(d, j, i) PROVE Copied(d, j, i)'
  <2>1. \A at : Placed(d, at) => Placed(d, at)'
    BY <1>3, <1>7 DEF Placed
  <2>. QED
    BY <1>5, <1>7, <1>9, <2>1 DEF Copied
<1>10. \A e \in Pumps \ {d} : Untouched(e)
  BY <1>3, <1>4 DEF Untouched
<1>. QED
  BY <1>3, <1>6, <1>8, <1>9, <1>10, OneMoves DEF FirstTime

\* The child's end cuts the parent's write short, and its buffer is written
\* from the front again.
LEMMA SignalKeeps ==
  ASSUME BridgeAssumption, BridgeIInv, Signal
  PROVE  BridgeIInv'
<1>1. BridgeTypeOK /\ Phases /\ Sourced("down") /\ Ended("down") /\ "down" \in Pumps /\ "up" \in Pumps
  BY DEF BridgeIInv, Pumps
<1>2. /\ chld /\ chld' = FALSE /\ bpc["up"] = "done"
      /\ UNCHANGED <<bbuf, held, in, out, sent, shut, eof, over, gone, got>>
  BY <1>1 DEF Signal, Phases
<1>3. CASE UNCHANGED <<bpc, put, now>>
  <2>1. BridgeTypeOK'
    BY <1>1, <1>2, <1>3 DEF BridgeTypeOK
  <2>2. \A e \in Pumps : Untouched(e)
    BY <1>2, <1>3 DEF Untouched
  <2>. QED
    BY <1>2, <1>3, <2>1, <2>2, NoneMoves
<1>4. CASE bpc["down"] = "write" /\ now["down"] \in 1 .. Len(bbuf["down"]) - 1 /\ Return("down")
  <2>1. put["down"] = 0 /\ Copied("down", 0, 1) /\ Copied("up", 0, 1)
    BY <1>2, <1>4 DEF BridgeIInv, Copies, Replayed, FirstTime
  <2>2. PICK n \in Nat, l \in Nat : n = now["down"] /\ l = Len(bbuf["down"]) /\ 1 <= n /\ n < l /\ l <= Buf
    <3>1. now["down"] \in Nat /\ Len(bbuf["down"]) \in Nat
      BY <1>1, Counts
    <3>2. Len(bbuf["down"]) <= Buf
      BY <1>1 DEF Sourced
    <3>. QED
      BY <1>4, <3>1, <3>2
  <2>3. PICK b \in Nat : b = Base("down") /\ Got("down") = b + l
    <3>1. Base("down") \in Int /\ Got("down") = Base("down") + Len(bbuf["down"])
      BY <1>1, Counts
    <3>2. Base("down") >= 0
      BY <1>1 DEF Sourced
    <3>. QED
      BY <2>2, <3>1, <3>2
  <2>4. /\ bpc' = [bpc EXCEPT !["down"] = "write"] /\ put' = [put EXCEPT !["down"] = n]
        /\ now' = [now EXCEPT !["down"] = 0]
    <3>1. put["down"] + now["down"] = n /\ ~(n >= l)
      BY <2>1, <2>2
    <3>. QED
      BY <1>4, <2>2, <3>1 DEF Return, Enough, PumpTo
  <2>5. /\ bpc'["down"] = "write" /\ now'["down"] = 0 /\ bpc'["up"] = "done" /\ ~chld'
        /\ \A e \in Pumps \ {"down"} : bpc'[e] = bpc[e] /\ now'[e] = now[e]
    BY <1>1, <1>2, <2>4 DEF BridgeTypeOK
  <2>6. BridgeTypeOK'
    BY <1>1, <1>2, <2>4 DEF BridgeTypeOK
  <2>7. Phases'
    BY <1>1, <1>4, <2>5 DEF Phases
  <2>8. Got("down")' = Got("down") /\ Base("down")' = Base("down") /\ Delivered("down")' = Delivered("down")
    BY <1>2 DEF Got, Base, Delivered
  <2>9. Sourced("down")' /\ Ended("down")'
    <3>1. 0 <= l
      BY <2>2
    <3>. QED
      BY <1>1, <1>2, <1>4, <2>2, <2>5, <2>8, <3>1 DEF Sourced, Ended
  <2>10. Sourced("up")' /\ Ended("up")' /\ Copied("up", 0, 1)'
    <3>1. Untouched("up")
      BY <1>2, <2>5, <1>1 DEF Untouched
    <3>. QED
      BY <1>1, <2>1, <3>1, UntouchedStays
  <2>11. Copied("down", b + n, b + 1)'
    <3>1. PICK m \in Nat : m = Len(Delivered("down"))
      BY <1>1, InOrder
    <3>2. m = b + n /\ \A k \in 1 .. m : Delivered("down")[k] = k
      <4>1. m - 0 + 1 - 1 = m /\ \A k \in 1 .. m : ~(k <= 0) /\ k - 0 + 1 - 1 = k
        OBVIOUS
      <4>. QED
        BY <1>4, <2>1, <2>2, <2>3, <3>1, <4>1 DEF Copied, Placed
    <3>3. m - (b + n) + (b + 1) - 1 = b /\ b + n <= b + l /\ b + 1 \in 1 .. b + n + 1 /\ b <= b + l
      <4>1. m - (b + n) + (b + 1) - 1 = b
        BY <3>2
      <4>2. b + n <= b + l /\ b <= b + l
        BY <2>2
      <4>3. b + 1 \in 1 .. b + n + 1
        BY <2>2
      <4>. QED
        BY <4>1, <4>2, <4>3
    <3>4. Placed("down", b)'
      <4>1. ~eof["down"]
        BY <1>1, <1>4 DEF Ended
      <4>2. b = b + 0
        OBVIOUS
      <4>. QED
        BY <1>2, <2>3, <2>5, <2>8, <3>3, <4>1, <4>2 DEF Placed
    <3>5. \A k \in 1 .. m : Delivered("down")[k] = IF k <= b + n THEN k ELSE k - (b + n) + (b + 1) - 1
      BY <3>2
    <3>6. b + n <= m /\ b + n <= Got("down")
      BY <2>3, <3>2, <3>3
    <3>. QED
      BY <2>8, <3>1, <3>3, <3>4, <3>5, <3>6 DEF Copied
  <2>12. Replayed'
    <3>1. b + n > 0 /\ b + 1 <= b + n /\ b + n \in Nat /\ b + 1 \in Nat
      BY <2>2
    <3>2. b + n - (b + 1) < Buf - 1
      <4>1. Buf \in Nat /\ n < Buf
        BY <2>2 DEF BridgeAssumption
      <4>2. b + n - (b + 1) = n - 1
        OBVIOUS
      <4>. QED
        BY <4>1, <4>2
    <3>. QED
      BY <2>5, <2>11, <3>1, <3>2 DEF Replayed
  <2>. QED
    BY <2>6, <2>7, <2>9, <2>10, <2>12 DEF BridgeIInv, Copies, Pumps
<1>. QED
  BY <1>3, <1>4 DEF Signal

LEMMA BridgeStepOK ==
  ASSUME BridgeAssumption, BridgeIInv, [BridgeNext]_bridgeVars
  PROVE  BridgeIInv'
<1>1. CASE HandlerProc
  BY <1>1, HandlerKeeps, SignalKeeps DEF HandlerProc
<1>2. CASE MainCloses
  BY <1>2, EndsKeep DEF Pumps
<1>3. ASSUME NEW d \in Pumps, Pump(d) PROVE BridgeIInv'
  BY <1>3, ReadKeeps, PumpStops, CopyOutKeeps DEF Pump
<1>4. ASSUME NEW d \in Pumps, Peer(d) PROVE BridgeIInv'
  BY <1>4, SendKeeps, EndsKeep, RecvKeeps DEF Peer
<1>5. CASE UNCHANGED bridgeVars
  <2>1. BridgeTypeOK /\ chld \in BOOLEAN
    BY DEF BridgeIInv, BridgeTypeOK
  <2>2. UNCHANGED <<bpc, bbuf, put, now, chld, in, out, sent, shut, eof, over, got>>
    BY <1>5 DEF bridgeVars, proc
  <2>3. BridgeTypeOK'
    BY <2>1, <2>2 DEF BridgeTypeOK
  <2>4. \A e \in Pumps : Untouched(e)
    BY <2>2 DEF Untouched
  <2>. QED
    BY <2>1, <2>2, <2>3, <2>4, NoneMoves
<1>. QED
  BY <1>1, <1>2, <1>3, <1>4, <1>5 DEF BridgeNext

LEMMA CountingIsRun ==
  ASSUME NEW n \in Nat
  PROVE  Counting(n) \in Seq(Nat) /\ Len(Counting(n)) = n /\ \A k \in 1 .. n : Counting(n)[k] = k
BY DEF Counting

\* The stream with one stretch that comes twice.
LEMMA TwiceCounted ==
  ASSUME NEW n \in Nat, NEW j \in 1 .. n, NEW i \in 1 .. j
  PROVE  LET twice == Counting(j) \o SubSeq(Counting(n), i, n)
         IN  /\ twice \in Seq(Nat) /\ Len(twice) = j + (n - i + 1)
             /\ \A k \in 1 .. j : twice[k] = k
             /\ \A k \in j + 1 .. j + (n - i + 1) : twice[k] = k - j + i - 1
<1> DEFINE a == Counting(j)
           all == Counting(n)
           b == SubSeq(all, i, n)
<1>4. PICK m \in Nat : m = n - i + 1
  OBVIOUS
<1>1. a \in Seq(Nat) /\ Len(a) = j /\ \A k \in 1 .. j : a[k] = k
  BY CountingIsRun
<1>2. all \in Seq(Nat) /\ Len(all) = n /\ \A k \in 1 .. n : all[k] = k
  BY CountingIsRun
<1> HIDE DEF a, all
<1>3. b \in Seq(Nat) /\ Len(b) = m /\ \A k \in 1 .. m : b[k] = all[i + k - 1]
  BY <1>2, <1>4
<1> HIDE DEF b
<1>5. ASSUME NEW k \in 1 .. m PROVE b[k] = i + k - 1
  <2>1. i + k - 1 \in 1 .. n
    BY <1>4
  <2>. QED
    BY <1>2, <1>3, <2>1
<1>6. /\ a \o b \in Seq(Nat) /\ Len(a \o b) = j + m
      /\ \A k \in 1 .. j : (a \o b)[k] = a[k]
      /\ \A k \in 1 .. m : (a \o b)[j + k] = b[k]
  BY <1>1, <1>3, Joined
<1>7. ASSUME NEW k \in j + 1 .. j + m PROVE (a \o b)[k] = k - j + i - 1
  <2>1. k - j \in 1 .. m /\ j + (k - j) = k /\ i + (k - j) - 1 = k - j + i - 1
    BY <1>4
  <2>2. (a \o b)[j + (k - j)] = b[k - j]
    BY <1>6, <2>1
  <2>3. b[k - j] = i + (k - j) - 1
    BY <1>5, <2>1
  <2>. QED
    BY <2>1, <2>2, <2>3
<1>8. \A k \in 1 .. j : (a \o b)[k] = k
  BY <1>1, <1>6
<1>. QED
  BY <1>4, <1>6, <1>7, <1>8 DEF a, b, all

LEMMA CopiedIsPrefix ==
  ASSUME BridgeTypeOK, NEW d \in Pumps, NEW j \in Nat, NEW i \in Nat, Copied(d, j, i)
  PROVE  /\ j = 0 => IsPrefix(Delivered(d), Counting(sent[d]))
         /\ 0 < j /\ i <= j => /\ j \in 1 .. sent[d] /\ i \in 1 .. j
                               /\ IsPrefix(Delivered(d), Counting(j) \o SubSeq(Counting(sent[d]), i, sent[d]))
<1>1. PICK s \in Nat, w \in Nat, m \in Nat :
        s = sent[d] /\ w = Len(in[d]) /\ Delivered(d) \in Seq(Nat) /\ m = Len(Delivered(d))
  BY Counts, InOrder
<1>2. Got(d) = s - w
  BY <1>1 DEF Got
<1>3. j <= m /\ j <= s - w /\ 1 <= i /\ i <= j + 1 /\ m - j + i - 1 <= s - w
  BY <1>1, <1>2 DEF Copied, Placed
<1>4. \A k \in 1 .. m : Delivered(d)[k] = IF k <= j THEN k ELSE k - j + i - 1
  BY <1>1 DEF Copied
<1>5. CASE j = 0
  <2>1. i = 1 /\ m <= s
    BY <1>3, <1>5
  <2>2. \A k \in 1 .. m : Delivered(d)[k] = k /\ k \in 1 .. s
    <3>1. \A k \in 1 .. m : ~(k <= j) /\ k - j + i - 1 = k /\ k \in 1 .. s
      BY <1>5, <2>1
    <3>. QED
      BY <1>4, <3>1
  <2> DEFINE all == Counting(s)
  <2>3. all \in Seq(Nat) /\ Len(all) = s /\ \A k \in 1 .. s : all[k] = k
    BY CountingIsRun
  <2> HIDE DEF all
  <2>4. \A k \in 1 .. m : Delivered(d)[k] = all[k]
    BY <2>2, <2>3
  <2>5. IsPrefix(Delivered(d), all)
    BY <1>1, <2>1, <2>3, <2>4, PrefixByUnits
  <2>. QED
    BY <1>1, <1>5, <2>5 DEF all
<1>6. CASE 0 < j /\ i <= j
  <2> DEFINE twice == Counting(j) \o SubSeq(Counting(s), i, s)
  <2>1. j \in 1 .. s /\ i \in 1 .. j /\ m <= j + (s - i + 1)
    BY <1>3, <1>6
  <2>2. /\ twice \in Seq(Nat) /\ Len(twice) = j + (s - i + 1)
        /\ \A k \in 1 .. j : twice[k] = k
        /\ \A k \in j + 1 .. j + (s - i + 1) : twice[k] = k - j + i - 1
    BY <2>1, TwiceCounted
  <2> HIDE DEF twice
  <2>3. ASSUME NEW k \in 1 .. m PROVE Delivered(d)[k] = twice[k]
    <3>1. CASE k <= j
      BY <1>4, <2>2, <3>1
    <3>2. CASE ~(k <= j)
      <4>1. k \in j + 1 .. j + (s - i + 1)
        BY <2>1, <3>2
      <4>. QED
        BY <1>4, <2>2, <3>2, <4>1
    <3>. QED
      BY <3>1, <3>2
  <2>4. IsPrefix(Delivered(d), twice)
    BY <1>1, <2>1, <2>2, <2>3, PrefixByUnits
  <2>. QED
    BY <1>1, <1>6, <2>1, <2>4 DEF twice
<1>. QED
  BY <1>5, <1>6

LEMMA CopiedToTheEnd ==
  ASSUME BridgeTypeOK, NEW d \in Pumps, NEW j \in Nat, NEW i \in Nat, Copied(d, j, i), Ended(d), eof[d]
  PROVE  ToSet(Delivered(d)) = 1 .. sent[d]
<1>1. PICK s \in Nat, m \in Nat : s = sent[d] /\ Delivered(d) \in Seq(Nat) /\ m = Len(Delivered(d))
  BY Counts, InOrder
<1>2. Got(d) = s
  <2>1. in[d] = <<>> /\ Len(<<>>) = 0
    BY DEF Ended
  <2>2. Got(d) = s - 0
    BY <1>1, <2>1 DEF Got
  <2>. QED
    BY <2>2
<1>3. j <= m /\ j <= s /\ 1 <= i /\ i <= j + 1 /\ m - j + i - 1 = s
  BY <1>1, <1>2 DEF Copied, Placed
<1>4. \A k \in 1 .. m : Delivered(d)[k] = IF k <= j THEN k ELSE k - j + i - 1
  BY <1>1 DEF Copied
<1>5. ASSUME NEW k \in 1 .. m PROVE Delivered(d)[k] \in 1 .. s
  <2>1. (k <= j => k \in 1 .. s) /\ (~(k <= j) => k - j + i - 1 \in 1 .. s)
    BY <1>3
  <2>. QED
    BY <1>4, <2>1
<1>6. ASSUME NEW v \in 1 .. s PROVE \E k \in 1 .. m : Delivered(d)[k] = v
  <2>1. CASE v <= j
    <3>1. v \in 1 .. m
      BY <1>3, <2>1
    <3>. QED
      BY <1>4, <2>1, <3>1
  <2>2. CASE ~(v <= j)
    <3>1. v + j - i + 1 \in 1 .. m /\ ~(v + j - i + 1 <= j) /\ v + j - i + 1 - j + i - 1 = v
      BY <1>3, <2>2
    <3>. QED
      BY <1>4, <3>1
  <2>. QED
    BY <2>1, <2>2
<1>7. DOMAIN Delivered(d) = 1 .. m
  BY <1>1
<1>8. ToSet(Delivered(d)) = {Delivered(d)[k] : k \in 1 .. m}
  BY <1>7 DEF ToSet
<1>. QED
  BY <1>1, <1>5, <1>6, <1>8

\* Both directions come through unchanged but for one stretch of the server's
\* that is written twice, and an end is passed on only behind all that came
\* before it (unix-tcp-bridge.c:27-60), for any stream and any buffer.
THEOREM BridgeCopies == BridgeSpec => []BridgeFaithful
<1>1. BridgeIInv => BridgeFaithful
  <2> SUFFICES ASSUME BridgeIInv PROVE BridgeFaithful
    OBVIOUS
  <2>1. BridgeTypeOK /\ Copies /\ "up" \in Pumps /\ "down" \in Pumps /\ \A d \in Pumps : Ended(d)
    BY DEF BridgeIInv, Pumps
  <2>2. OneReplay
    <3>1. IsPrefix(Delivered("up"), Counting(sent["up"]))
      BY <2>1, CopiedIsPrefix DEF Copies
    <3>2. CASE Copied("down", 0, 1)
      BY <2>1, <3>1, <3>2, CopiedIsPrefix DEF OneReplay
    <3>3. CASE Replayed
      <4>1. PICK j \in Nat, i \in Nat : j > 0 /\ i <= j /\ j - i < Buf - 1 /\ Copied("down", j, i)
        BY <3>3 DEF Replayed
      <4>2. /\ j \in 1 .. sent["down"] /\ i \in 1 .. j
            /\ IsPrefix(Delivered("down"), Counting(j) \o SubSeq(Counting(sent["down"]), i, sent["down"]))
        BY <2>1, <4>1, CopiedIsPrefix
      <4>. QED
        BY <3>1, <3>3, <4>1, <4>2 DEF OneReplay, Replayed
    <3>. QED
      BY <2>1, <3>2, <3>3 DEF Copies
  <2>3. ASSUME NEW d \in Pumps, eof[d] PROVE shut[d] /\ ToSet(Delivered(d)) = 1 .. sent[d]
    <3>1. PICK j \in Nat, i \in Nat : Copied(d, j, i)
      BY <2>1 DEF Copies, Replayed, Pumps
    <3>. QED
      BY <2>1, <2>3, <3>1, CopiedToTheEnd DEF Ended
  <2>. QED
    BY <2>2, <2>3 DEF BridgeFaithful, EndIsComplete
<1>. QED
  BY <1>1, BridgeAssumption, BridgeInitOK, BridgeStepOK, PTL DEF BridgeSpec
=============================================================================
