------------------------ MODULE SmallPrograms_proofs -------------------------
(***************************************************************************)
(* Proofs about the programs that run on their own: the blocks of Arena    *)
(* are sound for every capacity and all sizes, and a Dynbuf holds what was *)
(* put there; Pmap maps a beginning of the array, for arrays of any size,  *)
(* and Songs are whole for any number of requests and songs; Transfer's    *)
(* content arrives whole for every content; Pinentry obeys the person, and *)
(* no pipe of Pipes is ever broken.                                        *)
(***************************************************************************)
EXTENDS Arena, Dynbuf, Pmap, Songs, Transfer, Pinentry, Pipes, SequenceTheorems, TLAPS

-----------------------------------------------------------------------------
(* Arena *)

ArenaIInv == ArenaAssumption /\ ArenaTypeOK /\ Stacked /\ Kept

Block == [at : Nat, size : Sizes, val : Values \cup {Zero, Undefined}]

\* What the types mean for the blocks.
LEMMA ArenaTyped ==
  ASSUME ArenaIInv
  PROVE  /\ blocks \in Seq(Block) /\ Len(blocks) \in Nat /\ DOMAIN blocks = 1 .. Len(blocks)
         /\ {data, free, capacity, Capacity} \subseteq Nat /\ Sizes \subseteq Nat
         /\ \A k \in DOMAIN blocks : blocks[k] \in Block /\ {blocks[k].at, blocks[k].size} \subseteq Nat
<1>1. blocks \in Seq(Block) /\ {data, free, capacity, Capacity} \subseteq Nat /\ Sizes \subseteq Nat
  BY DEF ArenaAssumption, ArenaIInv, ArenaTypeOK, Block
<1>2. \A k \in DOMAIN blocks : blocks[k] \in Block
  BY <1>1
<1>3. \A b \in Block : {b.at, b.size} \subseteq Nat
  BY <1>1 DEF Block
<1>. QED
  BY <1>1, <1>2, <1>3

\* What cutting a block off does to the blocks: the new one is the last.
LEMMA CutProperties ==
  ASSUME ArenaIInv, up, NEW n \in Sizes, n <= free, NEW v \in Values \cup {Zero, Undefined}, Cut(n, v)
  PROVE  /\ blocks' \in Seq(Block)
         /\ Len(blocks') = Len(blocks) + 1
         /\ \A k \in DOMAIN blocks : blocks'[k] = blocks[k]
         /\ blocks'[Len(blocks')] = [at |-> data, size |-> n, val |-> v]
         /\ data' = data + n /\ free' = free - n
         /\ {data', free'} \subseteq Nat
<1> DEFINE b == [at |-> data, size |-> n, val |-> v]
<1>1. blocks \in Seq(Block) /\ {data, free, n} \subseteq Nat /\ b \in Block
  BY DEF ArenaIInv, ArenaTypeOK, ArenaAssumption, Block
<1>2. blocks' = Append(blocks, b) /\ data' = data + n /\ free' = free - n
  BY DEF Cut, Pointer
<1> HIDE DEF b
<1>3. blocks' \in Seq(Block) /\ Len(blocks') = Len(blocks) + 1 /\ blocks'[Len(blocks')] = b
  BY <1>1, <1>2
<1>4. \A k \in DOMAIN blocks : blocks'[k] = blocks[k]
  BY <1>1, <1>2
<1>5. {data', free'} \subseteq Nat
  BY <1>1, <1>2
<1>. QED
  BY <1>2, <1>3, <1>4, <1>5 DEF b

\* So the stack remains one.
LEMMA CutStacks ==
  ASSUME ArenaIInv, up, NEW n \in Sizes, n <= free, NEW v \in Values \cup {Zero, Undefined}, Cut(n, v),
         UNCHANGED <<capacity, up>>
  PROVE  Stacked'
<1>1. /\ blocks' \in Seq(Block) /\ Len(blocks') = Len(blocks) + 1
      /\ \A k \in DOMAIN blocks : blocks'[k] = blocks[k]
      /\ blocks'[Len(blocks')] = [at |-> data, size |-> n, val |-> v]
      /\ data' = data + n /\ free' = free - n
  BY CutProperties
<1>2. /\ capacity = Capacity /\ data + free = capacity /\ {data, free, n, capacity} \subseteq Nat
      /\ \A k \in DOMAIN blocks : {blocks[k].at, blocks[k].size} \subseteq Nat
  BY ArenaTyped DEF Stacked, ArenaIInv
<1>3. capacity' = Capacity /\ data' + free' = capacity'
  BY <1>1, <1>2
<1>4. blocks' # <<>> /\ DOMAIN blocks = 1 .. Len(blocks) /\ DOMAIN blocks' = 1 .. Len(blocks) + 1 /\ Len(blocks) \in Nat
  BY <1>1 DEF ArenaIInv, ArenaTypeOK
<1>5. ASSUME NEW k \in DOMAIN blocks'
      PROVE  /\ k = 1 => blocks'[k].at = 0
             /\ k = Len(blocks') => blocks'[k].at + blocks'[k].size = data'
             /\ blocks'[k].at + blocks'[k].size <= data'
  <2>1. CASE k \in DOMAIN blocks
    <3>1. /\ k = 1 => blocks[k].at = 0
          /\ blocks[k].at + blocks[k].size <= data /\ blocks[k].at \in Nat /\ blocks[k].size \in Nat
      BY <1>2, <2>1 DEF ArenaIInv, Stacked
    <3>2. blocks'[k] = blocks[k] /\ k # Len(blocks')
      BY <1>1, <1>4, <2>1
    <3>3. data \in Nat /\ n \in Nat /\ data' = data + n
      BY <1>1, <1>2
    <3>. QED
      BY <3>1, <3>2, <3>3
  <2>2. CASE k = Len(blocks) + 1
    <3>1. k = 1 => data = 0
      BY <2>2, <1>4 DEF ArenaIInv, Stacked, ArenaTypeOK
    <3>. QED
      BY <3>1, <2>2, <1>1, <1>2
  <2>. QED
    BY <2>1, <2>2, <1>4
<1>6. ASSUME NEW k \in DOMAIN blocks', NEW l \in DOMAIN blocks'
      PROVE  /\ l = k + 1 => blocks'[k].at + blocks'[k].size = blocks'[l].at
             /\ k < l => blocks'[k].at + blocks'[k].size <= blocks'[l].at
  <2>1. CASE k \in DOMAIN blocks /\ l \in DOMAIN blocks
    BY <2>1, <1>1 DEF ArenaIInv, Stacked
  <2>2. CASE k \in DOMAIN blocks /\ l = Len(blocks) + 1
    <3>1. blocks'[k] = blocks[k] /\ blocks'[l].at = data
      BY <2>2, <1>1
    <3>2. /\ blocks[k].at + blocks[k].size <= data
          /\ k = Len(blocks) => blocks[k].at + blocks[k].size = data
      BY <2>2 DEF ArenaIInv, Stacked
    <3>. QED
      BY <3>1, <3>2, <2>2, <1>4
  <2>3. CASE k = Len(blocks) + 1
    BY <2>3, <1>4
  <2>. QED
    BY <2>1, <2>2, <2>3, <1>4
<1>. QED
  BY <1>3, <1>4, <1>5, <1>6 DEF Stacked

\* A block reaches to the pointer at most, which is inside the memory.
LEMMA Inside ==
  ASSUME ArenaIInv, NEW k \in DOMAIN blocks
  PROVE  /\ data <= Capacity /\ {data, free} \subseteq Nat
         /\ {blocks[k].at, blocks[k].size} \subseteq Nat
         /\ Of(blocks[k]) \subseteq 0 .. data - 1 /\ Of(blocks[k]) \subseteq Addresses
<1>1. blocks # <<>> /\ blocks[k] \in Block
  BY ArenaTyped
<1>2. /\ data + free = Capacity /\ {data, free, Capacity} \subseteq Nat
      /\ {blocks[k].at, blocks[k].size} \subseteq Nat
      /\ blocks[k].at + blocks[k].size <= data
  BY <1>1, ArenaTyped DEF ArenaIInv, Stacked
<1>. QED
  BY <1>2 DEF Of, Addresses

\* Blocks share no address.
LEMMA Disjoint ==
  ASSUME ArenaIInv, NEW k \in DOMAIN blocks, NEW l \in DOMAIN blocks, k # l
  PROVE  Of(blocks[k]) \cap Of(blocks[l]) = {}
<1>1. {blocks[k].at, blocks[k].size, blocks[l].at, blocks[l].size} \subseteq Nat /\ k \in Nat /\ l \in Nat
  BY Inside DEF ArenaIInv, ArenaTypeOK
<1>2. \/ blocks[k].at + blocks[k].size <= blocks[l].at
      \/ blocks[l].at + blocks[l].size <= blocks[k].at
  BY <1>1 DEF ArenaIInv, Stacked
<1>. QED
  BY <1>1, <1>2 DEF Of

LEMMA ArenaInitOK == ArenaAssumption /\ ArenaInit => ArenaIInv
BY DEF ArenaAssumption, ArenaInit, ArenaIInv, ArenaTypeOK, Stacked, Kept, Addresses

\* Alloc and Zalloc add a block and touch nothing that is in another one.
LEMMA CutKeeps ==
  ASSUME ArenaIInv, up, NEW n \in Sizes, n <= free, NEW v \in {Zero, Undefined}, Cut(n, v),
         UNCHANGED <<capacity, up>>,
         mem' = IF v = Zero THEN Set(data .. data + n - 1, Zero) ELSE mem
  PROVE  ArenaIInv'
<1>1. /\ blocks' \in Seq(Block) /\ Len(blocks') = Len(blocks) + 1
      /\ \A k \in DOMAIN blocks : blocks'[k] = blocks[k]
      /\ blocks'[Len(blocks')] = [at |-> data, size |-> n, val |-> v]
      /\ data' = data + n /\ free' = free - n /\ {data', free'} \subseteq Nat
  BY CutProperties
<1>2. /\ DOMAIN blocks = 1 .. Len(blocks) /\ DOMAIN blocks' = 1 .. Len(blocks) + 1 /\ Len(blocks) \in Nat
      /\ {data, free, n, Capacity} \subseteq Nat /\ data + free = Capacity
  BY <1>1, ArenaTyped DEF ArenaIInv, Stacked
<1>3. mem' \in [Addresses -> Values \cup {Zero}]
  BY DEF ArenaIInv, ArenaTypeOK, Set
<1>4. ArenaTypeOK'
  BY <1>1, <1>3 DEF ArenaIInv, ArenaTypeOK, Block
<1>5. Stacked'
  BY CutStacks
<1>6. ASSUME NEW k \in DOMAIN blocks'
      PROVE  /\ Of(blocks'[k]) \subseteq Addresses
             /\ blocks'[k].val # Undefined => \A a \in Of(blocks'[k]) : mem'[a] = blocks'[k].val
  <2>1. CASE k \in DOMAIN blocks
    <3>1. Of(blocks[k]) \subseteq 0 .. data - 1 /\ Of(blocks[k]) \subseteq Addresses
      BY <2>1, Inside
    <3>2. \A a \in Of(blocks[k]) : mem'[a] = mem[a]
      BY <3>1, <1>2 DEF Set, ArenaIInv, ArenaTypeOK
    <3>. QED
      BY <2>1, <3>1, <3>2, <1>1 DEF ArenaIInv, Kept
  <2>2. CASE k = Len(blocks) + 1
    <3>1. blocks'[k] = [at |-> data, size |-> n, val |-> v]
      BY <2>2, <1>1
    <3>2. Of(blocks'[k]) = data .. data + n - 1 /\ blocks'[k].val = v
      BY <3>1 DEF Of
    <3>3. data .. data + n - 1 \subseteq Addresses
      BY <1>2 DEF Addresses
    <3>. QED
      BY <3>2, <3>3 DEF Set
  <2>. QED
    BY <2>1, <2>2, <1>2
<1>. QED
  BY <1>4, <1>5, <1>6 DEF ArenaIInv, Kept

\* Giving back the last block leaves the others.
LEMMA FreeKeeps == ArenaIInv /\ FreeLast => ArenaIInv'
<1> SUFFICES ASSUME ArenaIInv, FreeLast PROVE ArenaIInv'
  OBVIOUS
<1> DEFINE m == Len(blocks) - 1
           n == blocks[Len(blocks)].size
<1>1. blocks \in Seq(Block) /\ blocks # <<>> /\ up
  BY ArenaTyped DEF FreeLast
<1>2. /\ m \in Nat /\ Len(blocks) = m + 1 /\ DOMAIN blocks = 1 .. m + 1
      /\ blocks' = SubSeq(blocks, 1, m)
  BY <1>1 DEF FreeLast
<1>3. /\ blocks' \in Seq(Block) /\ Len(blocks') = m /\ DOMAIN blocks' = 1 .. m
      /\ \A k \in 1 .. m : blocks'[k] = blocks[k]
  BY <1>1, <1>2
<1>4. /\ {data, free, n, Capacity, blocks[m + 1].at} \subseteq Nat /\ n = blocks[m + 1].size
      /\ data + free = Capacity /\ capacity = Capacity
      /\ blocks[m + 1].at + n = data
  <2>1. /\ {data, free, Capacity} \subseteq Nat /\ blocks[m + 1] \in Block
        /\ {blocks[m + 1].at, blocks[m + 1].size} \subseteq Nat
    BY <1>1, <1>2, ArenaTyped
  <2>2. data + free = Capacity /\ capacity = Capacity /\ blocks[m + 1].at + blocks[m + 1].size = data
    BY <1>1, <1>2 DEF ArenaIInv, Stacked
  <2>. QED
    BY <2>1, <2>2, <1>2
<1>5. data' = data - n /\ free' = free + n /\ UNCHANGED <<capacity, up, mem>>
  BY DEF FreeLast
<1>6. data' = blocks[m + 1].at /\ {data', free'} \subseteq Nat
  <2>1. \A p, q, w \in Nat : p + q = w => w - q = p
    OBVIOUS
  <2>2. data \in Nat /\ n \in Nat /\ free \in Nat /\ blocks[m + 1].at \in Nat
    BY <1>4
  <2>3. data - n = blocks[m + 1].at
    BY <2>1, <2>2, <1>4
  <2>4. free + n \in Nat
    BY <2>2
  <2>. QED
    BY <2>2, <2>3, <2>4, <1>5
<1>7. ArenaTypeOK'
  BY <1>3, <1>5, <1>6 DEF ArenaIInv, ArenaTypeOK, Block
<1>8. blocks' = <<>> => data' = 0
  BY <1>1, <1>2, <1>3, <1>6 DEF ArenaIInv, Stacked
<1>9. ASSUME NEW k \in 1 .. m
      PROVE  /\ k = 1 => blocks'[k].at = 0
             /\ k = m => blocks'[k].at + blocks'[k].size = data'
             /\ blocks'[k].at + blocks'[k].size <= data'
             /\ \A l \in 1 .. m :
                  /\ l = k + 1 => blocks'[k].at + blocks'[k].size = blocks'[l].at
                  /\ k < l => blocks'[k].at + blocks'[k].size <= blocks'[l].at
  <2>1. blocks'[k] = blocks[k] /\ k \in DOMAIN blocks /\ k < m + 1 /\ m + 1 \in DOMAIN blocks
    BY <1>2, <1>3
  <2>2. /\ k = 1 => blocks[k].at = 0
        /\ \A l \in DOMAIN blocks :
             /\ l = k + 1 => blocks[k].at + blocks[k].size = blocks[l].at
             /\ k < l => blocks[k].at + blocks[k].size <= blocks[l].at
    BY <2>1 DEF ArenaIInv, Stacked
  <2>3. \A l \in 1 .. m : l \in DOMAIN blocks /\ blocks'[l] = blocks[l]
    BY <1>2, <1>3
  <2>. QED
    BY <2>1, <2>2, <2>3, <1>6
<1>10. Stacked'
  <2>1. capacity' = Capacity /\ data' + free' = capacity'
    BY <1>4, <1>5
  <2>. QED
    BY <2>1, <1>3, <1>8, <1>9 DEF Stacked
<1>11. Kept'
  BY <1>2, <1>3, <1>5 DEF ArenaIInv, Kept
<1>. QED
  BY <1>7, <1>10, <1>11 DEF ArenaIInv

\* Filling a block changes no other one.
LEMMA FillKeeps ==
  ASSUME ArenaIInv, NEW k \in DOMAIN blocks, NEW v \in Values, Fill(k, v)
  PROVE  ArenaIInv'
<1>1. /\ blocks' = [blocks EXCEPT ![k].val = v] /\ mem' = Set(Of(blocks[k]), v)
      /\ UNCHANGED <<capacity, free, data, up>>
  BY DEF Fill
<1>2. blocks \in Seq(Block) /\ blocks[k] \in Block /\ k \in 1 .. Len(blocks)
  BY ArenaTyped
<1>3. /\ blocks' \in Seq(Block) /\ Len(blocks') = Len(blocks) /\ DOMAIN blocks' = DOMAIN blocks
      /\ \A l \in DOMAIN blocks :
           /\ blocks'[l].at = blocks[l].at /\ blocks'[l].size = blocks[l].size
           /\ blocks'[l].val = IF l = k THEN v ELSE blocks[l].val
  <2>1. [blocks[k] EXCEPT !.val = v] \in Block
    BY <1>2 DEF Block
  <2>2. blocks' = [blocks EXCEPT ![k] = [blocks[k] EXCEPT !.val = v]]
    BY <1>1
  <2>3. blocks' \in Seq(Block) /\ Len(blocks') = Len(blocks) /\ DOMAIN blocks' = DOMAIN blocks
    BY <2>1, <2>2, <1>2
  <2>4. blocks'[k] = [blocks[k] EXCEPT !.val = v]
    BY <2>2, <1>2
  <2>5. \A l \in DOMAIN blocks : l # k => blocks'[l] = blocks[l]
    BY <2>2, <1>2
  <2>6. /\ blocks'[k].at = blocks[k].at /\ blocks'[k].size = blocks[k].size /\ blocks'[k].val = v
    BY <2>4, <1>2 DEF Block
  <2>. QED
    BY <2>3, <2>5, <2>6
<1>4. ArenaTypeOK'
  BY <1>1, <1>3 DEF ArenaIInv, ArenaTypeOK, Block, Set
<1>5. blocks' = <<>> <=> blocks = <<>>
  BY <1>2, <1>3
<1>6. Stacked'
  BY <1>1, <1>3, <1>5 DEF ArenaIInv, Stacked
<1>7. ASSUME NEW l \in DOMAIN blocks
      PROVE  /\ Of(blocks'[l]) \subseteq Addresses
             /\ blocks'[l].val # Undefined => \A a \in Of(blocks'[l]) : mem'[a] = blocks'[l].val
  <2>1. Of(blocks'[l]) = Of(blocks[l])
    BY <1>3 DEF Of
  <2>2. Of(blocks[l]) \subseteq Addresses
    BY Inside
  <2>3. CASE l = k
    BY <2>1, <2>2, <2>3, <1>1, <1>3 DEF Set
  <2>4. CASE l # k
    <3>1. Of(blocks[k]) \cap Of(blocks[l]) = {}
      BY <2>4, Disjoint
    <3>2. \A a \in Of(blocks[l]) : mem'[a] = mem[a]
      BY <3>1, <2>2, <1>1 DEF Set
    <3>. QED
      BY <2>1, <2>2, <2>4, <3>2, <1>3 DEF ArenaIInv, Kept
  <2>. QED
    BY <2>3, <2>4
<1>8. Kept'
  BY <1>3, <1>7 DEF Kept
<1>. QED
  BY <1>4, <1>6, <1>8 DEF ArenaIInv

LEMMA ArenaStepOK == ArenaIInv /\ [ArenaNext]_arenaVars => ArenaIInv'
<1> SUFFICES ASSUME ArenaIInv, [ArenaNext]_arenaVars PROVE ArenaIInv'
  OBVIOUS
<1>1. ASSUME NEW n \in Sizes, Alloc(n) PROVE ArenaIInv'
  BY <1>1, CutKeeps DEF Alloc, Zero, Undefined
<1>2. ASSUME NEW n \in Sizes, Zalloc(n) PROVE ArenaIInv'
  BY <1>2, CutKeeps DEF Zalloc
<1>3. ASSUME NEW n \in Sizes, ZallocCrashes(n) PROVE ArenaIInv'
  BY <1>3 DEF ZallocCrashes, ArenaIInv, ArenaTypeOK, Stacked, Kept
<1>4. CASE FreeLast
  BY <1>4, FreeKeeps
<1>5. ASSUME Reset \/ Destroy PROVE ArenaIInv'
  <2>1. {data, free, Capacity} \subseteq Nat /\ data + free = capacity /\ capacity = Capacity
    BY <1>5, ArenaTyped DEF Reset, Destroy, ArenaIInv, Stacked
  <2>2. data' = 0 /\ blocks' = <<>> /\ mem' = mem
    BY <2>1, <1>5 DEF Reset, Destroy
  <2>3. /\ {capacity', free'} \subseteq Nat /\ up' \in BOOLEAN
        /\ up' => capacity' = Capacity /\ free' = Capacity
    <3>1. CASE Reset
      BY <2>1, <3>1 DEF Reset, ArenaIInv, ArenaTypeOK
    <3>2. CASE Destroy
      <4>1. ~up' /\ up' \in BOOLEAN
        BY <3>2, Zenon DEF Destroy
      <4>2. capacity' = 0 /\ free' = 0
        BY <3>2, Zenon DEF Destroy
      <4>. QED
        BY <4>1, <4>2
    <3>. QED
      BY <3>1, <3>2, <1>5
  <2>4. ArenaTypeOK'
    BY <2>2, <2>3 DEF ArenaIInv, ArenaTypeOK
  <2>5. Stacked'
    <3>1. up' => capacity' = Capacity /\ data' + free' = capacity'
      BY <2>1, <2>2, <2>3
    <3>. QED
      BY <3>1, <2>2 DEF Stacked
  <2>6. Kept'
    BY <2>2 DEF Kept
  <2>. QED
    BY <2>4, <2>5, <2>6 DEF ArenaIInv
<1>6. ASSUME NEW k \in DOMAIN blocks, NEW v \in Values, Fill(k, v) PROVE ArenaIInv'
  BY <1>6, FillKeeps
<1>7. CASE UNCHANGED arenaVars
  BY <1>7 DEF arenaVars, ArenaIInv, ArenaTypeOK, Stacked, Kept, Of
<1>. QED
  BY <1>1, <1>2, <1>3, <1>4, <1>5, <1>6, <1>7 DEF ArenaNext

\* Every block lies inside the memory and keeps what its owner put there or
\* Arena_zalloc cleared, in an arena of any capacity used with blocks of any
\* size: no call of arena.c touches a block that is still handed out.
THEOREM BlocksAreKept == ASSUME ArenaAssumption PROVE ArenaSpec => []ArenaKept
<1>1. ArenaIInv => ArenaKept
  BY DEF ArenaIInv, ArenaKept
<1>. QED
  BY ArenaInitOK, ArenaStepOK, <1>1, PTL DEF ArenaSpec

-----------------------------------------------------------------------------
(* Dynbuf *)

Storable == Elements \cup {Garbage}

DynbufIInv ==
  /\ count \in Nat /\ dynData \in Seq(Storable) /\ ideal \in Seq(Storable)
  /\ ptr \in {"NULL", "live", "freed"}
  /\ DynbufHolds

LEMMA StorableJoined ==
  ASSUME NEW s \in Seq(Storable), NEW t \in Seq(Storable)
  PROVE  /\ s \o t \in Seq(Storable) /\ Len(s \o t) = Len(s) + Len(t)
         /\ \A k \in 1 .. Len(s) : (s \o t)[k] = s[k]
         /\ \A k \in 1 .. Len(t) : (s \o t)[Len(s) + k] = t[k]
<1>1. s \o t \in Seq(Storable) /\ Len(s \o t) = Len(s) + Len(t)
  OBVIOUS
<1>2. \A k \in 1 .. Len(s) : (s \o t)[k] = s[k]
  OBVIOUS
<1>3. \A k \in 1 .. Len(t) : (s \o t)[Len(s) + k] = t[k]
  OBVIOUS
<1>. QED
  BY <1>1, <1>2, <1>3

\* The two ends of a sequence, up to unit a and behind unit b.
IsFront(x, s, a) == x \in Seq(Storable) /\ Len(x) = a /\ \A k \in 1 .. a : x[k] = s[k]
IsBack(y, s, b) ==
  y \in Seq(Storable) /\ Len(y) = Len(s) - b /\ \A k \in 1 .. Len(s) - b : y[k] = s[b + k]

LEMMA TwoEnds ==
  ASSUME NEW s \in Seq(Storable), NEW a \in Nat, a <= Len(s)
  PROVE  IsFront(SubSeq(s, 1, a), s, a) /\ IsBack(SubSeq(s, a + 1, Len(s)), s, a)
<1>1. Len(s) \in Nat
  OBVIOUS
<1>2. /\ SubSeq(s, 1, a) \in Seq(Storable) /\ Len(SubSeq(s, 1, a)) = a
      /\ \A k \in 1 .. a : SubSeq(s, 1, a)[k] = s[k]
  BY <1>1
<1>3. SubSeq(s, a + 1, Len(s)) \in Seq(Storable) /\ Len(SubSeq(s, a + 1, Len(s))) = Len(s) - a
  BY <1>1
<1>4. ASSUME NEW k \in 1 .. Len(s) - a PROVE SubSeq(s, a + 1, Len(s))[k] = s[a + k]
  <2>1. SubSeq(s, a + 1, Len(s))[k] = s[a + 1 + k - 1] /\ a + 1 + k - 1 = a + k
    BY <1>1
  <2>. QED
    BY <2>1
<1>. QED
  BY <1>2, <1>3, <1>4 DEF IsFront, IsBack

\* What an insertion and a deletion make of a sequence.
With(s, a, w) == SubSeq(s, 1, a) \o w \o SubSeq(s, a + 1, Len(s))
Without(s, a, n) == SubSeq(s, 1, a) \o SubSeq(s, a + n + 1, Len(s))

IsWith(t, s, a, w) ==
  /\ t \in Seq(Storable) /\ Len(t) = Len(s) + Len(w)
  /\ \A k \in 1 .. a : t[k] = s[k]
  /\ \A k \in a + 1 .. a + Len(w) : t[k] = w[k - a]
  /\ \A k \in a + Len(w) + 1 .. Len(s) + Len(w) : t[k] = s[k - Len(w)]

IsWithout(t, s, a, n) ==
  /\ t \in Seq(Storable) /\ Len(t) = Len(s) - n
  /\ \A k \in 1 .. a : t[k] = s[k]
  /\ \A k \in a + 1 .. Len(s) - n : t[k] = s[k + n]

LEMMA Inserted ==
  ASSUME NEW s \in Seq(Storable), NEW a \in Nat, a <= Len(s), NEW w \in Seq(Storable)
  PROVE  IsWith(With(s, a, w), s, a, w)
<1> DEFINE x == SubSeq(s, 1, a)
           y == SubSeq(s, a + 1, Len(s))
           u == x \o w
           t == u \o y
<1>1. PICK l \in Nat, m \in Nat : l = Len(s) /\ m = Len(w)
  OBVIOUS
<1>2. /\ x \in Seq(Storable) /\ Len(x) = a /\ \A k \in 1 .. a : x[k] = s[k]
      /\ y \in Seq(Storable) /\ Len(y) = l - a /\ \A k \in 1 .. l - a : y[k] = s[a + k]
  <2>1. IsFront(x, s, a) /\ IsBack(y, s, a)
    BY TwoEnds
  <2> HIDE DEF x, y
  <2>. QED
    BY <1>1, <2>1 DEF IsFront, IsBack
<1> HIDE DEF x, y
<1>3. /\ u \in Seq(Storable) /\ Len(u) = a + m /\ \A k \in 1 .. a : u[k] = x[k]
      /\ \A k \in 1 .. m : u[a + k] = w[k]
  <2>1. /\ u \in Seq(Storable) /\ Len(u) = Len(x) + Len(w) /\ \A k \in 1 .. Len(x) : u[k] = x[k]
        /\ \A k \in 1 .. Len(w) : u[Len(x) + k] = w[k]
    BY <1>2, StorableJoined
  <2>. QED
    BY <1>1, <1>2, <2>1
<1> HIDE DEF u
<1>4. /\ t \in Seq(Storable) /\ Len(t) = a + m + (l - a) /\ \A k \in 1 .. a + m : t[k] = u[k]
      /\ \A k \in 1 .. l - a : t[a + m + k] = y[k]
  <2>1. /\ t \in Seq(Storable) /\ Len(t) = Len(u) + Len(y) /\ \A k \in 1 .. Len(u) : t[k] = u[k]
        /\ \A k \in 1 .. Len(y) : t[Len(u) + k] = y[k]
    BY <1>2, <1>3, StorableJoined
  <2>. QED
    BY <1>2, <1>3, <2>1
<1> HIDE DEF t
<1>5. a + m + (l - a) = l + m /\ l - a \in Nat
  BY <1>1
<1>6. ASSUME NEW k \in 1 .. a PROVE t[k] = s[k]
  <2>1. k \in 1 .. a + m
    BY <1>1
  <2>. QED
    BY <1>2, <1>3, <1>4, <2>1
<1>7. ASSUME NEW k \in a + 1 .. a + m PROVE t[k] = w[k - a]
  <2>1. k \in 1 .. a + m /\ k - a \in 1 .. m /\ a + (k - a) = k
    OBVIOUS
  <2>2. u[a + (k - a)] = w[k - a]
    BY <1>3, <2>1
  <2>. QED
    BY <1>4, <2>1, <2>2
<1>8. ASSUME NEW k \in a + m + 1 .. l + m PROVE t[k] = s[k - m]
  <2>1. k - a - m \in 1 .. l - a /\ a + m + (k - a - m) = k /\ a + (k - a - m) = k - m
    BY <1>5
  <2>2. t[a + m + (k - a - m)] = y[k - a - m] /\ y[k - a - m] = s[a + (k - a - m)]
    BY <1>2, <1>4, <2>1
  <2>. QED
    BY <2>1, <2>2
<1>. QED
  BY <1>1, <1>4, <1>5, <1>6, <1>7, <1>8 DEF IsWith, With, t, u, x, y

LEMMA Deleted ==
  ASSUME NEW s \in Seq(Storable), NEW a \in Nat, NEW n \in Nat, a + n <= Len(s)
  PROVE  IsWithout(Without(s, a, n), s, a, n)
<1> DEFINE x == SubSeq(s, 1, a)
           y == SubSeq(s, a + n + 1, Len(s))
           t == x \o y
<1>1. PICK l \in Nat : l = Len(s) /\ a <= l /\ a + n <= l /\ a + n \in Nat
  OBVIOUS
<1>2. /\ x \in Seq(Storable) /\ Len(x) = a /\ \A k \in 1 .. a : x[k] = s[k]
      /\ y \in Seq(Storable) /\ Len(y) = l - (a + n) /\ \A k \in 1 .. l - (a + n) : y[k] = s[a + n + k]
  <2>1. IsFront(x, s, a)
    BY <1>1, TwoEnds
  <2>2. PICK b \in Nat : b = a + n
    OBVIOUS
  <2>3. IsBack(SubSeq(s, b + 1, Len(s)), s, b)
    BY <1>1, <2>2, TwoEnds
  <2>4. IsBack(y, s, a + n)
    BY <2>2, <2>3
  <2> HIDE DEF x, y
  <2>. QED
    BY <1>1, <2>1, <2>4 DEF IsFront, IsBack
<1> HIDE DEF x, y
<1>3. /\ t \in Seq(Storable) /\ Len(t) = a + (l - (a + n)) /\ \A k \in 1 .. a : t[k] = x[k]
      /\ \A k \in 1 .. l - (a + n) : t[a + k] = y[k]
  <2>1. /\ t \in Seq(Storable) /\ Len(t) = Len(x) + Len(y) /\ \A k \in 1 .. Len(x) : t[k] = x[k]
        /\ \A k \in 1 .. Len(y) : t[Len(x) + k] = y[k]
    BY <1>2, StorableJoined
  <2>. QED
    BY <1>2, <2>1
<1> HIDE DEF t
<1>4. a + (l - (a + n)) = l - n
  OBVIOUS
<1>5. ASSUME NEW k \in a + 1 .. l - n PROVE t[k] = s[k + n]
  <2>1. k - a \in 1 .. l - (a + n) /\ a + (k - a) = k /\ a + n + (k - a) = k + n
    OBVIOUS
  <2>2. t[a + (k - a)] = y[k - a] /\ y[k - a] = s[a + n + (k - a)]
    BY <1>2, <1>3, <2>1
  <2>. QED
    BY <2>1, <2>2
<1>. QED
  BY <1>1, <1>2, <1>3, <1>4, <1>5 DEF IsWithout, Without, t, x, y

\* reallocarray either frees, or fails and leaves the memory, or gives memory
\* with what was in the old one.
Freed(r, n) == n = 0 /\ r.ret = -1 /\ r.ptr = "freed" /\ r.mem = <<>>
Failed(r, old) == r.ret = -1 /\ r.ptr = ptr /\ r.mem = old
Granted(r, old, n) ==
  /\ r.ret = 0 /\ r.ptr = "live" /\ r.mem \in Seq(Storable) /\ Len(r.mem) = n
  /\ \A k \in 1 .. n : r.mem[k] = IF k <= Len(old) THEN old[k] ELSE Garbage

LEMMA Reallocated ==
  ASSUME NEW old \in Seq(Storable), NEW n \in Nat, NEW fails \in BOOLEAN
  PROVE  LET r == Realloc(old, n, fails) IN Freed(r, n) \/ Failed(r, old) \/ Granted(r, old, n)
<1> DEFINE r == Realloc(old, n, fails)
           larger == [k \in 1 .. n |-> IF k <= Len(old) THEN old[k] ELSE Garbage]
<1>1. larger \in Seq(Storable) /\ Len(larger) = n
  <2>1. \A k \in 1 .. n : k <= Len(old) => old[k] \in Storable
    OBVIOUS
  <2>2. Garbage \in Storable
    BY DEF Storable
  <2>3. larger \in [1 .. n -> Storable]
    BY <2>1, <2>2
  <2>. QED
    BY <2>3
<1>2. \/ r = [ret |-> -1, ptr |-> "freed", mem |-> <<>>] /\ n = 0
      \/ r = [ret |-> -1, ptr |-> ptr, mem |-> old]
      \/ r = [ret |-> 0, ptr |-> "live", mem |-> larger]
  BY DEF Realloc
<1>3. r = [ret |-> 0, ptr |-> "live", mem |-> larger] => Granted(r, old, n)
  BY <1>1 DEF Granted
<1> HIDE DEF r
<1>. QED
  BY <1>2, <1>3 DEF Freed, Failed, r

IsMoved(t, old, to, from, n) ==
  /\ t \in Seq(Storable) /\ Len(t) = Len(old)
  /\ \A k \in 1 .. Len(old) : t[k] = IF k \in to + 1 .. to + n THEN old[k - to + from] ELSE old[k]
IsWritten(t, old, to, w) ==
  /\ t \in Seq(Storable) /\ Len(t) = Len(old)
  /\ \A k \in 1 .. Len(old) : t[k] = IF k \in to + 1 .. to + Len(w) THEN w[k - to] ELSE old[k]

LEMMA AfterMove ==
  ASSUME NEW old \in Seq(Storable), NEW to \in Nat, NEW from \in Nat, NEW n \in Int, from + n <= Len(old)
  PROVE  IsMoved(Move(old, to, from, n), old, to, from, n)
<1>1. PICK l \in Nat : l = Len(old) /\ DOMAIN old = 1 .. l
  OBVIOUS
<1>2. \A k \in 1 .. l : old[k] \in Storable
  BY <1>1
<1>3. Move(old, to, from, n) \in [1 .. l -> Storable]
  <2>1. \A k \in to + 1 .. to + n : k - to + from \in 1 .. l
    BY <1>1
  <2>. QED
    BY <1>1, <1>2, <2>1 DEF Move
<1>4. \A k \in 1 .. l : Move(old, to, from, n)[k] = IF k \in to + 1 .. to + n THEN old[k - to + from] ELSE old[k]
  BY <1>1 DEF Move
<1>5. \A f \in [1 .. l -> Storable] : f \in Seq(Storable) /\ Len(f) = l
  OBVIOUS
<1>. QED
  BY <1>1, <1>3, <1>4, <1>5 DEF IsMoved

LEMMA AfterWrite ==
  ASSUME NEW old \in Seq(Storable), NEW to \in Nat, NEW w \in Seq(Storable)
  PROVE  IsWritten(Write(old, to, w), old, to, w)
<1>1. PICK l \in Nat, m \in Nat : l = Len(old) /\ DOMAIN old = 1 .. l /\ m = Len(w)
  OBVIOUS
<1>2. \A k \in 1 .. l : old[k] \in Storable
  BY <1>1
<1>3. \A k \in 1 .. m : w[k] \in Storable
  BY <1>1
<1>4. Write(old, to, w) \in [1 .. l -> Storable]
  <2>1. \A k \in to + 1 .. to + m : k - to \in 1 .. m
    BY <1>1
  <2>. QED
    BY <1>1, <1>2, <1>3, <2>1 DEF Write
<1>5. \A k \in 1 .. l : Write(old, to, w)[k] = IF k \in to + 1 .. to + Len(w) THEN w[k - to] ELSE old[k]
  BY <1>1 DEF Write
<1>6. \A f \in [1 .. l -> Storable] : f \in Seq(Storable) /\ Len(f) = l
  OBVIOUS
<1>. QED
  BY <1>1, <1>4, <1>5, <1>6 DEF IsWritten

\* Memory that was changed in place, or not at all, holds what it should.
LEMMA StillHolds ==
  ASSUME dynData' \in Seq(Storable), ideal' \in Seq(Storable), count' \in Nat, ptr' \in {"NULL", "live"},
         count' = Len(ideal'), count' <= Len(dynData'),
         \A k \in 1 .. count' : ideal'[k] # Garbage => dynData'[k] = ideal'[k]
  PROVE  DynbufIInv'
BY DEF DynbufIInv, DynbufHolds

LEMMA FailsKeeps ==
  ASSUME DynbufIInv, ptr # "freed", dynData' = dynData, ptr' = ptr, count' = count, ideal' = ideal
  PROVE  DynbufIInv'
BY DEF DynbufIInv, DynbufHolds

LEMMA FreedKeeps ==
  ASSUME DynbufIInv, ptr # "freed", dynData' = <<>>, ptr' = "freed", dynRet' = -1, count' \in Nat,
         ideal' \in Seq(Storable), ideal' = <<>> \/ count' = Len(ideal')
  PROVE  DynbufIInv'
BY DEF DynbufIInv, DynbufHolds

LEMMA ResizeKeeps ==
  ASSUME DynbufIInv, NEW n \in Nat, NEW fails \in BOOLEAN, Resize(n, fails)
  PROVE  DynbufIInv'
<1> DEFINE r == Realloc(dynData, n, fails)
<1>1. /\ ptr # "freed" /\ dynData' = r.mem /\ ptr' = r.ptr /\ dynRet' = r.ret
      /\ count' = IF r.ret = 0 THEN n ELSE count
      /\ ideal' = IF r.ret = 0
                  THEN [k \in 1 .. n |-> IF k <= Len(ideal) THEN ideal[k] ELSE Garbage] ELSE ideal
  BY DEF Resize
<1>2. /\ dynData \in Seq(Storable) /\ ideal \in Seq(Storable) /\ count \in Nat /\ count = Len(ideal)
      /\ count <= Len(dynData) /\ \A k \in 1 .. count : ideal[k] # Garbage => dynData[k] = ideal[k]
  BY <1>1 DEF DynbufIInv, DynbufHolds
<1>3. Freed(r, n) \/ Failed(r, dynData) \/ Granted(r, dynData, n)
  BY <1>2, Reallocated
<1> HIDE DEF r
<1>4. CASE Freed(r, n)
  BY <1>1, <1>2, <1>4, FreedKeeps DEF Freed
<1>5. CASE Failed(r, dynData)
  BY <1>1, <1>5, FailsKeeps DEF Failed
<1>6. CASE Granted(r, dynData, n)
  <2> DEFINE larger == [k \in 1 .. n |-> IF k <= Len(ideal) THEN ideal[k] ELSE Garbage]
  <2>1. /\ dynData' \in Seq(Storable) /\ Len(dynData') = n /\ ptr' = "live" /\ count' = n /\ ideal' = larger
        /\ \A k \in 1 .. n : dynData'[k] = IF k <= Len(dynData) THEN dynData[k] ELSE Garbage
    BY <1>1, <1>6 DEF Granted
  <2>2. larger \in Seq(Storable) /\ Len(larger) = n
    <3>1. \A k \in 1 .. n : k <= Len(ideal) => ideal[k] \in Storable
      BY <1>2
    <3>2. larger \in [1 .. n -> Storable]
      BY <3>1 DEF Storable
    <3>. QED
      BY <3>2
  <2>3. ASSUME NEW k \in 1 .. n, ideal'[k] # Garbage PROVE dynData'[k] = ideal'[k]
    <3>1. k <= Len(ideal) /\ ideal'[k] = ideal[k]
      BY <2>1, <2>3
    <3>2. k \in 1 .. count /\ k <= Len(dynData)
      BY <1>2, <3>1
    <3>. QED
      BY <1>2, <2>1, <2>3, <3>1, <3>2
  <2> HIDE DEF larger
  <2>. QED
    BY <2>1, <2>2, <2>3, StillHolds
<1>. QED
  BY <1>3, <1>4, <1>5, <1>6

LEMMA InsertKeeps ==
  ASSUME DynbufIInv, NEW pos \in Nat, NEW w \in Seq(Storable), NEW fails \in BOOLEAN, w # <<>>,
         Insert(pos, w, fails)
  PROVE  DynbufIInv'
<1>1. PICK c \in Nat, m \in Nat \ {0}, l \in Nat : c = count /\ m = Len(w) /\ l = Len(dynData)
  BY DEF DynbufIInv
<1> DEFINE r == Realloc(dynData, c + m, fails)
           moved == Move(r.mem, pos + m, pos, c - pos)
           old == IF pos < c THEN moved ELSE r.mem
<1>2. /\ ptr # "freed" /\ pos <= c /\ ptr' = r.ptr /\ dynRet' = r.ret
      /\ dynData' = IF r.ret = 0 THEN Write(old, pos, w) ELSE r.mem
      /\ count' = IF r.ret = 0 THEN c + m ELSE c
      /\ ideal' = IF r.ret = 0 THEN SubSeq(ideal, 1, pos) \o w \o SubSeq(ideal, pos + 1, Len(ideal))
                  ELSE ideal
  BY <1>1 DEF Insert, MoveCount
<1>3. /\ dynData \in Seq(Storable) /\ ideal \in Seq(Storable) /\ c = Len(ideal)
      /\ c <= l /\ \A k \in 1 .. c : ideal[k] # Garbage => dynData[k] = ideal[k]
  BY <1>1, <1>2 DEF DynbufIInv, DynbufHolds
<1>4. Freed(r, c + m) \/ Failed(r, dynData) \/ Granted(r, dynData, c + m)
  <2>1. c + m \in Nat
    OBVIOUS
  <2>. QED
    BY <1>3, <2>1, Reallocated
<1> HIDE DEF r
<1>5. ~Freed(r, c + m)
  BY DEF Freed
<1>6. CASE Failed(r, dynData)
  BY <1>1, <1>2, <1>6, FailsKeeps DEF Failed
<1>7. CASE Granted(r, dynData, c + m)
  <2>1. /\ r.mem \in Seq(Storable) /\ Len(r.mem) = c + m /\ r.ret = 0 /\ r.ptr = "live"
        /\ \A k \in 1 .. c + m : r.mem[k] = IF k <= l THEN dynData[k] ELSE Garbage
    BY <1>1, <1>7 DEF Granted
  <2>2. /\ old \in Seq(Storable) /\ Len(old) = c + m
        /\ \A k \in 1 .. pos : old[k] = dynData[k]
        /\ \A k \in pos + m + 1 .. c + m : old[k] = dynData[k - m]
    <3>1. CASE pos < c
      <4>1. pos + m \in Nat /\ c - pos \in Int /\ pos + (c - pos) <= c + m
        BY <1>1
      <4>2. /\ moved \in Seq(Storable) /\ Len(moved) = c + m
            /\ \A k \in 1 .. c + m :
                 moved[k] = IF k \in pos + m + 1 .. pos + m + (c - pos) THEN r.mem[k - (pos + m) + pos] ELSE r.mem[k]
        <5>1. pos + (c - pos) <= Len(r.mem)
          BY <2>1, <4>1
        <5>2. IsMoved(moved, r.mem, pos + m, pos, c - pos)
          BY <2>1, <4>1, <5>1, AfterMove
        <5> HIDE DEF moved
        <5>. QED
          BY <2>1, <5>2 DEF IsMoved
      <4> HIDE DEF moved
      <4>3. ASSUME NEW k \in 1 .. pos PROVE moved[k] = dynData[k]
        <5>1. k \in 1 .. c + m /\ k \notin pos + m + 1 .. pos + m + (c - pos) /\ k <= l
          BY <1>2, <1>3
        <5>. QED
          BY <2>1, <4>2, <5>1
      <4>4. ASSUME NEW k \in pos + m + 1 .. c + m PROVE moved[k] = dynData[k - m]
        <5>1. /\ k \in 1 .. c + m /\ k \in pos + m + 1 .. pos + m + (c - pos) /\ k - (pos + m) + pos = k - m
              /\ k - m \in 1 .. c + m /\ k - m <= l
          BY <1>3
        <5>. QED
          BY <2>1, <4>2, <5>1
      <4>. QED
        BY <3>1, <4>2, <4>3, <4>4
    <3>2. CASE ~(pos < c)
      <4>1. pos = c
        BY <1>2, <3>2
      <4>2. \A k \in 1 .. pos : k \in 1 .. c + m /\ k <= l
        BY <1>3, <4>1
      <4>3. \A k \in pos + m + 1 .. c + m : FALSE
        BY <4>1
      <4>. QED
        BY <2>1, <3>2, <4>2, <4>3
    <3>. QED
      BY <3>1, <3>2
  <2> HIDE DEF old
  <2>3. /\ dynData' \in Seq(Storable) /\ Len(dynData') = c + m
        /\ \A k \in 1 .. c + m : dynData'[k] = IF k \in pos + 1 .. pos + m THEN w[k - pos] ELSE old[k]
    <3>1. dynData' = Write(old, pos, w)
      BY <1>2, <2>1 DEF old
    <3>2. IsWritten(dynData', old, pos, w)
      BY <2>2, <3>1, AfterWrite
    <3>. QED
      BY <1>1, <2>2, <3>2 DEF IsWritten
  <2>4. /\ ideal' \in Seq(Storable) /\ Len(ideal') = c + m
        /\ \A k \in 1 .. pos : ideal'[k] = ideal[k]
        /\ \A k \in pos + 1 .. pos + m : ideal'[k] = w[k - pos]
        /\ \A k \in pos + m + 1 .. c + m : ideal'[k] = ideal[k - m]
    <3>1. ideal' = With(ideal, pos, w) /\ pos <= Len(ideal)
      BY <1>2, <1>3, <2>1 DEF With
    <3>2. IsWith(ideal', ideal, pos, w)
      BY <1>3, <3>1, Inserted
    <3>. QED
      BY <1>1, <1>3, <3>2 DEF IsWith
  <2>5. ASSUME NEW k \in 1 .. c + m, ideal'[k] # Garbage PROVE dynData'[k] = ideal'[k]
    <3>1. CASE k \in 1 .. pos
      <4>1. k \in 1 .. c /\ k \notin pos + 1 .. pos + m
        BY <1>2, <3>1
      <4>2. ideal'[k] = ideal[k] /\ dynData'[k] = dynData[k]
        BY <2>2, <2>3, <2>4, <3>1, <4>1
      <4>. QED
        BY <1>3, <2>5, <4>1, <4>2
    <3>2. CASE k \in pos + 1 .. pos + m
      BY <2>3, <2>4, <3>2
    <3>3. CASE k \in pos + m + 1 .. c + m
      <4>1. k - m \in 1 .. c /\ k \notin pos + 1 .. pos + m
        BY <3>3
      <4>2. ideal'[k] = ideal[k - m] /\ dynData'[k] = dynData[k - m]
        BY <2>2, <2>3, <2>4, <3>3, <4>1
      <4>. QED
        BY <1>3, <2>5, <4>1, <4>2
    <3>. QED
      BY <3>1, <3>2, <3>3
  <2>6. count' = c + m /\ ptr' = "live"
    BY <1>2, <2>1
  <2>. QED
    BY <2>3, <2>4, <2>5, <2>6, StillHolds
<1>. QED
  BY <1>4, <1>5, <1>6, <1>7

LEMMA DeleteKeeps ==
  ASSUME DynbufIInv, NEW pos \in Nat, NEW n \in Nat \ {0}, NEW fails \in BOOLEAN, Delete(pos, n, fails)
  PROVE  DynbufIInv'
<1>1. PICK c \in Nat, l \in Nat : c = count /\ l = Len(dynData)
  BY DEF DynbufIInv
<1> DEFINE moved == Move(dynData, pos, pos + n, c - pos - n)
           r == Realloc(moved, c - n, fails)
<1>2. /\ ptr # "freed" /\ pos + n <= c /\ ptr' = r.ptr /\ dynRet' = r.ret
      /\ dynData' = r.mem /\ count' = c - n
      /\ ideal' = SubSeq(ideal, 1, pos) \o SubSeq(ideal, pos + n + 1, Len(ideal))
  BY <1>1 DEF Delete
<1>3. /\ dynData \in Seq(Storable) /\ ideal \in Seq(Storable) /\ c = Len(ideal)
      /\ c <= l /\ \A k \in 1 .. c : ideal[k] # Garbage => dynData[k] = ideal[k]
  BY <1>1, <1>2 DEF DynbufIInv, DynbufHolds
<1>4. /\ moved \in Seq(Storable) /\ Len(moved) = l
      /\ \A k \in 1 .. l :
           moved[k] = IF k \in pos + 1 .. pos + (c - pos - n) THEN dynData[k - pos + (pos + n)] ELSE dynData[k]
  <2>1. PICK from \in Nat, q \in Int : from = pos + n /\ q = c - pos - n
    OBVIOUS
  <2>2. from + q <= Len(dynData)
    BY <1>1, <1>3, <2>1
  <2>3. IsMoved(Move(dynData, pos, from, q), dynData, pos, from, q)
    BY <1>3, <2>2, AfterMove
  <2>4. IsMoved(moved, dynData, pos, pos + n, c - pos - n)
    BY <2>1, <2>3
  <2> HIDE DEF moved
  <2>. QED
    BY <1>1, <2>4 DEF IsMoved
<1> HIDE DEF moved
<1>5. /\ ideal' \in Seq(Storable) /\ Len(ideal') = c - n
      /\ \A k \in 1 .. pos : ideal'[k] = ideal[k]
      /\ \A k \in pos + 1 .. c - n : ideal'[k] = ideal[k + n]
  <2>1. ideal' = Without(ideal, pos, n) /\ n \in Nat /\ pos + n <= Len(ideal)
    BY <1>2, <1>3 DEF Without
  <2>2. IsWithout(ideal', ideal, pos, n)
    BY <1>3, <2>1, Deleted
  <2>. QED
    BY <1>3, <2>2 DEF IsWithout
<1>6. ASSUME NEW k \in 1 .. c - n, ideal'[k] # Garbage PROVE k <= l /\ moved[k] = ideal'[k]
  <2>1. k \in 1 .. l
    BY <1>3
  <2>2. CASE k \in 1 .. pos
    <3>1. k \in 1 .. c /\ k \notin pos + 1 .. pos + (c - pos - n)
      BY <1>2, <2>2
    <3>2. ideal'[k] = ideal[k] /\ moved[k] = dynData[k]
      BY <1>4, <1>5, <2>1, <2>2, <3>1
    <3>. QED
      BY <1>3, <1>6, <2>1, <3>1, <3>2
  <2>3. CASE k \in pos + 1 .. c - n
    <3>1. k + n \in 1 .. c /\ k \in pos + 1 .. pos + (c - pos - n) /\ k - pos + (pos + n) = k + n
      BY <2>3
    <3>2. ideal'[k] = ideal[k + n] /\ moved[k] = dynData[k + n]
      BY <1>4, <1>5, <2>1, <2>3, <3>1
    <3>. QED
      BY <1>3, <1>6, <2>1, <3>1, <3>2
  <2>. QED
    BY <2>2, <2>3
<1>7. Freed(r, c - n) \/ Failed(r, moved) \/ Granted(r, moved, c - n)
  <2>1. c - n \in Nat
    BY <1>2
  <2>. QED
    BY <1>4, <2>1, Reallocated
<1> HIDE DEF r
<1>8. CASE Freed(r, c - n)
  <2>1. c - n = 0
    BY <1>8 DEF Freed
  <2>2. ideal' = <<>> /\ count' \in Nat
    <3>1. Len(ideal') = 0 /\ ideal' \in Seq(Storable) /\ count' = 0
      BY <1>2, <1>5, <2>1
    <3>. QED
      BY <3>1
  <2>. QED
    BY <1>2, <1>5, <1>8, <2>2, FreedKeeps DEF Freed
<1>9. CASE Failed(r, moved)
  <2>1. ptr' \in {"NULL", "live"} /\ dynData' = moved
    BY <1>2, <1>9 DEF Failed, DynbufIInv
  <2>2. count' = c - n /\ pos + n <= c /\ c <= l
    BY <1>2, <1>3
  <2>3. count' \in Nat /\ count' <= l
    BY <2>2
  <2>. QED
    BY <1>2, <1>4, <1>5, <1>6, <2>1, <2>3, StillHolds
<1>10. CASE Granted(r, moved, c - n)
  <2>1. /\ dynData' \in Seq(Storable) /\ Len(dynData') = c - n /\ ptr' = "live"
        /\ \A k \in 1 .. c - n : dynData'[k] = IF k <= l THEN moved[k] ELSE Garbage
    BY <1>2, <1>4, <1>10 DEF Granted
  <2>2. count' \in Nat /\ count' <= c - n
    BY <1>2
  <2>3. \A k \in 1 .. count' : ideal'[k] # Garbage => dynData'[k] = ideal'[k]
    BY <1>2, <1>6, <2>1
  <2>. QED
    BY <1>2, <1>5, <2>1, <2>2, <2>3, StillHolds
<1>. QED
  BY <1>7, <1>8, <1>9, <1>10

LEMMA OverwriteKeeps ==
  ASSUME DynbufIInv, NEW pos \in Nat, NEW w \in Seq(Storable), Overwrite(pos, w)
  PROVE  DynbufIInv'
<1>1. PICK c \in Nat, l \in Nat, m \in Nat : c = count /\ l = Len(dynData) /\ m = Len(w)
  BY DEF DynbufIInv
<1>2. /\ ptr = "live" /\ pos + m <= c /\ dynData' = Write(dynData, pos, w) /\ ideal' = Write(ideal, pos, w)
      /\ count' = c /\ ptr' = "live"
  BY <1>1 DEF Overwrite
<1>3. /\ dynData \in Seq(Storable) /\ ideal \in Seq(Storable) /\ c = Len(ideal)
      /\ c <= l /\ \A k \in 1 .. c : ideal[k] # Garbage => dynData[k] = ideal[k]
  BY <1>1, <1>2 DEF DynbufIInv, DynbufHolds
<1>4. ASSUME NEW old \in Seq(Storable)
      PROVE  IsWritten(Write(old, pos, w), old, pos, w)
  BY AfterWrite
<1>5. /\ dynData' \in Seq(Storable) /\ Len(dynData') = l
      /\ \A k \in 1 .. l : dynData'[k] = IF k \in pos + 1 .. pos + m THEN w[k - pos] ELSE dynData[k]
  <2>1. IsWritten(dynData', dynData, pos, w)
    BY <1>2, <1>3, <1>4
  <2>. QED
    BY <1>1, <2>1 DEF IsWritten
<1>6. /\ ideal' \in Seq(Storable) /\ Len(ideal') = c
      /\ \A k \in 1 .. c : ideal'[k] = IF k \in pos + 1 .. pos + m THEN w[k - pos] ELSE ideal[k]
  <2>1. IsWritten(ideal', ideal, pos, w)
    BY <1>2, <1>3, <1>4
  <2>. QED
    BY <1>1, <1>3, <2>1 DEF IsWritten
<1>7. \A k \in 1 .. c : k \in 1 .. l
  BY <1>3
<1>8. \A k \in 1 .. c : ideal'[k] # Garbage => dynData'[k] = ideal'[k]
  BY <1>3, <1>5, <1>6, <1>7
<1>. QED
  BY <1>2, <1>3, <1>5, <1>6, <1>8, StillHolds

\* The buffer holds what was put there, for any elements and any number of them
\* (dynbuf.c:14-81).
THEOREM BufferHolds == DynbufSpec => []DynbufHolds
<1>1. DynbufInit => DynbufIInv
  <2> SUFFICES ASSUME DynbufInit PROVE DynbufIInv
    OBVIOUS
  <2>1. <<>> \in Seq(Storable) /\ Len(<<>>) = 0
    OBVIOUS
  <2>. QED
    BY <2>1 DEF DynbufInit, DynbufIInv, DynbufHolds
<1>2. DynbufIInv /\ [DynbufNext]_dynbufVars => DynbufIInv'
  <2> SUFFICES ASSUME DynbufIInv, [DynbufNext]_dynbufVars PROVE DynbufIInv'
    OBVIOUS
  <2>1. CASE DynbufNext
    <3>1. PICK pos \in 0 .. MaxCount, fails \in BOOLEAN :
            \/ Resize(pos, fails)
            \/ \E new \in News : Insert(pos, new, fails) \/ Overwrite(pos, new)
            \/ \E n \in 1 .. MaxCount : Delete(pos, n, fails)
      BY <2>1 DEF DynbufNext
    <3>2. pos \in Nat
      BY DynbufAssumption
    <3>3. CASE Resize(pos, fails)
      BY <3>2, <3>3, ResizeKeeps
    <3>4. ASSUME NEW new \in News, Insert(pos, new, fails) \/ Overwrite(pos, new) PROVE DynbufIInv'
      <4>1. PICK n \in 1 .. 2 : new \in [1 .. n -> Elements]
        BY DEF News
      <4>2. new \in Seq(Storable) /\ new # <<>>
        BY <4>1 DEF Storable
      <4>. QED
        BY <3>2, <3>4, <4>2, InsertKeeps, OverwriteKeeps
    <3>5. ASSUME NEW n \in 1 .. MaxCount, Delete(pos, n, fails) PROVE DynbufIInv'
      <4>1. n \in Nat \ {0}
        BY DynbufAssumption
      <4>. QED
        BY <3>2, <3>5, <4>1, DeleteKeeps
    <3>. QED
      BY <3>1, <3>3, <3>4, <3>5
  <2>2. CASE UNCHANGED dynbufVars
    BY <2>2 DEF dynbufVars, DynbufIInv, DynbufHolds
  <2>. QED
    BY <2>1, <2>2
<1>3. DynbufIInv => DynbufHolds
  BY DEF DynbufIInv
<1>. QED
  BY <1>1, <1>2, <1>3, PTL DEF DynbufSpec

-----------------------------------------------------------------------------
(* pmap *)

PmapTypeOK ==
  /\ pmapPc \in {"create", "join", "returned"}
  /\ at \in 1 .. Size + 1
  /\ thread \in [Index -> {"none", "runs", "ended", "joined"}]
  /\ array \in [Index -> {"given", "mapped"}]
  /\ ret \in {0, 1}

\* What is joined and mapped is what lies before `at`, once all threads exist.
Joined ==
  \A k \in Index :
    /\ thread[k] # "none"
    /\ k < at <=> array[k] = "mapped"
    /\ k < at <=> thread[k] = "joined"

Untouched == \A k \in Index : array[k] = "given" /\ thread[k] # "joined"

\* What the loops have done before `at` and what they have not done from it on.
Progress ==
  /\ pmapPc = "create" => ret = 1 /\ Untouched /\ \A k \in Index : k < at => thread[k] # "none"
  /\ pmapPc = "join" => Joined
  /\ pmapPc = "returned" =>
       IF ret = 0 THEN Joined /\ at = Size + 1 ELSE at <= Size /\ (Joined \/ Untouched)

PmapIInv == SizeAssumption /\ PmapTypeOK /\ Progress

LEMMA PmapInitOK == SizeAssumption /\ PmapInit => PmapIInv
BY DEF SizeAssumption, PmapInit, PmapIInv, PmapTypeOK, Progress, Untouched, Index

LEMMA PmapStepOK == PmapIInv /\ [PmapNext]_pmapVars => PmapIInv'
<1> SUFFICES ASSUME PmapIInv, [PmapNext]_pmapVars PROVE PmapIInv'
  OBVIOUS
<1> USE DEF PmapIInv, SizeAssumption, Index
<1>1. CASE Create
  BY <1>1 DEF Create, PmapTypeOK, Progress, Untouched
<1>2. CASE CreateFails
  BY <1>2 DEF CreateFails, PmapTypeOK, Progress, Untouched
<1>3. CASE AllCreated
  BY <1>3 DEF AllCreated, StartJoins, PmapTypeOK, Progress, Joined, Untouched
<1>4. CASE Join
  BY <1>4 DEF Join, PmapTypeOK, Progress, Joined
<1>5. CASE JoinFails
  BY <1>5 DEF JoinFails, PmapTypeOK, Progress, Joined
<1>6. CASE ReturnMapped
  BY <1>6 DEF ReturnMapped, PmapTypeOK, Progress, Joined
<1>7. ASSUME NEW k \in Index, Ends(k) PROVE PmapIInv'
  BY <1>7 DEF Ends, PmapTypeOK, Progress, Joined, Untouched
<1>8. CASE UNCHANGED pmapVars
  BY <1>8 DEF pmapVars, PmapTypeOK, Progress, Joined, Untouched
<1>. QED
  BY <1>1, <1>2, <1>3, <1>4, <1>5, <1>6, <1>7, <1>8 DEF PmapNext

\* pmap returns success if and only if every element is mapped, and what a
\* failure leaves mapped is a beginning of the array, nothing of it if a thread
\* could not be made (pthread-test.c:12-37).
THEOREM MapsInOrder == ASSUME SizeAssumption PROVE PmapSpec => []PmapPrefix
<1>1. PmapIInv => PmapPrefix
  BY DEF PmapIInv, SizeAssumption, PmapTypeOK, Progress, Joined, Untouched, PmapPrefix, Index
<1>. QED
  BY PmapInitOK, PmapStepOK, <1>1, PTL DEF PmapSpec

-----------------------------------------------------------------------------
(* The song database *)

SongsTypeOK ==
  /\ db \in [Stored -> [SongNames -> Requests \cup {None}]]
  /\ draft \in [Stored -> [SongNames -> Requests \cup {None}]]
  /\ tx \in Requests \cup {None}
  /\ req \in [Requests -> Asks \cup {[op |-> "none"]}]
  /\ songsPc \in [Requests -> {"idle", "begin", "info", "file", "commit", "single", "done", "answered", "lost"}]
  /\ ans \in [Requests -> {0, 200, 400, 404, 500}]

InTransaction == {"info", "file", "commit"}

\* What a request leaves in an entry.
New(r) == IF req[r].op = "PostSongs" THEN r ELSE None

\* Each request that has begun is of the kind its place says.
AskedFor ==
  \A r \in Requests :
    /\ songsPc[r] \in InTransaction \cup {"begin"} => req[r].op \in {"PostSongs", "DeleteSongsName"} /\ req[r].name \in SongNames
    /\ songsPc[r] = "single" => /\ req[r].name \in SongNames
                                /\ req[r].op \in {"Post", "Delete"} => req[r].kind \in {"User", "Stat"}
    /\ ans[r] # 0 => songsPc[r] = "answered"

\* At most one request is in a transaction, and its draft is the database with
\* the entries that it has written so far.
Drafted ==
  /\ \A r \in Requests : songsPc[r] \in InTransaction => tx = r
  /\ \A r \in Requests :
       /\ songsPc[r] = "info" => draft = db
       /\ songsPc[r] = "file" => draft = [db EXCEPT !["SongInfo"][req[r].name] = New(r)]
       /\ songsPc[r] = "commit" =>
            draft = [db EXCEPT !["SongInfo"][req[r].name] = New(r),
                               !["songfiles"][req[r].name] = New(r)]

\* Only requests whose writing is over have left anything in the database.
Settled ==
  \A kind \in Stored, n \in SongNames :
    db[kind][n] # None => songsPc[db[kind][n]] \in {"done", "answered", "lost"}

SongsIInv == SongsAssumption /\ SongsTypeOK /\ AskedFor /\ Drafted /\ Settled /\ SongsWhole

LEMMA SongsInitOK == SongsAssumption /\ SongsInit => SongsIInv
BY DEF SongsInit, Nothing, SongsIInv, SongsAssumption, SongsTypeOK, AskedFor, Drafted, Settled, SongsWhole, InTransaction, Stored

\* Nothing but the place and the answer of one request changes, and it is no
\* longer in a transaction.
LEMMA EndKeeps ==
  ASSUME SongsIInv, NEW r \in Requests, NEW code \in {200, 400, 404, 500}, songsPc[r] \notin {"answered", "lost"},
         songsPc[r] = "done" => code = 200,
         Answer(r, code), tx' = tx \/ tx' = None, UNCHANGED <<db, draft, req>>,
         \A q \in Requests \ {r} : songsPc[q] \in InTransaction => tx' = tx
  PROVE  SongsIInv'
<1>1. SongsTypeOK'
  BY DEF SongsIInv, SongsTypeOK, Answer, Step
<1>2. AskedFor'
  BY DEF SongsIInv, SongsTypeOK, AskedFor, Answer, Step, InTransaction
<1>3. Drafted'
  BY DEF SongsIInv, SongsTypeOK, Drafted, Answer, Step, New, InTransaction
<1>4. SongsWhole' /\ Settled'
  BY DEF SongsIInv, SongsTypeOK, SongsWhole, Settled, AskedFor, Answer, Step, SongsAssumption
<1>. QED
  BY <1>1, <1>2, <1>3, <1>4 DEF SongsIInv, SongsAssumption

LEMMA RollbackKeeps ==
  ASSUME SongsIInv, NEW r \in Requests, NEW code \in {404, 500}, songsPc[r] \in InTransaction, Rollback(r, code)
  PROVE  SongsIInv'
<1>1. \A q \in Requests \ {r} : songsPc[q] \notin InTransaction
  BY DEF SongsIInv, Drafted
<1>. QED
  BY <1>1, EndKeeps DEF Rollback, InTransaction

LEMMA StartKeeps ==
  ASSUME SongsIInv, NEW r \in Requests, Start(r)
  PROVE  SongsIInv'
<1>1. PICK q \in Asks :
        /\ Offered(q)
        /\ req' = [req EXCEPT ![r] = q]
        /\ IF q.op = "PostSongs" /\ q.form # "good"
           THEN Answer(r, IF q.form = "incomplete" THEN 400 ELSE 500)
           ELSE /\ Step(r, IF q.op \in {"PostSongs", "DeleteSongsName"} THEN "begin" ELSE "single")
                /\ UNCHANGED ans
  BY DEF Start
<1>2. /\ q.name \in SongNames /\ songsPc[r] = "idle" /\ UNCHANGED <<db, draft, tx>>
      /\ q.op \in {"Post", "Delete"} => q.kind \in {"User", "Stat"}
  BY <1>1 DEF Start, Asks, Offered
<1>3. PICK l \in {"begin", "single", "answered"}, a \in {0, 200, 400, 404, 500} :
        /\ songsPc' = [songsPc EXCEPT ![r] = l] /\ ans' = [ans EXCEPT ![r] = a]
        /\ l = "begin" => q.op \in {"PostSongs", "DeleteSongsName"}
        /\ a # 0 => l = "answered"
  BY <1>1, <1>2 DEF Answer, Step, SongsIInv, SongsTypeOK, AskedFor
<1>4. ans[r] = 0
  BY <1>2 DEF SongsIInv, SongsTypeOK, AskedFor
<1>5. SongsTypeOK'
  BY <1>1, <1>2, <1>3 DEF SongsIInv, SongsTypeOK
<1>6. AskedFor'
  BY <1>1, <1>2, <1>3 DEF SongsIInv, SongsTypeOK, AskedFor, InTransaction
<1>7. Drafted'
  BY <1>1, <1>2, <1>3 DEF SongsIInv, SongsTypeOK, Drafted, New, InTransaction
<1>8. SongsWhole' /\ Settled'
  BY <1>2, <1>3, <1>4, SMT DEF SongsIInv, SongsTypeOK, SongsWhole, Settled, SongsAssumption
<1>. QED
  BY <1>5, <1>6, <1>7, <1>8 DEF SongsIInv, SongsAssumption

LEMMA BeginKeeps ==
  ASSUME SongsIInv, NEW r \in Requests, Begin(r)
  PROVE  SongsIInv'
<1>1. \A q \in Requests : songsPc[q] \notin InTransaction
  BY DEF Begin, SongsIInv, Drafted, SongsAssumption
<1>2. SongsTypeOK'
  BY DEF SongsIInv, SongsTypeOK, Begin, Step
<1>3. AskedFor'
  BY DEF SongsIInv, SongsTypeOK, AskedFor, Begin, Step, InTransaction
<1>4. Drafted'
  BY <1>1 DEF SongsIInv, SongsTypeOK, Drafted, Begin, Step, InTransaction
<1>5. SongsWhole' /\ Settled'
  BY DEF SongsIInv, SongsTypeOK, SongsWhole, Settled, Begin, Step
<1>. QED
  BY <1>2, <1>3, <1>4, <1>5 DEF SongsIInv, SongsAssumption

\* A step of the transaction that writes to the draft.
LEMMA WriteKeeps ==
  ASSUME SongsIInv, NEW r \in Requests,
         \/ /\ songsPc[r] = "info" /\ songsPc' = [songsPc EXCEPT ![r] = "file"]
            /\ draft' = [draft EXCEPT !["SongInfo"][req[r].name] = New(r)]
         \/ /\ songsPc[r] = "file" /\ songsPc' = [songsPc EXCEPT ![r] = "commit"]
            /\ draft' = [draft EXCEPT !["songfiles"][req[r].name] = New(r)],
         UNCHANGED <<db, tx, req, ans>>
  PROVE  SongsIInv'
<1>1. /\ req[r].name \in SongNames /\ New(r) \in Requests \cup {None}
      /\ \A q \in Requests \ {r} : songsPc[q] \notin InTransaction
  BY DEF SongsIInv, AskedFor, Drafted, InTransaction, New
<1>2. SongsTypeOK'
  BY <1>1 DEF SongsIInv, SongsTypeOK, Stored
<1>3. AskedFor'
  BY DEF SongsIInv, SongsTypeOK, AskedFor, InTransaction
<1>4. Drafted'
  <2>1. \A q \in Requests : songsPc'[q] \in InTransaction => q = r /\ tx' = q
    BY <1>1 DEF SongsIInv, SongsTypeOK, Drafted, InTransaction
  <2>2. CASE songsPc[r] = "info"
    BY <2>1, <2>2, <1>1 DEF SongsIInv, SongsTypeOK, Drafted, InTransaction, New
  <2>3. CASE songsPc[r] = "file"
    <3>1. draft = [db EXCEPT !["SongInfo"][req[r].name] = New(r)]
      BY <2>3 DEF SongsIInv, Drafted
    <3>2. /\ songsPc' = [songsPc EXCEPT ![r] = "commit"]
          /\ draft' = [draft EXCEPT !["songfiles"][req[r].name] = New(r)]
      BY <2>3
    <3>3. draft' = [db EXCEPT !["SongInfo"][req[r].name] = New(r), !["songfiles"][req[r].name] = New(r)]
      BY <3>1, <3>2
    <3>4. /\ songsPc'[r] = "commit" /\ New(r)' = New(r)
          /\ draft' = [db' EXCEPT !["SongInfo"][req'[r].name] = New(r)', !["songfiles"][req'[r].name] = New(r)']
      <4>1. db' = db /\ req' = req /\ New(r)' = New(r)
        BY DEF New
      <4>2. songsPc'[r] = "commit"
        BY <3>2 DEF SongsIInv, SongsTypeOK
      <4>. QED
        BY <4>1, <4>2, <3>3
    <3>5. \A q \in Requests : songsPc'[q] \in InTransaction => q = r /\ tx' = q
      BY <2>1
    <3>. QED
      BY <3>4, <3>5, Zenon DEF Drafted, InTransaction
  <2>. QED
    BY <2>2, <2>3
<1>5. SongsWhole' /\ Settled'
  BY DEF SongsIInv, SongsTypeOK, SongsWhole, Settled
<1>. QED
  BY <1>2, <1>3, <1>4, <1>5 DEF SongsIInv, SongsAssumption

LEMMA CommitKeeps ==
  ASSUME SongsIInv, NEW r \in Requests, Commit(r)
  PROVE  SongsIInv'
<1> DEFINE n == req[r].name
<1>1. /\ n \in SongNames /\ New(r) \in {r, None} /\ ans[r] = 0
      /\ \A q \in Requests \ {r} : songsPc[q] \notin InTransaction
      /\ UNCHANGED <<draft, req>>
      /\ tx' = None /\ songsPc' = [songsPc EXCEPT ![r] = "done"] /\ ans' = ans
  BY DEF Commit, SongsIInv, SongsTypeOK, AskedFor, Drafted, InTransaction, New, Step
<1>2. db' = [db EXCEPT !["SongInfo"][n] = New(r), !["songfiles"][n] = New(r)]
  BY DEF Commit, SongsIInv, Drafted
<1>3. /\ db' \in [Stored -> [SongNames -> Requests \cup {None}]]
      /\ \A kind \in Stored, m \in SongNames :
           db'[kind][m] = IF kind \in {"SongInfo", "songfiles"} /\ m = n THEN New(r) ELSE db[kind][m]
  BY <1>1, <1>2 DEF SongsIInv, SongsTypeOK, Stored
<1>4. SongsTypeOK'
  BY <1>1, <1>3 DEF SongsIInv, SongsTypeOK
<1>5. AskedFor'
  BY <1>1 DEF SongsIInv, SongsTypeOK, AskedFor, InTransaction
<1>6. Drafted'
  BY <1>1 DEF SongsIInv, SongsTypeOK, Drafted, InTransaction
<1>7. SongsWhole' /\ Settled'
  BY <1>1, <1>3 DEF SongsIInv, SongsTypeOK, SongsWhole, Settled, Stored, SongsAssumption
<1>. QED
  BY <1>4, <1>5, <1>6, <1>7 DEF SongsIInv, SongsAssumption

\* A handler that writes one entry in one call.
LEMMA PutKeeps ==
  ASSUME SongsIInv, NEW r \in Requests, songsPc[r] = "single", req[r].op \in {"Post", "Delete"},
         NEW v \in {r, None}, Put(r, req[r].kind, v), Step(r, "done"),
         UNCHANGED <<draft, tx, req, ans>>
  PROVE  SongsIInv'
<1>1. /\ req[r].name \in SongNames /\ req[r].kind \in {"User", "Stat"} /\ ans[r] = 0
      /\ songsPc' = [songsPc EXCEPT ![r] = "done"] /\ ans' = ans
      /\ db' = [db EXCEPT ![req[r].kind][req[r].name] = v]
      /\ tx = None
  BY DEF SongsIInv, SongsTypeOK, AskedFor, Put, Step
<1>2. /\ db' \in [Stored -> [SongNames -> Requests \cup {None}]]
      /\ \A kind \in Stored, m \in SongNames :
           db'[kind][m] = IF kind = req[r].kind /\ m = req[r].name THEN v ELSE db[kind][m]
  BY <1>1 DEF SongsIInv, SongsTypeOK, Stored
<1>3. \A q \in Requests : songsPc[q] \notin InTransaction
  BY <1>1 DEF SongsIInv, Drafted, SongsAssumption
<1>4. SongsTypeOK'
  BY <1>1, <1>2 DEF SongsIInv, SongsTypeOK
<1>5. AskedFor'
  BY <1>1 DEF SongsIInv, SongsTypeOK, AskedFor, InTransaction
<1>6. Drafted'
  BY <1>1, <1>3 DEF SongsIInv, SongsTypeOK, Drafted, InTransaction
<1>7. SongsWhole' /\ Settled'
  <2>1. /\ songsPc'[r] = "done" /\ r # None
        /\ \A q \in Requests \ {r} : songsPc'[q] = songsPc[q]
    BY <1>1 DEF SongsIInv, SongsTypeOK, SongsAssumption
  <2>2. \A m \in SongNames : db'["SongInfo"][m] = db["SongInfo"][m] /\ db'["songfiles"][m] = db["songfiles"][m]
    BY <1>1, <1>2 DEF Stored
  <2>3. ASSUME NEW kind \in Stored, NEW m \in SongNames, db'[kind][m] # None
        PROVE  /\ ans[db'[kind][m]] \in {0, 200}
               /\ songsPc'[db'[kind][m]] \in {"done", "answered", "lost"}
    <3>1. db'[kind][m] = r \/ (db'[kind][m] = db[kind][m] /\ db[kind][m] \in Requests)
      BY <1>2, <2>3 DEF SongsIInv, SongsTypeOK
    <3>2. /\ ans[db[kind][m]] \in {0, 200} \/ db[kind][m] = None
          /\ songsPc[db[kind][m]] \in {"done", "answered", "lost"} \/ db[kind][m] = None
      BY DEF SongsIInv, SongsWhole, Settled
    <3>. QED
      BY <1>1, <2>1, <2>3, <3>1, <3>2
  <2>. QED
    BY <1>1, <2>2, <2>3 DEF SongsIInv, SongsWhole, Settled
<1>. QED
  BY <1>4, <1>5, <1>6, <1>7 DEF SongsIInv, SongsAssumption

LEMMA CrashKeeps ==
  ASSUME SongsIInv, Crash
  PROVE  SongsIInv'
<1>1. \A r \in Requests : songsPc'[r] \notin InTransaction \cup {"begin", "single", "done"}
  BY DEF Crash, SongsIInv, SongsTypeOK, InTransaction
<1>2. SongsTypeOK'
  BY DEF SongsIInv, SongsTypeOK, Crash
<1>3. AskedFor'
  BY <1>1 DEF SongsIInv, SongsTypeOK, AskedFor, Crash
<1>4. Drafted'
  BY <1>1 DEF Drafted, InTransaction
<1>5. SongsWhole' /\ Settled'
  BY DEF SongsIInv, SongsTypeOK, SongsWhole, Settled, SongsAssumption, Crash
<1>. QED
  BY <1>2, <1>3, <1>4, <1>5 DEF SongsIInv, SongsAssumption

LEMMA SongsStepOK == SongsIInv /\ [SongsNext]_songsVars => SongsIInv'
<1> SUFFICES ASSUME SongsIInv, [SongsNext]_songsVars PROVE SongsIInv'
  OBVIOUS
<1>1. CASE Crash
  BY <1>1, CrashKeeps
<1>2. ASSUME NEW r \in Requests, Start(r) \/ Begin(r) \/ Commit(r) PROVE SongsIInv'
  BY <1>2, StartKeeps, BeginKeeps, CommitKeeps
<1>3. ASSUME NEW r \in Requests, SaveInfo(r) \/ DeleteInfo(r) \/ WriteFile(r) PROVE SongsIInv'
  <2>1. CASE SaveInfo(r)
    BY <2>1, WriteKeeps DEF SaveInfo, Step, New
  <2>2. CASE DeleteInfo(r)
    BY <2>2, WriteKeeps, RollbackKeeps DEF DeleteInfo, Step, New, InTransaction
  <2>3. CASE WriteFile(r)
    BY <2>3, WriteKeeps DEF WriteFile, Step, New
  <2>. QED
    BY <1>3, <2>1, <2>2, <2>3
<1>4. ASSUME NEW r \in Requests, Fails(r) PROVE SongsIInv'
  BY <1>4, RollbackKeeps DEF Fails, InTransaction
<1>5. ASSUME NEW r \in Requests, PostOne(r) \/ DeleteOne(r) PROVE SongsIInv'
  <2>1. CASE PostOne(r)
    BY <2>1, PutKeeps DEF PostOne
  <2>2. CASE DeleteOne(r)
    BY <2>2, PutKeeps, EndKeeps DEF DeleteOne
  <2>. QED
    BY <1>5, <2>1, <2>2
<1>6. ASSUME NEW r \in Requests, GetOne(r) \/ GetAll(r) \/ FailsOne(r) \/ Acknowledge(r) PROVE SongsIInv'
  BY <1>6, EndKeeps DEF GetOne, GetAll, FailsOne, Acknowledge, SongsIInv, Drafted, InTransaction
<1>7. CASE UNCHANGED songsVars
  BY <1>7 DEF songsVars, SongsIInv, SongsAssumption, SongsTypeOK, AskedFor, Drafted, Settled, SongsWhole, New
<1>. QED
  BY <1>1, <1>2, <1>3, <1>4, <1>5, <1>6, <1>7 DEF SongsNext

\* A song has its info and its file, both of one upload, or neither, and nothing
\* is there of a request that was told of a failure, however many requests run
\* together, fail or are cut by a crash (main.go:51-83, 160-254).
THEOREM SongsAreWhole == ASSUME SongsAssumption PROVE SongsSpec => []SongsWhole
<1>1. SongsIInv => SongsWhole
  BY DEF SongsIInv
<1>. QED
  BY SongsInitOK, SongsStepOK, <1>1, PTL DEF SongsSpec

-----------------------------------------------------------------------------
(* Transfer *)

\* s is what units a + 1 to b of m are.
Part(s, m, a, b) ==
  s \in Seq(Byte) /\ Len(s) = b - a /\ \A k \in 1 .. b - a : s[k] = m[a + k]

LEMMA JoinedBytes ==
  ASSUME NEW s \in Seq(Byte), NEW t \in Seq(Byte)
  PROVE  /\ s \o t \in Seq(Byte) /\ Len(s \o t) = Len(s) + Len(t)
         /\ \A k \in 1 .. Len(s) : (s \o t)[k] = s[k]
         /\ \A k \in 1 .. Len(t) : (s \o t)[Len(s) + k] = t[k]
<1>1. s \o t \in Seq(Byte) /\ Len(s \o t) = Len(s) + Len(t)
  OBVIOUS
<1>2. \A k \in 1 .. Len(s) : (s \o t)[k] = s[k]
  OBVIOUS
<1>3. \A k \in 1 .. Len(t) : (s \o t)[Len(s) + k] = t[k]
  OBVIOUS
<1>. QED
  BY <1>1, <1>2, <1>3

LEMMA OneMore ==
  ASSUME NEW s \in Seq(Byte), NEW z \in Byte
  PROVE  /\ Append(s, z) \in Seq(Byte) /\ Len(Append(s, z)) = Len(s) + 1
         /\ \A k \in 1 .. Len(s) : Append(s, z)[k] = s[k]
         /\ Append(s, z)[Len(s) + 1] = z
OBVIOUS

LEMMA OneLess ==
  ASSUME NEW s \in Seq(Byte), s # <<>>
  PROVE  Head(s) = s[1] /\ Tail(s) = SubSeq(s, 1 + 1, Len(s)) /\ 1 <= Len(s)
<1>1. Head(s) = s[1] /\ 1 <= Len(s)
  OBVIOUS
<1>2. Tail(s) = SubSeq(s, 1 + 1, Len(s))
  OBVIOUS
<1>. QED
  BY <1>1, <1>2

LEMMA PartsJoined ==
  ASSUME NEW m, NEW s, NEW t, NEW a \in Nat, NEW b \in Nat, NEW c \in Nat,
         Part(s, m, a, b), Part(t, m, b, c)
  PROVE  Part(s \o t, m, a, c)
<1>1. /\ s \in Seq(Byte) /\ Len(s) = b - a /\ \A k \in 1 .. b - a : s[k] = m[a + k]
      /\ t \in Seq(Byte) /\ Len(t) = c - b /\ \A k \in 1 .. c - b : t[k] = m[b + k]
  BY DEF Part
<1>2. PICK u : u = s \o t
  OBVIOUS
<1>3. /\ u \in Seq(Byte) /\ Len(u) = Len(s) + Len(t) /\ \A k \in 1 .. Len(s) : u[k] = s[k]
      /\ \A k \in 1 .. Len(t) : u[Len(s) + k] = t[k]
  BY <1>1, <1>2, JoinedBytes
<1>4. a <= b /\ b <= c /\ b - a \in Nat /\ c - b \in Nat
  BY <1>1
<1>5. Len(u) = c - a
  BY <1>1, <1>3
<1>6. ASSUME NEW k \in 1 .. c - a PROVE u[k] = m[a + k]
  <2>1. CASE k \in 1 .. b - a
    BY <1>1, <1>3, <2>1
  <2>2. CASE k \notin 1 .. b - a
    <3>1. PICK j \in 1 .. c - b : k = b - a + j
      <4>1. k - (b - a) \in 1 .. c - b /\ k = b - a + (k - (b - a))
        BY <1>4, <2>2
      <4>. QED
        BY <4>1
    <3>2. u[b - a + j] = t[j] /\ t[j] = m[b + j]
      BY <1>1, <1>3
    <3>3. b + j = a + k
      BY <3>1
    <3>. QED
      BY <3>1, <3>2, <3>3
  <2>. QED
    BY <2>1, <2>2
<1>. QED
  BY <1>2, <1>3, <1>5, <1>6 DEF Part

LEMMA PartCut ==
  ASSUME NEW m, NEW s, NEW a \in Nat, NEW b \in Nat, NEW n \in Nat,
         n <= Len(s), Part(s, m, a, b)
  PROVE  Part(SubSeq(s, 1, n), m, a, a + n) /\ Part(SubSeq(s, n + 1, Len(s)), m, a + n, b)
<1>1. s \in Seq(Byte) /\ Len(s) = b - a /\ \A k \in 1 .. b - a : s[k] = m[a + k]
  BY DEF Part
<1>2. PICK l \in Nat : l = Len(s)
  BY <1>1
<1>3. /\ SubSeq(s, 1, n) \in Seq(Byte) /\ Len(SubSeq(s, 1, n)) = n
      /\ \A k \in 1 .. n : SubSeq(s, 1, n)[k] = s[k]
  BY <1>1, <1>2
<1>4. Part(SubSeq(s, 1, n), m, a, a + n)
  <2>1. a + n - a = n /\ \A k \in 1 .. n : k \in 1 .. b - a
    BY <1>1
  <2>. QED
    BY <1>1, <1>3, <2>1 DEF Part
<1>5. SubSeq(s, n + 1, l) \in Seq(Byte) /\ Len(SubSeq(s, n + 1, l)) = l - n
  BY <1>1, <1>2
<1>6. ASSUME NEW k \in 1 .. l - n PROVE SubSeq(s, n + 1, l)[k] = s[n + k]
  <2>1. SubSeq(s, n + 1, l)[k] = s[n + 1 + k - 1] /\ n + 1 + k - 1 = n + k
    BY <1>1, <1>2
  <2>. QED
    BY <2>1
<1>7. ASSUME NEW k \in 1 .. l - n PROVE SubSeq(s, n + 1, l)[k] = m[a + n + k]
  <2>1. n + k \in 1 .. l /\ a + (n + k) = a + n + k
    OBVIOUS
  <2>2. s[n + k] = m[a + (n + k)]
    BY <1>1, <1>2, <2>1
  <2>. QED
    BY <1>6, <2>1, <2>2
<1>8. l - n = b - (a + n)
  BY <1>1, <1>2
<1>. QED
  BY <1>2, <1>4, <1>5, <1>7, <1>8 DEF Part

LEMMA PartHead ==
  ASSUME NEW m, NEW s, NEW a \in Nat, NEW b \in Nat, s # <<>>, Part(s, m, a, b)
  PROVE  Head(s) = m[a + 1] /\ a + 1 <= b /\ Part(Tail(s), m, a + 1, b)
<1>1. s \in Seq(Byte) /\ Len(s) = b - a /\ \A k \in 1 .. b - a : s[k] = m[a + k]
  BY DEF Part
<1>2. Head(s) = s[1] /\ Tail(s) = SubSeq(s, 1 + 1, Len(s)) /\ 1 <= Len(s)
  BY <1>1, OneLess
<1>3. Part(SubSeq(s, 1 + 1, Len(s)), m, a + 1, b)
  BY <1>2, PartCut
<1>4. 1 \in 1 .. b - a /\ a + 1 <= b
  BY <1>1, <1>2
<1>. QED
  BY <1>1, <1>2, <1>3, <1>4

LEMMA PartLonger ==
  ASSUME NEW m, NEW s, NEW a \in Nat, NEW b \in Nat, m[b + 1] \in Byte, Part(s, m, a, b)
  PROVE  Part(Append(s, m[b + 1]), m, a, b + 1)
<1>1. s \in Seq(Byte) /\ Len(s) = b - a /\ \A k \in 1 .. b - a : s[k] = m[a + k]
  BY DEF Part
<1>2. PICK z \in Byte : z = m[b + 1]
  OBVIOUS
<1>3. PICK u : u = Append(s, z)
  OBVIOUS
<1>4. /\ u \in Seq(Byte) /\ Len(u) = Len(s) + 1 /\ \A k \in 1 .. Len(s) : u[k] = s[k]
      /\ u[Len(s) + 1] = z
  BY <1>1, <1>2, <1>3, OneMore
<1>5. Len(u) = b + 1 - a /\ a + (b - a + 1) = b + 1
  BY <1>1, <1>4
<1>6. ASSUME NEW k \in 1 .. b + 1 - a PROVE u[k] = m[a + k]
  <2>1. CASE k = b - a + 1
    BY <1>1, <1>2, <1>4, <1>5, <2>1
  <2>2. CASE k # b - a + 1
    <3>1. k \in 1 .. b - a
      BY <2>2
    <3>. QED
      BY <1>1, <1>4, <3>1
  <2>. QED
    BY <2>1, <2>2
<1>. QED
  BY <1>2, <1>3, <1>4, <1>5, <1>6 DEF Part

LEMMA PartSame ==
  ASSUME NEW m, NEW s, NEW t, NEW a \in Nat, NEW b \in Nat, Part(s, m, a, b), Part(t, m, a, b)
  PROVE  s = t
<1>1. /\ s \in Seq(Byte) /\ Len(s) = b - a /\ t \in Seq(Byte) /\ Len(t) = b - a
      /\ \A k \in 1 .. b - a : s[k] = t[k]
  BY DEF Part
<1>. QED
  BY <1>1, SeqEqual

-----------------------------------------------------------------------------

Stream == Message(content)
HeadLen == Len(ToBytes(Len(content)))

\* p units of the stream were read, and q sent.
Streamed(p, q) ==
  Part(wire, Stream, p, q) /\ (tosend = <<>> \/ Part(tosend, Stream, q, Len(Stream)))

Phase(p) ==
  \/ transferPc = "header" /\ printed = <<>> /\ p <= HeadLen /\ Part(acc, Stream, 0, p)
  \/ /\ transferPc = "data" /\ printed = <<>> /\ length = Len(content)
     /\ received \in 0 .. length /\ p = HeadLen + 1 + received /\ Part(acc, Stream, HeadLen + 1, p)
  \/ transferPc = "header" /\ printed = <<content>> /\ acc = <<>> /\ p = HeadLen + 1 + Len(content)
  \/ transferPc = "closed" /\ printed = <<content>>
  \/ transferPc = "raised" /\ printed \in {<<>>, <<content>>}

TransferIInv ==
  /\ content \in UNION {[1 .. n -> Byte] : n \in 1 .. MaxLength}
  /\ Framed => \E p, q \in 0 .. Len(Stream) : Streamed(p, q) /\ Phase(p)

LEMMA ContentIs ==
  ASSUME content \in UNION {[1 .. n -> Byte] : n \in 1 .. MaxLength}
  PROVE  content \in Seq(Byte) /\ Len(content) \in 1 .. MaxLength /\ Len(content) \in Nat /\ 0 \in Byte
<1>1. PICK n \in 1 .. MaxLength : content \in [1 .. n -> Byte]
  OBVIOUS
<1>2. n \in Nat /\ 1 \in 1 .. n
  BY ConversionAssumption
<1>3. content \in Seq(Byte) /\ Len(content) = n
  BY <1>1, <1>2
<1>4. content[1] \in Byte
  BY <1>1, <1>2
<1>5. 0 \in Byte
  BY <1>4, ConversionAssumption DEF Byte
<1>. QED
  BY <1>2, <1>3, <1>5

\* The length, a zero byte, the content, a zero byte.
LEMMA StreamIs ==
  ASSUME content \in UNION {[1 .. n -> Byte] : n \in 1 .. MaxLength}
  PROVE  /\ HeadLen \in Nat /\ Stream \in Seq(Byte) /\ Len(Stream) = HeadLen + 2 + Len(content)
         /\ Part(ToBytes(Len(content)), Stream, 0, HeadLen)
         /\ Part(content, Stream, HeadLen + 1, HeadLen + 1 + Len(content))
         /\ Stream[HeadLen + 1] = 0 /\ Stream[HeadLen + 2 + Len(content)] = 0
<1> DEFINE head == ToBytes(Len(content))
           x == head \o <<0>>
           y == x \o content
           z == y \o <<0>>
           e == <<0>>
<1>1. PICK n \in 1 .. MaxLength : n \in Nat /\ n = Len(content) /\ content \in Seq(Byte) /\ 0 \in Byte
  BY ContentIs
<1>2. head \in Seq(Byte)
  BY <1>1, ConversionAssumption
<1>3. PICK h \in Nat : h = Len(head)
  BY <1>2
<1>4. e \in Seq(Byte) /\ Len(e) = 1 /\ e[1] = 0
  BY <1>1
<1> HIDE DEF head, e
<1>5. /\ x \in Seq(Byte) /\ Len(x) = h + 1 /\ \A k \in 1 .. h : x[k] = head[k]
      /\ x[h + 1] = 0
  <2>1. /\ head \o e \in Seq(Byte) /\ Len(head \o e) = Len(head) + Len(e)
        /\ \A k \in 1 .. Len(head) : (head \o e)[k] = head[k]
        /\ \A k \in 1 .. Len(e) : (head \o e)[Len(head) + k] = e[k]
    BY <1>2, <1>4, JoinedBytes
  <2>2. head \o e = x /\ 1 \in 1 .. 1
    BY DEF e
  <2> HIDE DEF x
  <2>. QED
    BY <1>3, <1>4, <2>1, <2>2
<1> HIDE DEF x
<1>6. /\ y \in Seq(Byte) /\ Len(y) = h + 1 + n /\ \A k \in 1 .. h + 1 : y[k] = x[k]
      /\ \A k \in 1 .. n : y[h + 1 + k] = content[k]
  <2>1. /\ y \in Seq(Byte) /\ Len(y) = Len(x) + Len(content) /\ \A k \in 1 .. Len(x) : y[k] = x[k]
        /\ \A k \in 1 .. Len(content) : y[Len(x) + k] = content[k]
    BY <1>1, <1>5, JoinedBytes
  <2>. QED
    BY <1>1, <1>5, <2>1
<1> HIDE DEF y
<1>7. /\ z \in Seq(Byte) /\ Len(z) = h + 1 + n + 1 /\ \A k \in 1 .. h + 1 + n : z[k] = y[k]
      /\ z[h + 1 + n + 1] = 0
  <2>1. /\ y \o e \in Seq(Byte) /\ Len(y \o e) = Len(y) + Len(e)
        /\ \A k \in 1 .. Len(y) : (y \o e)[k] = y[k]
        /\ \A k \in 1 .. Len(e) : (y \o e)[Len(y) + k] = e[k]
    BY <1>4, <1>6, JoinedBytes
  <2>2. y \o e = z /\ 1 \in 1 .. 1
    BY DEF e
  <2> HIDE DEF z
  <2>. QED
    BY <1>4, <1>6, <2>1, <2>2
<1> HIDE DEF z
<1>8. Stream = z /\ HeadLen = h
  BY <1>3 DEF Stream, Message, HeadLen, z, y, x, e, head
<1>9. \A k \in 1 .. h : z[k] = head[k]
  <2>1. \A k \in 1 .. h : k \in 1 .. h + 1 /\ k \in 1 .. h + 1 + n
    OBVIOUS
  <2>. QED
    BY <1>5, <1>6, <1>7, <2>1
<1>10. z[h + 1] = 0
  <2>1. h + 1 \in 1 .. h + 1 /\ h + 1 \in 1 .. h + 1 + n
    OBVIOUS
  <2>. QED
    BY <1>5, <1>6, <1>7, <2>1
<1>11. \A k \in 1 .. n : z[h + 1 + k] = content[k]
  <2>1. \A k \in 1 .. n : h + 1 + k \in 1 .. h + 1 + n
    OBVIOUS
  <2>. QED
    BY <1>6, <1>7, <2>1
<1>12. Part(head, z, 0, h)
  <2>1. h - 0 = h /\ \A k \in 1 .. h : 0 + k = k
    OBVIOUS
  <2>. QED
    BY <1>2, <1>3, <1>9, <2>1 DEF Part
<1>13. Part(content, z, h + 1, h + 1 + n)
  <2>1. h + 1 + n - (h + 1) = n
    OBVIOUS
  <2>. QED
    BY <1>1, <1>11, <2>1 DEF Part
<1>14. h + 1 + n + 1 = h + 2 + n
  OBVIOUS
<1>. QED
  BY <1>1, <1>7, <1>8, <1>10, <1>12, <1>13, <1>14 DEF head

LEMMA NoPart ==
  ASSUME NEW m, NEW a \in Nat
  PROVE  Part(<<>>, m, a, a)
<1>1. a - a = 0 /\ <<>> \in Seq(Byte) /\ Len(<<>>) = 0 /\ 1 .. 0 = {}
  OBVIOUS
<1>. QED
  BY <1>1 DEF Part

\* The steps that read nothing, and those of the sender.
LEMMA SendSomeKeeps ==
  ASSUME NEW p \in Nat, NEW q \in 0 .. Len(Stream), Len(Stream) \in Nat, Streamed(p, q), Stream' = Stream, SendSome
  PROVE  \E r \in 0 .. Len(Stream) : Streamed(p, r)'
<1>1. PICK n \in 1 .. Len(tosend) :
        wire' = wire \o SubSeq(tosend, 1, n) /\ tosend' = SubSeq(tosend, n + 1, Len(tosend)) /\ tosend # <<>>
  BY DEF SendSome
<1>2. PICK m \in Nat : m = Len(Stream)
  OBVIOUS
<1>3. Part(wire, Stream, p, q) /\ Part(tosend, Stream, q, m)
  BY <1>1, <1>2 DEF Streamed
<1>4. q \in Nat /\ Len(tosend) = m - q /\ n \in Nat /\ n <= Len(tosend)
  BY <1>2, <1>3 DEF Part
<1>5. q + n \in 0 .. m
  BY <1>4
<1>6. Part(SubSeq(tosend, 1, n), Stream, q, q + n) /\ Part(SubSeq(tosend, n + 1, Len(tosend)), Stream, q + n, m)
  BY <1>3, <1>4, PartCut
<1>7. Part(wire \o SubSeq(tosend, 1, n), Stream, p, q + n)
  BY <1>3, <1>4, <1>5, <1>6, PartsJoined
<1>8. Part(wire, Stream, p, q + n)'
  BY <1>1, <1>7 DEF Part
<1>9. Part(tosend, Stream, q + n, Len(Stream))'
  BY <1>1, <1>2, <1>6 DEF Part
<1>. QED
  BY <1>2, <1>5, <1>8, <1>9 DEF Streamed

LEMMA RecvHeaderKeeps ==
  ASSUME TransferIInv, Framed, NEW p \in 0 .. Len(Stream), NEW q \in 0 .. Len(Stream),
         Streamed(p, q), Phase(p), Stream' = Stream, HeadLen' = HeadLen, RecvHeader
  PROVE  p + 1 \in 0 .. Len(Stream) /\ Streamed(p + 1, q)' /\ Phase(p + 1)'
<1>1. PICK h \in Nat, n \in Nat, m \in Nat :
        h = HeadLen /\ n = Len(content) /\ m = Len(Stream) /\ m = h + 2 + n /\ n \in 1 .. MaxLength
  BY StreamIs, ContentIs DEF TransferIInv
<1>2. /\ Stream \in Seq(Byte) /\ Part(ToBytes(n), Stream, 0, h) /\ Part(content, Stream, h + 1, h + 1 + n)
      /\ Stream[h + 1] = 0 /\ Stream[h + 2 + n] = 0
  BY <1>1, StreamIs DEF TransferIInv
<1>3. /\ transferPc = "header" /\ wire # <<>> /\ wire' = Tail(wire)
      /\ content' = content /\ tosend' = tosend /\ printed' = printed
      /\ Head(wire) # 0 => acc' = Append(acc, Head(wire)) /\ transferPc' = transferPc
      /\ Head(wire) = 0 => /\ length' = FromBytes(acc) /\ received' = 0 /\ acc' = <<>>
                           /\ transferPc' = IF FromBytes(acc) < 1 THEN "closed" ELSE "data"
  BY DEF RecvHeader
<1>4. p \in Nat /\ q \in Nat /\ q <= m
  BY <1>1
<1>5. Part(wire, Stream, p, q) /\ (tosend = <<>> \/ Part(tosend, Stream, q, m))
  BY <1>1 DEF Streamed
<1>6. Head(wire) = Stream[p + 1] /\ p + 1 <= q /\ Part(Tail(wire), Stream, p + 1, q)
  BY <1>3, <1>4, <1>5, PartHead
<1>7. p + 1 \in 0 .. m /\ p + 1 \in 1 .. m
  BY <1>4, <1>6
<1>8. Streamed(p + 1, q)'
  BY <1>1, <1>3, <1>5, <1>6 DEF Streamed, Part
<1>9. Stream[p + 1] \in Byte
  <2>1. \A k \in 1 .. Len(Stream) : Stream[k] \in Byte
    BY <1>2
  <2>. QED
    BY <1>1, <1>7, <2>1
<1>10. Len(content') = n
  BY <1>1, <1>3
<1>11. Phase(p + 1)'
  <2>1. CASE printed = <<>> /\ p <= h /\ Part(acc, Stream, 0, p)
    <3>1. CASE Stream[p + 1] # 0
      <4>1. p + 1 <= h
        BY <1>2, <1>4, <2>1, <3>1
      <4>2. Part(acc', Stream, 0, p + 1)
        BY <1>3, <1>4, <1>6, <1>9, <2>1, <3>1, PartLonger
      <4>. QED
        BY <1>1, <1>3, <1>6, <2>1, <3>1, <4>1, <4>2 DEF Phase, Part
    <3>2. CASE Stream[p + 1] = 0
      <4>1. p = h
        <5>1. SUFFICES ASSUME p # h PROVE FALSE
          OBVIOUS
        <5>2. p + 1 \in 1 .. h - 0
          BY <1>4, <2>1, <5>1
        <5>3. /\ ToBytes(n) \in Seq(Byte) /\ Len(ToBytes(n)) = h - 0
              /\ \A k \in 1 .. h - 0 : ToBytes(n)[k] = Stream[0 + k]
          BY <1>2 DEF Part
        <5>4. 0 + (p + 1) = p + 1 /\ p + 1 \in DOMAIN ToBytes(n)
          BY <5>2, <5>3
        <5>5. ToBytes(n)[p + 1] # 0
          BY <1>1, <5>4 DEF Framed
        <5>6. ToBytes(n)[p + 1] = Stream[p + 1]
          BY <5>2, <5>3, <5>4
        <5>. QED
          BY <3>2, <5>5, <5>6
      <4>2. acc = ToBytes(n)
        BY <1>2, <2>1, <4>1, PartSame
      <4>3. FromBytes(acc) = n /\ ~(n < 1)
        BY <1>1, <4>2, ConversionAssumption
      <4>4. length' = n /\ received' = 0 /\ acc' = <<>> /\ transferPc' = "data"
        BY <1>3, <1>6, <3>2, <4>3
      <4>5. Part(<<>>, Stream, h + 1, p + 1) /\ p + 1 = h + 1 + 0 /\ 0 \in 0 .. n
        BY <1>1, <4>1, NoPart
      <4>. QED
        BY <1>1, <1>3, <1>10, <2>1, <4>4, <4>5 DEF Phase, Part
    <3>. QED
      BY <3>1, <3>2
  <2>2. CASE printed = <<content>> /\ acc = <<>> /\ p = h + 1 + n
    <3>1. p + 1 = h + 2 + n
      BY <2>2
    <3>2. Head(wire) = 0 /\ FromBytes(acc) < 1
      BY <1>2, <1>6, <2>2, <3>1, ConversionAssumption
    <3>. QED
      BY <1>3, <2>2, <3>2 DEF Phase
  <2>. QED
    BY <1>1, <1>3, <2>1, <2>2 DEF Phase
<1>. QED
  BY <1>1, <1>7, <1>8, <1>11

LEMMA RecvDataKeeps ==
  ASSUME TransferIInv, NEW p \in 0 .. Len(Stream), NEW q \in 0 .. Len(Stream),
         Streamed(p, q), Phase(p), Stream' = Stream, HeadLen' = HeadLen, RecvData
  PROVE  \E r \in 0 .. Len(Stream) : Streamed(r, q)' /\ Phase(r)'
<1>1. PICK h \in Nat, m \in Nat : h = HeadLen /\ m = Len(Stream)
  BY StreamIs, ContentIs DEF TransferIInv
<1>2. PICK n \in 1 .. Len(wire) :
        /\ n <= length - received /\ acc' = acc \o SubSeq(wire, 1, n)
        /\ wire' = SubSeq(wire, n + 1, Len(wire)) /\ received' = received + n
  BY DEF RecvData, Asked
<1>3. /\ transferPc = "data" /\ transferPc' = transferPc /\ content' = content /\ tosend' = tosend
      /\ printed' = printed /\ length' = length
  BY DEF RecvData
<1>4. /\ printed = <<>> /\ length = Len(content) /\ received \in 0 .. length
      /\ p = h + 1 + received /\ Part(acc, Stream, h + 1, p)
  BY <1>1, <1>3 DEF Phase
<1>5. p \in Nat /\ q \in Nat /\ q <= m /\ length \in Nat /\ received \in Nat /\ h + 1 \in Nat
  BY <1>1, <1>4, ContentIs DEF TransferIInv
<1>6. Part(wire, Stream, p, q) /\ (tosend = <<>> \/ Part(tosend, Stream, q, m))
  BY <1>1 DEF Streamed
<1>7. Len(wire) = q - p
  BY <1>6 DEF Part
<1>8. n \in Nat /\ n <= Len(wire) /\ p + n \in 0 .. m
  BY <1>5, <1>7
<1>9. Part(SubSeq(wire, 1, n), Stream, p, p + n) /\ Part(SubSeq(wire, n + 1, Len(wire)), Stream, p + n, q)
  BY <1>5, <1>6, <1>8, PartCut
<1>10. Part(acc', Stream, h + 1, p + n)
  BY <1>2, <1>4, <1>5, <1>8, <1>9, PartsJoined
<1>11. received' \in 0 .. length /\ p + n = h + 1 + received'
  BY <1>2, <1>4, <1>5, <1>8
<1>12. Streamed(p + n, q)'
  BY <1>1, <1>2, <1>3, <1>6, <1>9 DEF Streamed, Part
<1>13. Phase(p + n)'
  BY <1>1, <1>3, <1>4, <1>10, <1>11 DEF Phase, Part
<1>. QED
  BY <1>1, <1>8, <1>12, <1>13

LEMMA PrintContentKeeps ==
  ASSUME TransferIInv, NEW p \in Nat, Phase(p), PrintContent
  PROVE  Phase(p)'
<1>1. PICK h \in Nat, n \in Nat : h = HeadLen /\ n = Len(content)
  BY StreamIs, ContentIs DEF TransferIInv
<1>2. /\ transferPc = "data" /\ received >= length /\ printed' = Append(printed, acc)
      /\ transferPc' = "header" /\ acc' = <<>> /\ content' = content
  BY DEF PrintContent, Ready
<1>3. /\ printed = <<>> /\ length = n /\ received \in 0 .. length
      /\ p = h + 1 + received /\ Part(acc, Stream, h + 1, p)
  BY <1>1, <1>2 DEF Phase
<1>4. p = h + 1 + n /\ h + 1 \in Nat
  BY <1>2, <1>3
<1>5. Part(content, Stream, h + 1, h + 1 + n)
  BY <1>1, StreamIs DEF TransferIInv
<1>6. acc = content
  BY <1>3, <1>4, <1>5, PartSame
<1>7. printed' = <<content>>
  BY <1>2, <1>3, <1>6
<1>8. HeadLen' = HeadLen /\ Len(content') = n
  BY <1>1, <1>2 DEF HeadLen
<1>. QED
  BY <1>1, <1>2, <1>4, <1>7, <1>8 DEF Phase

\* The content is printed once and whole, for any content of which no byte of
\* the length is zero (sendfile.py:13-23, server.py:29-77).
THEOREM TransferredWhole == TransferSpec => []TransferWhole
<1>1. TransferInit => TransferIInv
  <2> SUFFICES ASSUME TransferInit PROVE TransferIInv
    OBVIOUS
  <2>1. /\ content \in UNION {[1 .. n -> Byte] : n \in 1 .. MaxLength}
        /\ tosend = Stream /\ wire = <<>> /\ transferPc = "header" /\ acc = <<>> /\ printed = <<>>
    BY DEF TransferInit, Stream
  <2>2. Stream \in Seq(Byte) /\ HeadLen \in Nat
    BY <2>1, StreamIs
  <2>3. PICK m \in Nat : m = Len(Stream)
    BY <2>2
  <2>4. Part(<<>>, Stream, 0, 0) /\ 0 \in 0 .. m
    BY NoPart
  <2>5. Part(Stream, Stream, 0, m)
    <3>1. m - 0 = m /\ \A k \in 1 .. m : 0 + k = k
      OBVIOUS
    <3>. QED
      BY <2>2, <2>3, <3>1 DEF Part
  <2>6. Streamed(0, 0) /\ Phase(0)
    BY <2>1, <2>2, <2>3, <2>4, <2>5 DEF Streamed, Phase
  <2>. QED
    BY <2>1, <2>3, <2>4, <2>6 DEF TransferIInv
<1>2. TransferIInv /\ [TransferNext]_transferVars => TransferIInv'
  <2> SUFFICES ASSUME TransferIInv, [TransferNext]_transferVars PROVE TransferIInv'
    OBVIOUS
  <2>1. content' = content
    BY DEF TransferNext, SendSome, CloseSender, RecvHeader, RecvData, PrintContent, Incomplete, transferVars
  <2>2. /\ content' \in UNION {[1 .. n -> Byte] : n \in 1 .. MaxLength}
        /\ Framed' = Framed /\ Stream' = Stream /\ HeadLen' = HeadLen
    BY <2>1 DEF TransferIInv, Framed, Stream, HeadLen
  <2>3. SUFFICES ASSUME Framed PROVE \E p, q \in 0 .. Len(Stream) : Streamed(p, q)' /\ Phase(p)'
    BY <2>2 DEF TransferIInv
  <2>4. PICK p \in 0 .. Len(Stream), q \in 0 .. Len(Stream) : Streamed(p, q) /\ Phase(p)
    BY <2>3 DEF TransferIInv
  <2>5. Len(Stream) \in Nat /\ p \in Nat
    BY StreamIs DEF TransferIInv
  <2>6. CASE SendSome
    <3>1. PICK r \in 0 .. Len(Stream) : Streamed(p, r)'
      BY <2>2, <2>4, <2>5, <2>6, SendSomeKeeps
    <3>2. Phase(p)'
      BY <2>1, <2>2, <2>4, <2>6 DEF SendSome, Phase, Part
    <3>. QED
      BY <3>1, <3>2
  <2>7. CASE CloseSender
    <3>1. tosend' = <<>> /\ wire' = wire /\ UNCHANGED <<transferPc, acc, length, received, printed>>
      BY <2>7 DEF CloseSender
    <3>2. Streamed(p, q)'
      BY <2>2, <2>4, <3>1 DEF Streamed, Part
    <3>3. Phase(p)'
      BY <2>1, <2>2, <2>4, <3>1 DEF Phase, Part
    <3>. QED
      BY <3>2, <3>3
  <2>8. CASE RecvHeader
    <3>1. p + 1 \in 0 .. Len(Stream) /\ Streamed(p + 1, q)' /\ Phase(p + 1)'
      BY <2>2, <2>3, <2>4, <2>8, RecvHeaderKeeps
    <3>. QED
      BY <3>1
  <2>9. CASE RecvData
    BY <2>2, <2>4, <2>9, RecvDataKeeps
  <2>10. CASE PrintContent
    <3>1. Phase(p)'
      BY <2>4, <2>5, <2>10, PrintContentKeeps
    <3>2. Streamed(p, q)'
      BY <2>2, <2>4, <2>10 DEF PrintContent, Streamed, Part
    <3>. QED
      BY <3>1, <3>2
  <2>11. CASE Incomplete
    <3>1. UNCHANGED <<content, wire, tosend, printed>> /\ transferPc' = "raised"
      BY <2>11 DEF Incomplete
    <3>2. Streamed(p, q)'
      BY <2>2, <2>4, <3>1 DEF Streamed, Part
    <3>3. Phase(p)'
      BY <2>4, <3>1 DEF Phase
    <3>. QED
      BY <3>2, <3>3
  <2>12. CASE UNCHANGED transferVars
    <3>1. UNCHANGED <<content, wire, tosend, transferPc, acc, length, received, printed>>
      BY <2>12 DEF transferVars
    <3>2. Streamed(p, q)'
      BY <2>2, <2>4, <3>1 DEF Streamed, Part
    <3>3. Phase(p)'
      BY <2>2, <2>4, <3>1 DEF Phase, Part
    <3>. QED
      BY <3>2, <3>3
  <2>. QED
    BY <2>6, <2>7, <2>8, <2>9, <2>10, <2>11, <2>12 DEF TransferNext
<1>3. TransferIInv => TransferWhole
  <2> SUFFICES ASSUME TransferIInv, Framed
               PROVE  printed \in {<<>>, <<content>>} /\ (transferPc = "closed" => printed = <<content>>)
    BY DEF TransferWhole
  <2>1. PICK p \in 0 .. Len(Stream) : Phase(p)
    BY DEF TransferIInv
  <2>. QED
    BY <2>1 DEF Phase
<1>. QED
  BY <1>1, <1>2, <1>3, PTL DEF TransferSpec

-----------------------------------------------------------------------------
(* Pinentry *)

Leaving == {"destroying", "left"}
Asking == {"window", "prompt1", "prompt2", "confirm", "message"} \cup Leaving

PinIInv ==
  /\ cmd \in Questions \cup {"none", "BYE"} /\ ui \in Asking \cup {"none"}
  /\ ui = "none" <=> cmd \notin Questions
  /\ guiMode \in {"Default", "Repeat", "Confirm", "Message"}
  /\ (cmd \in {"none", "BYE", "GETPIN"}) <=> (guiMode \in {"Default", "Repeat"})
  /\ ui \in {"prompt1", "prompt2"} => cmd = "GETPIN"
  /\ ui = "prompt1" => guiMode \in {"Default", "Repeat"}
  /\ ui = "prompt2" => guiMode = "Repeat"
  /\ ui = "confirm" => cmd = "CONFIRM"
  /\ ui = "message" => cmd = "MESSAGE"
  /\ ui = "window" =>
       ok = "nil" /\ lines = <<>> /\ (passwordOk /\ guiMode = "Repeat" => password1 = password2)
  /\ ui \in Leaving =>
       IF did = "agreed"
       THEN /\ ok = "true"
            /\ lines = IF cmd = "GETPIN" THEN <<D(password1)>> ELSE <<>>
            /\ guiMode = "Repeat" => password1 = password2
       ELSE ok = "false" /\ lines = <<>>

LEMMA Lines ==
  ASSUME NEW a, NEW b
  PROVE  <<>> \o <<b>> = Append(<<>>, b) /\ <<a>> \o <<b>> = Append(<<a>>, b)
OBVIOUS

\* What a question leaves behind when it is answered.
LEMMA Answered ==
  ASSUME PinIInv, NEW before, NEW last, Respond(before, last), ui # "none"
  PROVE  PinIInv'
BY DEF PinIInv, Respond, Questions, Asking, Leaving

LEMMA CommandKeeps ==
  ASSUME PinIInv, Command
  PROVE  PinIInv' /\ ~(cmd \in Questions)
BY DEF PinIInv, Command, Questions, Asking, Leaving, entries

LEMMA AskKeeps ==
  ASSUME PinIInv, Ask
  PROVE  PinIInv' /\ ~(cmd \in Questions)
<1>1. /\ cmd = "none" /\ cmd' \in Questions /\ guiMode' = Modes[cmd']
      /\ ui' = CASE runUI = "gui" -> "window"
                 [] guiMode' = "Confirm" -> "confirm"
                 [] guiMode' = "Message" -> "message"
                 [] OTHER -> "prompt1"
      /\ password1' = "" /\ password2' = "" /\ ok' = "nil" /\ lines' = <<>>
  BY DEF Ask, Questions
<1>2. /\ cmd' = "GETPIN" => guiMode' \in {"Default", "Repeat"}
      /\ cmd' = "CONFIRM" => guiMode' = "Confirm"
      /\ cmd' = "MESSAGE" => guiMode' = "Message"
  <2>1. Modes["GETPIN"] = guiMode /\ Modes["CONFIRM"] = "Confirm" /\ Modes["MESSAGE"] = "Message"
    BY DEF Modes
  <2>2. guiMode \in {"Default", "Repeat"}
    BY <1>1 DEF PinIInv
  <2>. QED
    BY <1>1, <2>1, <2>2
<1>. QED
  BY <1>1, <1>2 DEF PinIInv, Questions, Asking, Leaving

LEMMA ChangeKeeps ==
  ASSUME PinIInv, Change
  PROVE  PinIInv' /\ cmd' = cmd
BY DEF PinIInv, Change, Checked, Questions, Asking, Leaving

\* The window: the person agreed, or did not.
LEMMA OnOkKeeps ==
  ASSUME PinIInv, OnOk
  PROVE  PinIInv' /\ cmd' = cmd
<1>1. /\ ui = "window" /\ passwordOk /\ did' = "agreed" /\ ok' = "true" /\ ui' = "destroying"
      /\ UNCHANGED <<runUI, guiMode, cmd, password1, password2, passwordOk>>
      /\ lines' = IF guiMode \in {"Default", "Repeat"} THEN <<D(password1)>> ELSE <<>>
  BY DEF OnOk, Quit, Outcome, PinIInv
<1>2. cmd \in Questions /\ D(password1)' = D(password1)
  BY <1>1 DEF PinIInv, Asking, D
<1>3. cmd = "GETPIN" <=> guiMode \in {"Default", "Repeat"}
  BY <1>2 DEF PinIInv, Questions
<1>4. lines' = IF cmd' = "GETPIN" THEN <<D(password1)'>> ELSE <<>>
  BY <1>1, <1>2, <1>3
<1>. QED
  BY <1>1, <1>4 DEF PinIInv, Asking, Leaving

LEMMA OnCancelKeeps ==
  ASSUME PinIInv, OnCancel
  PROVE  PinIInv' /\ cmd' = cmd
BY DEF OnCancel, Quit, Outcome, PinIInv, Asking, Leaving

\* The window's own quit(false) comes second and is not heard.
LEMMA DestroyedKeeps ==
  ASSUME PinIInv, Destroyed
  PROVE  PinIInv' /\ cmd' = cmd
<1>1. /\ ui = "destroying" /\ ui' = "left" /\ ok' = ok
      /\ UNCHANGED <<runUI, guiMode, cmd, password1, password2, passwordOk, lines, did>>
  BY DEF Destroyed, Outcome, PinIInv, Leaving
<1>2. D(password1)' = D(password1)
  BY <1>1 DEF D
<1>. QED
  BY <1>1, <1>2 DEF PinIInv, Asking, Leaving

LEMMA GuiReturnsKeeps ==
  ASSUME PinIInv, GuiReturns
  PROVE  PinIInv' /\ (IF did' = "agreed" THEN Agreed ELSE Refused)
<1>1. /\ ui = "left" /\ Respond(lines, IF ok = "true" THEN OK ELSE ERR)
      /\ UNCHANGED <<runUI, did, password1, password2>>
  BY DEF GuiReturns, entries
<1>2. PinIInv'
  BY <1>1, Answered
<1>3. CASE did = "agreed"
  <2>1. ok = "true" /\ lines = Given /\ (guiMode = "Repeat" => password1' = password2')
    BY <1>1, <1>3 DEF PinIInv, Leaving, Given, D
  <2>. QED
    BY <1>1, <1>2, <1>3, <2>1, Lines DEF Agreed, Respond
<1>4. CASE did # "agreed"
  BY <1>1, <1>2, <1>4, Lines DEF PinIInv, Leaving, Refused, Respond, OK, ERR
<1>. QED
  BY <1>3, <1>4

LEMMA Prompt1Keeps ==
  ASSUME PinIInv, Prompt1
  PROVE  PinIInv' /\ (cmd' = "none" => did' = "agreed" /\ Agreed)
<1>1. CASE guiMode = "Default"
  <2>1. Respond(<<D(password1')>>, OK) /\ did' = "agreed" /\ ui = "prompt1"
    BY <1>1 DEF Prompt1, Returns
  <2>2. PinIInv'
    BY <2>1, Answered
  <2>3. lines' = Append(Given, OK)
    BY <2>1, Lines DEF Given, Respond, PinIInv
  <2>. QED
    BY <1>1, <2>1, <2>2, <2>3 DEF Agreed
<1>2. CASE guiMode # "Default"
  <2>1. ui = "prompt1" /\ ui' = "prompt2" /\ UNCHANGED <<guiMode, cmd, passwordOk, ok>>
    BY <1>2 DEF Prompt1
  <2>2. guiMode = "Repeat" /\ cmd = "GETPIN"
    BY <1>2, <2>1 DEF PinIInv
  <2>. QED
    BY <2>1, <2>2 DEF PinIInv, Questions, Asking, Leaving
<1>. QED
  BY <1>1, <1>2

LEMMA Prompt2Keeps ==
  ASSUME PinIInv, Prompt2
  PROVE  PinIInv' /\ (cmd' = "none" => did' = "agreed" /\ Agreed)
<1>1. ui = "prompt2" /\ guiMode = "Repeat" /\ cmd = "GETPIN" /\ password1' = password1
  BY DEF Prompt2, PinIInv
<1>2. CASE password1 = password2'
  <2>1. Respond(<<D(password1')>>, OK) /\ did' = "agreed"
    BY <1>1, <1>2 DEF Prompt2
  <2>2. PinIInv'
    BY <1>1, <2>1, Answered
  <2>3. lines' = Append(Given, OK)
    BY <1>1, <2>1, Lines DEF Given, Respond
  <2>. QED
    BY <1>1, <1>2, <2>1, <2>2, <2>3 DEF Agreed
<1>3. CASE password1 # password2'
  <2>1. ui' = "prompt1" /\ UNCHANGED <<guiMode, cmd>>
    BY <1>3 DEF Prompt2
  <2>. QED
    BY <1>1, <2>1 DEF PinIInv, Questions, Asking, Leaving
<1>. QED
  BY <1>2, <1>3

LEMMA OtherPromptsKeep ==
  ASSUME PinIInv, ConfirmOrNot \/ Told \/ TerminalFails
  PROVE  PinIInv' /\ (IF did' = "agreed" THEN Agreed ELSE Refused)
<1>1. \/ Respond(<<>>, OK) /\ did' = "agreed" /\ ui \in {"confirm", "message"}
      \/ Respond(<<>>, ERR) /\ did' = "refused" /\ ui # "none"
  BY DEF ConfirmOrNot, Told, TerminalFails, Returns
<1>2. PinIInv'
  BY <1>1, Answered
<1>3. CASE Respond(<<>>, OK) /\ did' = "agreed" /\ ui \in {"confirm", "message"}
  <2>1. cmd # "GETPIN"
    BY <1>3 DEF PinIInv
  <2>. QED
    BY <1>2, <1>3, <2>1, Lines DEF Agreed, Given, Respond
<1>4. CASE Respond(<<>>, ERR) /\ did' = "refused"
  BY <1>2, <1>4, Lines DEF Refused, Respond
<1>. QED
  BY <1>1, <1>3, <1>4

\* The person is asked and taken at their word, whatever they type and in
\* whatever order they do it (main.go:30-95, gui.go:30-203, tui.go:20-75).
THEOREM PersonObeyed == PinSpec => PinentryAgreed
<1> DEFINE P == (cmd \in Questions /\ cmd' = "none") => IF did' = "agreed" THEN Agreed ELSE Refused
<1>1. PinInit => PinIInv
  BY DEF PinInit, PinIInv, Questions, Asking, Leaving
<1>2. PinIInv /\ [PinNext]_pinVars => PinIInv' /\ [P]_pinVars
  <2> SUFFICES ASSUME PinIInv, [PinNext]_pinVars PROVE PinIInv' /\ (P \/ UNCHANGED pinVars)
    OBVIOUS
  <2>1. CASE Command
    BY <2>1, CommandKeeps
  <2>2. CASE Ask
    BY <2>2, AskKeeps
  <2>3. CASE Change
    BY <2>3, ChangeKeeps DEF Questions
  <2>4. CASE OnOk \/ OnCancel \/ Destroyed
    BY <2>4, OnOkKeeps, OnCancelKeeps, DestroyedKeeps DEF Questions
  <2>5. CASE GuiReturns
    BY <2>5, GuiReturnsKeeps
  <2>6. CASE Prompt1
    BY <2>6, Prompt1Keeps
  <2>7. CASE Prompt2
    BY <2>7, Prompt2Keeps
  <2>8. CASE ConfirmOrNot \/ Told \/ TerminalFails
    BY <2>8, OtherPromptsKeep
  <2>9. CASE UNCHANGED pinVars
    BY <2>9 DEF PinIInv, pinVars, D
  <2>. QED
    BY <2>1, <2>2, <2>3, <2>4, <2>5, <2>6, <2>7, <2>8, <2>9 DEF PinNext
<1>. QED
  BY <1>1, <1>2, PTL DEF PinSpec, PinentryAgreed

-----------------------------------------------------------------------------
(* Pipes *)

PipesIInv ==
  /\ width \in Nat \ {0} /\ height \in Nat \ {0}
  /\ pipe \in [x : Nat, y : Nat, d : 0 .. FINAL - 1]

LEMMA Remainder ==
  ASSUME NEW a \in Nat, NEW m \in Nat \ {0}
  PROVE  a % m \in 0 .. m - 1 /\ (a < m => a % m = a)
OBVIOUS

\* A character joins the side behind the pipe and the one before it.
LEMMA CharJoins ==
  ASSUME NEW c \in 0 .. FINAL - 1, NEW turn \in Turns
  PROVE  LET d == (c + turn) % FINAL
         IN  d \in 0 .. FINAL - 1 /\ chars[d * 4 + c + 1] = {Opposite(c), d}
<1>1. turn \in {3, 1, 0} /\ c \in {0, 1, 2, 3}
  BY DEF Turns, FINAL
<1>2. PICK d \in 0 .. 3 : d = (c + turn) % 4
  BY <1>1
<1>3. Opposite(c) \in 0 .. 3 /\ d # Opposite(c)
  BY <1>1, <1>2 DEF Opposite, FINAL
<1>4. Opposite(0) = 2 /\ Opposite(1) = 3 /\ Opposite(2) = 0 /\ Opposite(3) = 1
  BY DEF Opposite, FINAL
<1>5. /\ chars[1] = {0, 2} /\ chars[2] = {0, 3} /\ chars[4] = {0, 1}
      /\ chars[5] = {2, 1} /\ chars[6] = {1, 3} /\ chars[7] = {0, 1}
  BY DEF chars, UP, DOWN, LEFT, RIGHT
<1>6. /\ chars[10] = {2, 3} /\ chars[11] = {0, 2} /\ chars[12] = {2, 1}
      /\ chars[13] = {2, 3} /\ chars[15] = {0, 3} /\ chars[16] = {1, 3}
  BY DEF chars, UP, DOWN, LEFT, RIGHT
<1> SUFFICES chars[d * 4 + c + 1] = {Opposite(c), d}
  BY <1>2 DEF FINAL
<1>7. CASE c = 0
  <2>1. d = 0 \/ d = 1 \/ d = 3
    BY <1>2, <1>3, <1>4, <1>7
  <2>2. 0 * 4 + 0 + 1 = 1 /\ 1 * 4 + 0 + 1 = 5 /\ 3 * 4 + 0 + 1 = 13
    OBVIOUS
  <2>3. CASE d = 0
    BY <1>4, <1>5, <1>6, <1>7, <2>2, <2>3
  <2>4. CASE d = 1
    BY <1>4, <1>5, <1>6, <1>7, <2>2, <2>4
  <2>5. CASE d = 3
    BY <1>4, <1>5, <1>6, <1>7, <2>2, <2>5
  <2>. QED
    BY <2>1, <2>3, <2>4, <2>5
<1>8. CASE c = 1
  <2>1. d = 0 \/ d = 1 \/ d = 2
    BY <1>2, <1>3, <1>4, <1>8
  <2>2. 0 * 4 + 1 + 1 = 2 /\ 1 * 4 + 1 + 1 = 6 /\ 2 * 4 + 1 + 1 = 10
    OBVIOUS
  <2>3. CASE d = 0
    BY <1>4, <1>5, <1>6, <1>8, <2>2, <2>3
  <2>4. CASE d = 1
    BY <1>4, <1>5, <1>6, <1>8, <2>2, <2>4
  <2>5. CASE d = 2
    BY <1>4, <1>5, <1>6, <1>8, <2>2, <2>5
  <2>. QED
    BY <2>1, <2>3, <2>4, <2>5
<1>9. CASE c = 2
  <2>1. d = 1 \/ d = 2 \/ d = 3
    BY <1>2, <1>3, <1>4, <1>9
  <2>2. 1 * 4 + 2 + 1 = 7 /\ 2 * 4 + 2 + 1 = 11 /\ 3 * 4 + 2 + 1 = 15
    OBVIOUS
  <2>3. CASE d = 1
    BY <1>4, <1>5, <1>6, <1>9, <2>2, <2>3
  <2>4. CASE d = 2
    BY <1>4, <1>5, <1>6, <1>9, <2>2, <2>4
  <2>5. CASE d = 3
    BY <1>4, <1>5, <1>6, <1>9, <2>2, <2>5
  <2>. QED
    BY <2>1, <2>3, <2>4, <2>5
<1>10. CASE c = 3
  <2>1. d = 0 \/ d = 2 \/ d = 3
    BY <1>2, <1>3, <1>4, <1>10
  <2>2. 0 * 4 + 3 + 1 = 4 /\ 2 * 4 + 3 + 1 = 12 /\ 3 * 4 + 3 + 1 = 16
    OBVIOUS
  <2>3. CASE d = 0
    BY <1>4, <1>5, <1>6, <1>10, <2>2, <2>3
  <2>4. CASE d = 2
    BY <1>4, <1>5, <1>6, <1>10, <2>2, <2>4
  <2>5. CASE d = 3
    BY <1>4, <1>5, <1>6, <1>10, <2>2, <2>5
  <2>. QED
    BY <2>1, <2>3, <2>4, <2>5
<1>. QED
  BY <1>1, <1>7, <1>8, <1>9, <1>10

\* The next position along one axis.
LEMMA Along ==
  ASSUME NEW a \in Nat, NEW m \in Nat \ {0}, NEW d \in 0 .. 3, NEW axis \in {0, 1}
  PROVE  /\ (a + dirDelta(d, axis, m)) % m \in 0 .. m - 1
         /\ d % 2 = axis /\ a < m => (a + dirDelta(d, axis, m)) % m = a
         /\ d % 2 # axis => (a + dirDelta(d, axis, m)) % m = IF d > 1 THEN (a + 1) % m ELSE (a + m - 1) % m
<1>1. dirDelta(d, axis, m) = IF d % 2 = axis THEN 0 ELSE IF d > 1 THEN 1 ELSE m - 1
  BY DEF dirDelta
<1>2. dirDelta(d, axis, m) \in Nat /\ a + dirDelta(d, axis, m) \in Nat
  BY <1>1
<1>3. (a + dirDelta(d, axis, m)) % m \in 0 .. m - 1
  BY <1>2, Remainder
<1>4. ASSUME d % 2 = axis, a < m PROVE (a + dirDelta(d, axis, m)) % m = a
  <2>1. a + dirDelta(d, axis, m) = a
    BY <1>1, <1>4
  <2>. QED
    BY <1>4, <2>1, Remainder
<1>5. ASSUME d % 2 # axis PROVE a + dirDelta(d, axis, m) = IF d > 1 THEN a + 1 ELSE a + m - 1
  BY <1>1, <1>5
<1>. QED
  BY <1>3, <1>4, <1>5

Connected ==
  /\ drawn'.char = {Opposite(pipe.d), pipe'.d}
  /\ OnScreen(<<pipe'.x, pipe'.y>>)
  /\ OnScreen(drawn'.at) => <<pipe'.x, pipe'.y>> = Beside(drawn'.at, pipe'.d)

LEMMA ExtendConnects ==
  ASSUME PipesIInv, Extend
  PROVE  PipesIInv' /\ Connected
<1>1. PICK turn \in Turns :
        LET d == (pipe.d + turn) % FINAL
        IN  /\ drawn' = [at |-> <<pipe.x, pipe.y>>, char |-> chars[d * 4 + pipe.d + 1]]
            /\ pipe' = [x |-> (pipe.x + dirDelta(d, 0, width)) % width,
                        y |-> (pipe.y + dirDelta(d, 1, height)) % height, d |-> d]
  BY DEF Extend
<1>2. PICK w \in Nat \ {0}, h \in Nat \ {0}, x \in Nat, y \in Nat, c \in 0 .. FINAL - 1 :
        w = width /\ h = height /\ x = pipe.x /\ y = pipe.y /\ c = pipe.d
  BY DEF PipesIInv
<1>3. width' = w /\ height' = h
  BY <1>2 DEF Extend
<1>4. PICK d \in 0 .. FINAL - 1 : d = (c + turn) % FINAL /\ chars[d * 4 + c + 1] = {Opposite(c), d}
  BY CharJoins
<1>5. PICK u \in 0 .. w - 1, v \in 0 .. h - 1 :
        /\ u = (x + dirDelta(d, 0, w)) % w /\ v = (y + dirDelta(d, 1, h)) % h
        /\ d % 2 = 0 /\ x < w => u = x
        /\ d % 2 # 0 => u = IF d > 1 THEN (x + 1) % w ELSE (x + w - 1) % w
        /\ d % 2 = 1 /\ y < h => v = y
        /\ d % 2 # 1 => v = IF d > 1 THEN (y + 1) % h ELSE (y + h - 1) % h
  <2>1. d \in 0 .. 3
    BY DEF FINAL
  <2> DEFINE p == (x + dirDelta(d, 0, w)) % w
             q == (y + dirDelta(d, 1, h)) % h
  <2>2. /\ p \in 0 .. w - 1 /\ (d % 2 = 0 /\ x < w => p = x)
        /\ d % 2 # 0 => p = IF d > 1 THEN (x + 1) % w ELSE (x + w - 1) % w
    <3>1. 0 \in {0, 1}
      OBVIOUS
    <3>. QED
      BY <2>1, <3>1, Along
  <2>3. /\ q \in 0 .. h - 1 /\ (d % 2 = 1 /\ y < h => q = y)
        /\ d % 2 # 1 => q = IF d > 1 THEN (y + 1) % h ELSE (y + h - 1) % h
    <3>1. 1 \in {0, 1}
      OBVIOUS
    <3>. QED
      BY <2>1, <3>1, Along
  <2> HIDE DEF p, q
  <2>4. PICK u \in 0 .. w - 1, v \in 0 .. h - 1 : u = p /\ v = q
    BY <2>2, <2>3
  <2>. QED
    BY <2>2, <2>3, <2>4 DEF p, q
<1>6. drawn' = [at |-> <<x, y>>, char |-> {Opposite(c), d}] /\ pipe' = [x |-> u, y |-> v, d |-> d]
  BY <1>1, <1>2, <1>4, <1>5
<1>7. u \in Nat /\ v \in Nat /\ u < w /\ v < h
  OBVIOUS
<1>8. PipesIInv'
  BY <1>3, <1>6, <1>7 DEF PipesIInv
<1>9. OnScreen(<<pipe'.x, pipe'.y>>)
  BY <1>2, <1>6, <1>7 DEF OnScreen
<1>10. ASSUME OnScreen(drawn'.at) PROVE <<pipe'.x, pipe'.y>> = Beside(drawn'.at, pipe'.d)
  <2>1. x < w /\ y < h
    BY <1>2, <1>6, <1>10 DEF OnScreen
  <2>2. /\ u = CASE d = LEFT -> (x + w - 1) % w [] d = RIGHT -> (x + 1) % w [] OTHER -> x
        /\ v = CASE d = UP -> (y + h - 1) % h [] d = DOWN -> (y + 1) % h [] OTHER -> y
    <3>1. CASE d = 0
      BY <1>5, <2>1, <3>1 DEF LEFT, RIGHT, UP, DOWN
    <3>2. CASE d = 1
      BY <1>5, <2>1, <3>2 DEF LEFT, RIGHT, UP, DOWN
    <3>3. CASE d = 2
      BY <1>5, <2>1, <3>3 DEF LEFT, RIGHT, UP, DOWN
    <3>4. CASE d = 3
      BY <1>5, <2>1, <3>4 DEF LEFT, RIGHT, UP, DOWN
    <3>. QED
      BY <3>1, <3>2, <3>3, <3>4 DEF FINAL
  <2>. QED
    BY <1>2, <1>6, <2>2 DEF Beside
<1>. QED
  BY <1>2, <1>6, <1>8, <1>9, <1>10 DEF Connected

\* No pipe is ever broken, on a screen of any size (pipes.c:41-138).
THEOREM PipesUnbroken == PipesSpec => PipesConnected
<1>1. PipesInit => PipesIInv
  <2> SUFFICES ASSUME PipesInit PROVE PipesIInv
    OBVIOUS
  <2>1. width \in Nat /\ height \in Nat /\ pipe \in [x : 1 .. width, y : 1 .. height, d : 0 .. FINAL - 1]
    BY PipesAssumption DEF PipesInit
  <2>2. pipe.x \in 1 .. width /\ pipe.y \in 1 .. height
    BY <2>1
  <2>. QED
    BY <2>1, <2>2 DEF PipesIInv
<1>2. PipesIInv /\ [Extend]_pipesVars => PipesIInv' /\ [drawn' # Undrawn => Connected]_pipesVars
  BY ExtendConnects DEF PipesIInv, pipesVars
<1>. QED
  BY <1>1, <1>2, PTL DEF PipesSpec, PipesConnected, Connected
=============================================================================
