-------------------------------- MODULE Arena --------------------------------
(***************************************************************************)
(* c/arena: memory of a fixed capacity from which blocks are cut off in    *)
(* order and given back in the opposite order, as arena.h demands.         *)
(* Addresses count from the start of the memory.  The callers fill their   *)
(* own blocks.                                                             *)
(***************************************************************************)
EXTENDS Naturals, Sequences

CONSTANTS
  Capacity, \* what Arena_init is called with
  Sizes,    \* what blocks are asked for
  Values    \* what a byte can be made to hold

\* size_t, without its limit
ArenaAssumption == Capacity \in Nat /\ Sizes \subseteq Nat

VARIABLES
  capacity, free, data, \* the struct; data counts from what malloc returned
  up,      \* the arena is initialised and nothing has crashed
  blocks,  \* history: the blocks that are handed out, with what they hold
  mem      \* the bytes of the memory

arenaVars == <<capacity, free, data, up, blocks, mem>>

Zero == "zero"
Undefined == "undefined"  \* a block nobody has filled
Addresses == 0 .. Capacity - 1
Of(b) == b.at .. b.at + b.size - 1
Set(S, v) == [a \in Addresses |-> IF a \in S THEN v ELSE mem[a]]

Pointer_Moved(n) == data + n  \* mutant: the pointer after the block
Pointer(n) == data

\* Arena_alloc when there is room: v is what the block holds.
Cut(n, v) ==
  /\ blocks' = Append(blocks, [at |-> Pointer(n), size |-> n, val |-> v])
  /\ data' = data + n
  /\ free' = free - n

\* A full arena returns NULL and stays as it is.
Alloc(n) ==
  /\ up /\ n <= free
  /\ Cut(n, Undefined)
  /\ UNCHANGED <<capacity, up, mem>>

Zalloc(n) ==
  /\ up /\ n <= free
  /\ Cut(n, Zero)
  /\ mem' = Set(data .. data + n - 1, Zero)
  /\ UNCHANGED <<capacity, up>>

\* Arena_zalloc clears NULL.
ZallocCrashes(n) ==
  /\ up /\ n > free
  /\ up' = FALSE
  /\ UNCHANGED <<capacity, free, data, blocks, mem>>

\* Arena_free with the size of the last block
FreeLast ==
  /\ up /\ blocks # <<>>
  /\ LET n == blocks[Len(blocks)].size
     IN  data' = data - n /\ free' = free + n
  /\ blocks' = SubSeq(blocks, 1, Len(blocks) - 1)
  /\ UNCHANGED <<capacity, up, mem>>

Reset ==
  /\ up
  /\ data' = data - (capacity - free)
  /\ free' = capacity
  /\ blocks' = <<>>
  /\ UNCHANGED <<capacity, up, mem>>

Destroy ==
  /\ up
  /\ data' = data - (capacity - free)
  /\ free' = 0 /\ capacity' = 0 /\ up' = FALSE
  /\ blocks' = <<>>
  /\ UNCHANGED mem

\* The owner of block k fills it.
Fill(k, v) ==
  /\ up
  /\ blocks' = [blocks EXCEPT ![k].val = v]
  /\ mem' = Set(Of(blocks[k]), v)
  /\ UNCHANGED <<capacity, free, data, up>>

\* Arena_init
ArenaInit ==
  /\ capacity = Capacity /\ free = Capacity /\ data = 0
  /\ up = TRUE
  /\ blocks = <<>>
  /\ mem = [a \in Addresses |-> Zero]

ArenaNext ==
  \/ \E n \in Sizes : Alloc(n) \/ Zalloc(n) \/ ZallocCrashes(n)
  \/ FreeLast \/ Reset \/ Destroy
  \/ \E k \in DOMAIN blocks, v \in Values : Fill(k, v)

ArenaSpec == ArenaInit /\ [][ArenaNext]_arenaVars

-----------------------------------------------------------------------------
(* Properties *)

ArenaTypeOK ==
  /\ {capacity, free, data} \subseteq Nat
  /\ up \in BOOLEAN
  /\ blocks \in Seq([at : Nat, size : Sizes, val : Values \cup {Zero, Undefined}])
  /\ mem \in [Addresses -> Values \cup {Zero}]

\* The blocks lie one behind the other from the start of the memory to the
\* pointer, and what is left behind it is free.
Stacked ==
  /\ up \/ blocks # <<>> => capacity = Capacity /\ data + free = capacity
  /\ blocks = <<>> => data = 0
  /\ \A k \in DOMAIN blocks :
       /\ k = 1 => blocks[k].at = 0
       /\ k = Len(blocks) => blocks[k].at + blocks[k].size = data
       /\ blocks[k].at + blocks[k].size <= data
       /\ \A l \in DOMAIN blocks :
            /\ l = k + 1 => blocks[k].at + blocks[k].size = blocks[l].at
            /\ k < l => blocks[k].at + blocks[k].size <= blocks[l].at

\* Every block lies in the memory and holds what its owner last put there, or
\* zeros if Arena_zalloc made it, whatever is allocated, cleared, given back
\* and filled beside it.
Kept ==
  \A k \in DOMAIN blocks :
    /\ Of(blocks[k]) \subseteq Addresses
    /\ blocks[k].val # Undefined => \A a \in Of(blocks[k]) : mem[a] = blocks[k].val

\* What the users of an arena rely on (arena.c): blocks that are apart and hold
\* what was put there.
ArenaKept == Stacked /\ Kept
=============================================================================
