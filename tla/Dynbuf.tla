-------------------------------- MODULE Dynbuf --------------------------------
(***************************************************************************)
(* c/covis/src/dynbuf.c: an array that grows and shrinks with realloc.     *)
(* glibc's realloc to size 0 frees the memory and returns NULL, which the  *)
(* code takes for a failure: it keeps the pointer.                         *)
(***************************************************************************)
EXTENDS Integers, Sequences, SequencesExt

CONSTANTS
  Elements, \* what is stored
  MaxCount  \* bound: elements in the buffer

ASSUME DynbufAssumption == MaxCount \in Nat

VARIABLES
  count,   \* d->count
  dynData, \* what d->data points to
  ptr,     \* the pointer: "NULL", "live" or "freed"
  dynRet,  \* what the last call returned
  ideal    \* history: the elements there should be

dynbufVars == <<count, dynData, ptr, dynRet, ideal>>

Garbage == "garbage"  \* memory that was not written

\* reallocarray for n elements.  Size 0 frees the memory, if there is any.
Realloc(mem, n, fails) ==
  CASE n = 0 /\ ptr = "live" -> [ret |-> -1, ptr |-> "freed", mem |-> <<>>]
    [] fails -> [ret |-> -1, ptr |-> ptr, mem |-> mem]
    [] OTHER -> [ret |-> 0, ptr |-> "live",
                 mem |-> [k \in 1 .. n |-> IF k <= Len(mem) THEN mem[k] ELSE Garbage]]

\* memmove and memcpy of n elements; positions count from 0.
Move(mem, to, from, n) ==
  [k \in DOMAIN mem |-> IF k \in to + 1 .. to + n THEN mem[k - to + from] ELSE mem[k]]
Write(mem, pos, new) ==
  [k \in DOMAIN mem |-> IF k \in pos + 1 .. pos + Len(new) THEN new[k - pos] ELSE mem[k]]

-----------------------------------------------------------------------------

Resize(n, fails) ==
  LET r == Realloc(dynData, n, fails)
  IN  /\ ptr # "freed"
      /\ dynData' = r.mem /\ ptr' = r.ptr /\ dynRet' = r.ret
      /\ count' = IF r.ret = 0 THEN n ELSE count
      /\ ideal' = IF r.ret = 0
                  THEN [k \in 1 .. n |-> IF k <= Len(ideal) THEN ideal[k] ELSE Garbage] ELSE ideal

MoveCount_Short(pos) == IF count > pos THEN count - pos - 1 ELSE 0  \* mutant
MoveCount(pos) == count - pos

Insert(pos, new, fails) ==
  LET r == Realloc(dynData, count + Len(new), fails)
  IN  /\ ptr # "freed" /\ pos <= count /\ count + Len(new) <= MaxCount
      /\ dynData' = IF r.ret = 0 THEN Write(IF pos < count THEN Move(r.mem, pos + Len(new), pos, MoveCount(pos))
                                    ELSE r.mem, pos, new)
                 ELSE r.mem
      /\ ptr' = r.ptr /\ dynRet' = r.ret
      /\ count' = IF r.ret = 0 THEN count + Len(new) ELSE count
      /\ ideal' = IF r.ret = 0 THEN SubSeq(ideal, 1, pos) \o new \o SubSeq(ideal, pos + 1, Len(ideal))
                  ELSE ideal

\* The elements are moved and counted before the memory is made smaller, which
\* may fail: what it returns does not tell whether they are gone.
Delete(pos, n, fails) ==
  LET moved == Move(dynData, pos, pos + n, count - pos - n)
      r == Realloc(moved, count - n, fails)
  IN  /\ ptr # "freed" /\ pos + n <= count
      /\ dynData' = r.mem /\ ptr' = r.ptr /\ dynRet' = r.ret
      /\ count' = count - n
      /\ ideal' = SubSeq(ideal, 1, pos) \o SubSeq(ideal, pos + n + 1, Len(ideal))

Overwrite(pos, new) ==
  /\ ptr = "live" /\ pos + Len(new) <= count
  /\ dynData' = Write(dynData, pos, new)
  /\ ideal' = Write(ideal, pos, new)
  /\ UNCHANGED <<count, ptr, dynRet>>

\* dynbuf_make
DynbufInit == count = 0 /\ dynData = <<>> /\ ptr = "NULL" /\ dynRet = 0 /\ ideal = <<>>

News == UNION {[1 .. n -> Elements] : n \in 1 .. 2}
DynbufNext ==
  \E pos \in 0 .. MaxCount, fails \in BOOLEAN :
    \/ Resize(pos, fails)
    \/ \E new \in News : Insert(pos, new, fails) \/ Overwrite(pos, new)
    \/ \E n \in 1 .. MaxCount : Delete(pos, n, fails)

DynbufSpec == DynbufInit /\ [][DynbufNext]_dynbufVars

-----------------------------------------------------------------------------
(* Properties *)

\* The buffer holds the elements that were inserted and not deleted, in order,
\* also after calls that could not get memory: a failed insertion changes
\* nothing, a deletion is carried out although it reports -1.  The pointer
\* dangles only when the last element was deleted, or the buffer resized to 0,
\* and that call returned -1.
DynbufHolds ==
  /\ ptr # "freed" => count = Len(ideal) /\ count <= Len(dynData)
                      /\ \A k \in 1 .. count : ideal[k] # Garbage => dynData[k] = ideal[k]
  /\ ptr = "freed" => dynRet = -1 /\ (ideal = <<>> \/ count = Len(ideal))
=============================================================================
