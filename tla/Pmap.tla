--------------------------------- MODULE Pmap ---------------------------------
(***************************************************************************)
(* pmap of c/pthread-test.c: a thread for each element of an array, which  *)
(* is given the element; what it returns is stored when it is joined.      *)
(***************************************************************************)
EXTENDS Naturals

CONSTANT Size  \* elements of the array

SizeAssumption == Size \in Nat

VARIABLES
  pmapPc,  \* "create", "join" or "returned"
  at,      \* the loop index
  thread,  \* "none", "runs", "ended" or "joined", for each index
  array,   \* "given", or "mapped" when it holds what lambda returned for it
  ret      \* the return code; 0 is success

pmapVars == <<pmapPc, at, thread, array, ret>>

Index == 1 .. Size

Create ==
  /\ pmapPc = "create" /\ at <= Size
  /\ thread' = [thread EXCEPT ![at] = "runs"]
  /\ at' = at + 1
  /\ UNCHANGED <<pmapPc, array, ret>>

\* EAGAIN: threads that were created are left to themselves.  At the first
\* element it stands for a failing calloc, too: nothing was created.
CreateFails ==
  /\ pmapPc = "create" /\ at <= Size
  /\ ret' = 1 /\ pmapPc' = "returned"
  /\ UNCHANGED <<at, thread, array>>

StartJoins_Second == 2  \* mutant
StartJoins == 1
AllCreated ==
  /\ pmapPc = "create" /\ at > Size
  /\ pmapPc' = "join" /\ at' = StartJoins
  /\ UNCHANGED <<thread, array, ret>>

\* lambda
Ends(k) ==
  /\ thread[k] = "runs"
  /\ thread' = [thread EXCEPT ![k] = "ended"]
  /\ UNCHANGED <<pmapPc, at, array, ret>>

Join ==
  /\ pmapPc = "join" /\ at <= Size /\ thread[at] = "ended"
  /\ array' = [array EXCEPT ![at] = "mapped"]
  /\ thread' = [thread EXCEPT ![at] = "joined"]
  /\ at' = at + 1
  /\ UNCHANGED <<pmapPc, ret>>

\* The thread cannot be joined, lambda having detached it: what was joined before
\* stays mapped.
JoinFails ==
  /\ pmapPc = "join" /\ at <= Size /\ thread[at] \in {"runs", "ended"}
  /\ ret' = 1 /\ pmapPc' = "returned"
  /\ UNCHANGED <<at, thread, array>>

ReturnMapped ==
  /\ pmapPc = "join" /\ at > Size
  /\ ret' = 0 /\ pmapPc' = "returned"
  /\ UNCHANGED <<at, thread, array>>

PmapInit ==
  /\ pmapPc = "create" /\ at = 1 /\ ret = 1
  /\ thread = [k \in Index |-> "none"]
  /\ array = [k \in Index |-> "given"]

PmapNext ==
  \/ Create \/ CreateFails \/ AllCreated
  \/ Join \/ JoinFails \/ ReturnMapped
  \/ \E k \in Index : Ends(k)

PmapSpec == PmapInit /\ [][PmapNext]_pmapVars

-----------------------------------------------------------------------------
\* pmap returns 0 if and only if every element is mapped, in whatever order the
\* threads end.  When it fails, the array is mapped up to some element: nothing
\* of it if a thread could not be made, and no element after one that was not
\* joined, however far the threads left behind, which may run on, have got.
PmapPrefix ==
  pmapPc = "returned" =>
    /\ ret = 0 <=> \A k \in Index : array[k] = "mapped"
    /\ \A k \in Index :
         /\ array[k] = "mapped" <=> thread[k] = "joined"
         /\ array[k] = "mapped" =>
              \A j \in Index : thread[j] # "none" /\ (j < k => array[j] = "mapped")
=============================================================================
