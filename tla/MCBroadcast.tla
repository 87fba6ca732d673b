----------------------------- MODULE MCBroadcast ------------------------------
(***************************************************************************)
(* Small instances of EventLoop and of Broadcast, a program that runs on   *)
(* it, in the same variables: `program` says which one a behaviour is of.  *)
(* The coroutines of the first do whatever the library offers, those of    *)
(* the second what they are programmed to.                                 *)
(***************************************************************************)
EXTENDS EventLoop, Broadcast, TLC

\* What the proofs about Broadcast assume of its constants.
ASSUME InstanceAssumption == BroadcastAssumption

VARIABLE program

progVars == <<added, reader, input, line, conn, backlog, ready, got, born, moved>>

LoopsInit ==
  /\ program \in {"any", "broadcast"}
  /\ Init /\ BroadcastInit

\* A program of its own leaves standard input alone.
LoopsNext ==
  /\ UNCHANGED program
  /\ \/ program = "any" /\ Next /\ Stdin \notin open' /\ UNCHANGED progVars
     \/ program = "broadcast" /\ BroadcastNext /\ UNCHANGED kernel

LoopsSpec == LoopsInit /\ [][LoopsNext]_<<vars, program, progVars>>

Symmetric == Permutations(Coros) \cup Permutations(Fds \ {Listener, Stdin})
=============================================================================
