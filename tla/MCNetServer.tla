----------------------------- MODULE MCNetServer -----------------------------
(* Small instances of NetServer: the second connection needs the descriptor  *)
(* and the coroutine of the first again, or finds none left.                  *)
EXTENDS NetServer, TLC

Sends == [p \in Peers |-> 2]

Symmetric ==
  Permutations(Coros) \cup Permutations(Fds \ {Listener}) \cup Permutations(Peers \ Quitters)
=============================================================================
