----------------------------- MODULE MCKVServer ------------------------------
\* KVServer on small instances.
EXTENDS KVServer, TLC

FairSpec2 == ServerSpec /\ ServerFairness
Symmetry == Permutations(Buckets) \cup Permutations(Names) \cup Permutations(Callers) \cup Permutations(Values)
=============================================================================
