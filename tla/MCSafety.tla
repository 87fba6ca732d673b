------------------------------- MODULE MCSafety -------------------------------
(***************************************************************************)
(* Small instances of the programs of which only safety is checked: MSS,   *)
(* Arena, Dynbuf, Bignum, Pmap, Songs, Transfer, Pinentry and Pipes.  They *)
(* have nothing to do with each other: `program` says which one a          *)
(* behaviour is about, and the others stay in an initial state.            *)
(***************************************************************************)
EXTENDS MSS, Arena, Dynbuf, Pmap, Songs, Transfer, Pinentry, Pipes

CONSTANTS Magnitudes, Points, Terms  \* Bignum

\* What the proofs about these programs assume of their constants.
ASSUME InstanceAssumption == ArenaAssumption /\ SongsAssumption /\ SizeAssumption

VARIABLES
  program,
  x, y, res, op  \* Bignum

N == INSTANCE Bignum

bignumVars == <<x, y, res, op>>

tableVars == <<arenaVars, dynbufVars, bignumVars, pmapVars>>
lateVars == <<songsVars, transferVars, pinVars, pipesVars>>
allVars == <<program, vars, tableVars, lateVars>>

SafetyInit ==
  /\ program \in {"mss", "arena", "dynbuf", "bignum", "pmap", "songs", "transfer",
                  "pinentry", "pipes"}
  /\ Init /\ ArenaInit /\ DynbufInit /\ N!Init /\ PmapInit
  /\ SongsInit /\ TransferInit /\ PinInit /\ PipesInit
  /\ program # "transfer" => content = <<1>>
  /\ program # "pinentry" => runUI = "gui"
  /\ program # "pipes" => width = 1 /\ height = 1 /\ pipe.d = 0

Early ==
  \/ program = "mss" /\ Next /\ UNCHANGED tableVars
  \/ program = "arena" /\ ArenaNext /\ UNCHANGED <<vars, dynbufVars, bignumVars, pmapVars>>
  \/ program = "dynbuf" /\ DynbufNext /\ UNCHANGED <<vars, arenaVars, bignumVars, pmapVars>>
  \/ program = "bignum" /\ N!Next /\ UNCHANGED <<vars, arenaVars, dynbufVars, pmapVars>>
  \/ program = "pmap" /\ PmapNext /\ UNCHANGED <<vars, arenaVars, dynbufVars, bignumVars>>

Late ==
  \/ program = "songs" /\ SongsNext /\ UNCHANGED <<transferVars, pinVars, pipesVars>>
  \/ program = "transfer" /\ TransferNext /\ UNCHANGED <<songsVars, pinVars, pipesVars>>
  \/ program = "pinentry" /\ PinNext /\ UNCHANGED <<songsVars, transferVars, pipesVars>>
  \/ program = "pipes" /\ Extend /\ UNCHANGED <<songsVars, transferVars, pinVars>>

SafetyNext ==
  /\ UNCHANGED program
  /\ \/ Early /\ UNCHANGED lateVars
     \/ Late /\ UNCHANGED <<vars, tableVars>>

SafetySpec == SafetyInit /\ [][SafetyNext]_allVars

\* Bignum: sums, differences, products, comparisons and binary splittings are
\* exact (nothing is said of the sign of a product of two digits, see
\* N!ProductExact), and no operation changes the values of its operands.
BignumExact == N!Exact
=============================================================================
