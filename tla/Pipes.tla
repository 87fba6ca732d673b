-------------------------------- MODULE Pipes ---------------------------------
(***************************************************************************)
(* c/pipes.c: pipes that grow across the terminal, one character at a time *)
(* and turning at random.  Positions count from 0, and the screen wraps    *)
(* around.                                                                 *)
(***************************************************************************)
EXTENDS Naturals, Sequences

CONSTANTS Widths, Heights  \* the sizes of terminals

ASSUME PipesAssumption == Widths \subseteq Nat /\ Heights \subseteq Nat

VARIABLES
  width, height,  \* of the terminal
  pipe,           \* the pipe: x, y and its direction d
  drawn           \* history: where and what was drawn last, or Undrawn

pipesVars == <<width, height, pipe, drawn>>

Undrawn == [at |-> <<>>]
UP == 0
LEFT == 1
DOWN == 2
RIGHT == 3
FINAL == 4

\* The sides of a cell that each character joins; "!" joins none.  Rows are the
\* new direction, columns the old one.
chars ==
  << {UP, DOWN},   {UP, RIGHT},    {},           {UP, LEFT},
     {DOWN, LEFT}, {LEFT, RIGHT},  {UP, LEFT},   {},
     {},           {DOWN, RIGHT},  {UP, DOWN},   {DOWN, LEFT},
     {DOWN, RIGHT}, {},            {UP, RIGHT},  {LEFT, RIGHT} >>

\* turnRand adds 3, 1 or 0.
Turns == {FINAL - 1, 1, 0}

dirDelta_Swapped(d, check, mod) ==  \* mutant: the other axis
  IF d % 2 # check THEN 0 ELSE IF d > 1 THEN 1 ELSE mod - 1
dirDelta(d, check, mod) ==
  IF d % 2 = check THEN 0 ELSE IF d > 1 THEN 1 ELSE mod - 1

\* extendPipe
Extend ==
  /\ \E turn \in Turns :
       LET d == (pipe.d + turn) % FINAL
       IN  /\ drawn' = [at |-> <<pipe.x, pipe.y>>, char |-> chars[d * 4 + pipe.d + 1]]
           /\ pipe' = [x |-> (pipe.x + dirDelta(d, 0, width)) % width,
                       y |-> (pipe.y + dirDelta(d, 1, height)) % height, d |-> d]
  /\ UNCHANGED <<width, height>>

\* startPipe counts from 1: a pipe may start one column or row off the screen.
PipesInit ==
  /\ width \in Widths /\ height \in Heights
  /\ pipe \in [x : 1 .. width, y : 1 .. height, d : 0 .. FINAL - 1]
  /\ drawn = Undrawn

PipesSpec == PipesInit /\ [][Extend]_pipesVars

-----------------------------------------------------------------------------
(* Properties *)

Opposite(d) == (d + 2) % FINAL
OnScreen(at) == at[1] < width /\ at[2] < height
\* The cell next to another, in a direction.
Beside(at, d) ==
  <<CASE d = LEFT -> (at[1] + width - 1) % width [] d = RIGHT -> (at[1] + 1) % width [] OTHER -> at[1],
    CASE d = UP -> (at[2] + height - 1) % height [] d = DOWN -> (at[2] + 1) % height [] OTHER -> at[2]>>

\* Every character joins exactly the side the pipe comes from and the side it
\* goes on to, and from the second one on it is on the screen and next to the
\* one before: no pipe is ever broken.
PipesConnected ==
  [][drawn' # Undrawn =>
       /\ drawn'.char = {Opposite(pipe.d), pipe'.d}
       /\ OnScreen(<<pipe'.x, pipe'.y>>)
       /\ OnScreen(drawn'.at) => <<pipe'.x, pipe'.y>> = Beside(drawn'.at, pipe'.d)]_pipesVars
=============================================================================
