SPECIFICATION ServerSpec
CONSTANTS
  Names = {n1}
  Buckets = {b1, b2}
  Callers = {c1, c2}
  Intensity = 1
  Keys = {k1}
  Values = {v1}
SYMMETRY Symmetry
INVARIANT HeldIsNamed
PROPERTY Implements
CHECK_DEADLOCK FALSE
