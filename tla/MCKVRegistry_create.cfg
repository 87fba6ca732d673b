SPECIFICATION Spec
CONSTANTS
  Names = {n1, n2}
  Buckets = {b1, b2, b3}
  Callers = {c1, c2}
  Intensity = 1
PROPERTY CreateEnsures
CHECK_DEADLOCK FALSE
