SPECIFICATION FairSpec2
CONSTANTS
  Names = {n1}
  Buckets = {b1}
  Callers = {c1, c2}
  Intensity = 0
  Keys = {k1}
  Values = {v1}
PROPERTY Served
CHECK_DEADLOCK FALSE
