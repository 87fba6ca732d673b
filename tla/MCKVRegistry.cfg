SPECIFICATION FairSpec
CONSTANTS
  Names = {n1, n2}
  Buckets = {b1, b2, b3}
  Callers = {c1, c2}
  Intensity = 1
INVARIANTS NoLeak TablesAgree StaleIsDue
PROPERTIES LiveKeepsName Reaped Answered
CHECK_DEADLOCK FALSE
