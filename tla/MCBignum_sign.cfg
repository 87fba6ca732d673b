SPECIFICATION Spec
CONSTANTS
  Magnitudes = {0, 5, 9, 10}
  Points = {0, 1}
  Terms = 2
INVARIANT ProductExact
CHECK_DEADLOCK FALSE
