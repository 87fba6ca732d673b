SPECIFICATION LoopsSpec
CONSTANTS
  Fds = {s, l, f1, f2}
  Coros = {c1, c2, c3, c4}
  Listener = l
  ErrorHandler = "set"
  HandlersDelete = TRUE
  Events = {"IN", "HUP"}
  Stdin = s
  Line = 2
  MaxLines = 2
  MaxConns = 3
SYMMETRY Symmetric
INVARIANTS Aligned Owned NoneOver BroadcastAtMostOnce 
PROPERTIES ResumedOnlyIfDue
CHECK_DEADLOCK FALSE
