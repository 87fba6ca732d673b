SPECIFICATION Spec
CONSTANTS
  Fds = {f1, f2, f3}
  Coros = {c1, c2, c3}
  Listener = f1
  Peers = {p1, p2, p3}
  Quitters = {p3}
  Want = 2
  QuitLen = 1
  MaxSend <- Sends
  SendCap = 1
  Resetters = {p1, p2, p3}
SYMMETRY Symmetric
INVARIANTS Echo AcceptFindsOne
CHECK_DEADLOCK FALSE
