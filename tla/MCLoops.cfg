SPECIFICATION LoopsSpec
CONSTANTS
  Fds = {f1, f2, f3}
  Coros = {c1, c2, c3}
  Listener = f1
  Peers = {p1, p2}
  Quitters = {p2}
  Want = 2
  QuitLen = 1
  MaxSend <- Sends
  SendCap = 1
  Resetters = {p2}
  LoopFds = {f1, f2}
  LoopCoros = {c1, c2}
  FirstCoro = c1
PROPERTIES ServerImplements LoopServed LoopStops EchoComplete
CHECK_DEADLOCK FALSE
