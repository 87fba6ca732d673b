SPECIFICATION Spec
CONSTANTS
  MaxClients = 3
  Master = 1
  MaxFd = 6
  NClients = 4
INVARIANT RefusedIsClosed
CHECK_DEADLOCK FALSE
