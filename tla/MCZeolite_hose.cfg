SPECIFICATION Spec
CONSTANTS
  Cap = 2
  MaxMsgs <- Msgs
INVARIANT HeadersExchanged
CHECK_DEADLOCK FALSE
