SPECIFICATION ReadingSpec
CONSTANTS
  Cap = 2
  MaxMsgs = 3
  Timeout = FALSE
  ConnMayClose = FALSE
PROPERTY UnsubscribeReturns
CHECK_DEADLOCK FALSE
