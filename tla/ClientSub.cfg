SPECIFICATION ReadingSpec
CONSTANTS
  Cap = 2
  MaxMsgs = 3
  Timeout = TRUE
  ConnMayClose = TRUE
INVARIANT TypeOK
INVARIANT EndsClosed
INVARIANT OnlyUnsubscribePanics
INVARIANT AllPutBeforeClose
PROPERTY UnsubscribeCloses
PROPERTY TimeoutEndsWait
CHECK_DEADLOCK FALSE
