SPECIFICATION FairSpec
CONSTANTS
  c1 = c1
  c2 = c2
  c3 = c3
  Nobody = Nobody
  Calls = {c1, c2, c3}
  Ops = {"SendReceipt", "FrameReceipt", "Disconnect"}
  WriteCap = 3
  ReadCap = 1
  MaxReads = 1
  MsgSendTimeout = TRUE
  RcvReceiptTimeout = TRUE
  DisconnectReceiptTimeout = TRUE
  ReadTimeout = FALSE
  WriteTimeout = TRUE
PROPERTY CallsReturn
PROPERTY RegisteredReleased
CHECK_DEADLOCK FALSE
