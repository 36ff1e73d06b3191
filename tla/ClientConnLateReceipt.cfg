SPECIFICATION FairSpec
CONSTANTS
  c1 = c1
  c2 = c2
  c3 = c3
  Nobody = Nobody
  Calls = {c1}
  Ops = {"SendReceipt"}
  WriteCap = 1
  ReadCap = 1
  MaxReads = 1
  MsgSendTimeout = TRUE
  RcvReceiptTimeout = TRUE
  DisconnectReceiptTimeout = FALSE
  ReadTimeout = FALSE
  WriteTimeout = FALSE
PROPERTY DeliveryEnds
CHECK_DEADLOCK FALSE
