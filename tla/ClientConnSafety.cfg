SPECIFICATION Spec
CONSTANTS
  c1 = c1
  c2 = c2
  c3 = c3
  Nobody = Nobody
  Calls = {c1, c2, c3}
  Ops = {"Send", "SendReceipt", "Frame", "FrameReceipt", "Subscribe", "SubscribeReplyTo", "Unsubscribe", "Disconnect", "MustDisconnect"}
  WriteCap = 1
  ReadCap = 1
  MaxReads = 2
  MsgSendTimeout = TRUE
  RcvReceiptTimeout = TRUE
  DisconnectReceiptTimeout = TRUE
  ReadTimeout = TRUE
  WriteTimeout = TRUE
SYMMETRY CallSymmetry
INVARIANT TypeOK
INVARIANT NoPanic
INVARIANT LockDiscipline
INVARIANT ChannelDiscipline
INVARIANT ReceiptMeansAnswered
INVARIANT ShutdownComplete
INVARIANT NoStuckDelivery
PROPERTY ClosedRefuses
CHECK_DEADLOCK FALSE
