SPECIFICATION Spec
CONSTANTS
  c1 = c1
  c2 = c2
  c3 = c3
  c4 = c4
  Nobody = Nobody
  Calls = {c1, c2, c3, c4}
  Ops = {"Begin", "Send", "Ack", "Nack", "Commit", "Abort", "Subscribe", "Unsubscribe"}
  Timeouts = TRUE
  Breaks = TRUE
SYMMETRY CallSymmetry
INVARIANT TypeOK
INVARIANT OnlyRacesRefused
INVARIANT ReceiptMeansTaken
INVARIANT NobodyForgotten
PROPERTY VersionAgreed
PROPERTY TxAtomic
CHECK_DEADLOCK FALSE
