SPECIFICATION Spec
CONSTANTS
  c1 = c1
  c2 = c2
  c3 = c3
  c4 = c4
  Nobody = Nobody
  Calls = {c1, c2, c3}
  Ops = {"Subscribe", "Ack"}
  Timeouts = FALSE
  Breaks = FALSE
INVARIANT AckAccepted
CHECK_DEADLOCK FALSE
