SPECIFICATION Spec
CONSTANTS
  k1 = k1
  k2 = k2
  s1 = s1
  s2 = s2
  m1 = m1
  m2 = m2
  i1 = i1
  i2 = i2
  q1 = q1
  t1 = t1
  None = None
  Conns = {k1, k2}
  Subs = {s1, s2}
  Msgs = {m1, m2}
  Ids = {i1, i2}
  Queues = {q1}
  Topics = {t1}
  AckModes = {"auto", "client"}
  ReqCap = 1
  SubCap = 1
  WriteCap = 1
  Commands = {"SUBSCRIBE", "UNSUBSCRIBE", "SEND", "ACK", "NACK"}
  FirstAckId = 0
  MaxMsgId = 3
  Leaving = {k1, k2}
SYMMETRY BrokerSymmetry
INVARIANT TypeOK
INVARIANT NoPanic
INVARIANT NobodyWaits
INVARIANT OneOwner
INVARIANT NoLoss
INVARIANT NoGhost
INVARIANT TopicExactlyOnce
PROPERTY QueueRefinement
CHECK_DEADLOCK FALSE
