SPECIFICATION ReadingSpec
CONSTANTS
  k1 = k1
  k2 = k2
  s1 = s1
  s2 = s2
  m1 = m1
  m2 = m2
  i1 = i1
  i2 = i2
  q1 = q1
  t1 = t1
  None = None
  Conns = {k1, k2}
  Subs = {s1, s2}
  Msgs = {m1, m2}
  Ids = {i1}
  Queues = {q1}
  Topics = {}
  AckModes = {"auto"}
  ReqCap = 2
  SubCap = 2
  WriteCap = 1
  Commands = {"SUBSCRIBE", "SEND"}
  FirstAckId = 1
  MaxMsgId = 2
  Leaving = {}
PROPERTY QueueServed
CHECK_DEADLOCK FALSE
