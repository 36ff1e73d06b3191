SPECIFICATION FairSpec
CONSTANTS
  Ms = 2
  Timeouts = {0, 1, 5, 14}
  HeartBeatErrors = {2, 3}
  ServerHeartBeats = {2, 12}
  Grace = 1
  MaxHeartBeat = 5
  Delay = 1
  MaxInFlight = 1
  Skips = {"toServer", "toClient"}
  CanStop = {"toServer", "toClient"}
INVARIANT TypeOK
INVARIANT NoFalseTimeout
PROPERTY SilenceDetected
CHECK_DEADLOCK FALSE
