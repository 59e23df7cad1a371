SPECIFICATION Spec
CONSTANTS
  ToSend <- BWrites
  Sizes = {2}
  ConnectLen = 1
  RcvBufLen = 3
  SndBufLen = 4
  MssLevels <- OneSize
  PathMss = 1
  MaxXmit = 2
  MaxXmitConnect = 2
  Nagling = TRUE
  DelayAcks = TRUE
  Connectors = {"A"}
  Closers = {}
  MayFail = {}
  MaxCwnd = 4
  MaxPackets = 3
  MaxFaults = 0
  ConnectFirst = FALSE
INVARIANT
  RightBytes
CHECK_DEADLOCK FALSE
