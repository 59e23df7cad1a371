SPECIFICATION Spec
CONSTANTS
  ToSend <- AWrites
  Sizes = {2}
  ConnectLen = 1
  RcvBufLen = 2
  SndBufLen = 2
  MssLevels <- TwoSizes
  PathMss = 1
  MaxXmit = 2
  MaxXmitConnect = 1
  Nagling = TRUE
  DelayAcks = TRUE
  Connectors = {"A"}
  Closers = {"A"}
  MayFail = {"A", "B"}
  MaxCwnd = 2
  MaxPackets = 2
  MaxFaults = 1
  ConnectFirst = TRUE
INVARIANTS
  SegmentsTile
  WindowKept
  NoStall
PROPERTIES
  IsPipe
  GracefulDelivers
CHECK_DEADLOCK FALSE
