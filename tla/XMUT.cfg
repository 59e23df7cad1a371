SPECIFICATION FairSpec
CONSTANTS
  Handlers = {h1, h2}
  ClockModulus = 16
  Periods <- MCPeriods
  Delays <- MCDelays
  Waits = {1}
  MaxPosts = 2
  MaxLate = 1

PROPERTY EventuallyGot
CHECK_DEADLOCK FALSE
