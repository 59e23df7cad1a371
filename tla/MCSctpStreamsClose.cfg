SPECIFICATION FairSpec
CONSTANTS
  kMaxSctpSid = 1
  MaxChannels = 1
  MaxData = 1
PROPERTY ClosePropagates
CHECK_DEADLOCK FALSE
