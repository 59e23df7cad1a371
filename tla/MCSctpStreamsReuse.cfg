SPECIFICATION FairSpec
CONSTANTS
  kMaxSctpSid = 1
  MaxChannels = 1
  MaxData = 1
PROPERTY FreedSidUsable
CHECK_DEADLOCK FALSE
