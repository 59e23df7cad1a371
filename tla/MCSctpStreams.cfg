SPECIFICATION FairSpec
CONSTANTS
  kMaxSctpSid = 1
  MaxChannels = 2
  MaxData = 1
INVARIANTS
  TypeOK
  StreamsDisjoint
  SidsOfChannels
  NoStrandedReset
PROPERTY ResetCloses
CHECK_DEADLOCK FALSE
