SPECIFICATION FairSpec
CONSTANTS
  Messages <- MCMessages
  Size <- MCSize
  kMaxQueuedSendDataBytes = 2
  kMaxQueuedReceivedDataBytes = 2
  MaxMsgs = 3
  MaxPosts = 1
  MaxControl = 1
INVARIANTS
  QueuedDataHasState
  NoLossNoReorder
  OpenLeads
  ClosedOnce
  ReceivedInOrder
  QueuesBounded
PROPERTIES
  OnlyForward
  EventuallyOpens
  EventuallyCloses
