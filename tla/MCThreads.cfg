SPECIFICATION FairSpec
CONSTANTS
  a = a
  b = b
  c = c
  ThreadSet = {a, b, c}
  MaySend <- Path
  MayStop <- AStopsB
  MayQuit = {b}
  MayClear = {b}
  MaxSends = 3
  MaxPosts = 2
INVARIANTS
  NoDanglingReady
  NoSendForgotten
  NoLostWakeUp
  OnlyTargetReenters
PROPERTY SendReturns
CHECK_DEADLOCK FALSE
