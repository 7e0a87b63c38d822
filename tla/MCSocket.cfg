SPECIFICATION FairSpec
CONSTANTS
  s1 = s1
  s2 = s2
  None = None
  Servers = {s1, s2}
  Args <- SomeArgs
  Requests <- SomeRequests
  Frames <- SomeFrames
  MaxSent = 2
  MaxEvents = 2
  Buffer = 2
INVARIANTS
  ListenerOwnsPath
  UpgradeFollowsTable
  FramesDoNotMix
PROPERTIES
  RepliesArrive
CHECK_DEADLOCK FALSE
