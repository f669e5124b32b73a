\* A patient and careful application, two starts, three frames.
CONSTANTS
  s1 = s1
  s2 = s2
  a1 = a1
  a2 = a2
  None = None
  Subscriber <- TwoSubscribers
  AppIdOf <- AppIds
  AddrOf <- Addrs
  Frame <- OwnFrames
  MaxStarts = 2
  MaxFrames = 3
  QueueSize = 2
  Patient = TRUE
SPECIFICATION FairSpec
INVARIANTS QuietWhenStopped ElementInList
PROPERTIES CallsInOrder CallsMatch StopTerminates FramesTaken
CHECK_DEADLOCK FALSE
