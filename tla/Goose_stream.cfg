\* Lossy network that duplicates, clock set back, enabled and disabled.
CONSTANTS
  MinTime = 1
  MaxTime = 4
  Retransmissions = 2
  SqNums = 2
  MaxValue = 1
  Reorders = FALSE
  SetBack = 9
  MaxSetBacks = 1
  WireSize = 2
SPECIFICATION FairSpec
INVARIANTS TypeOK SameStateSameData TimeAllowedKept UpToDate
PROPERTIES ChangesReceived KeepsPublishing
CHECK_DEADLOCK FALSE
