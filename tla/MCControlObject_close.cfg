\* A client that operates and goes.
CONSTANTS
  ObjectCount = 1
  Nobody = Nobody
  Clients = {c1}
  CtlModel <- Direct
  OperateOnce <- Once
  SelectTimeout <- Timeout
  MaxOrders = 1
SPECIFICATION FairSpec
PROPERTY ClosingEnds
