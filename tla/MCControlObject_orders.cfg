\* Two clients that select, operate and cancel, close and reconnect; one order.
CONSTANTS
  ObjectCount = 1
  Nobody = Nobody
  Clients = {c1, c2}
  CtlModel <- Selected
  OperateOnce <- Many
  SelectTimeout <- Timeout
  MaxOrders = 1
SPECIFICATION FairSpec
INVARIANTS TypeOK 
PROPERTIES ControlFreed SelectionEnds
