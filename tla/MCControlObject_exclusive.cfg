\* Two clients and one order.
CONSTANTS
  ObjectCount = 1
  Nobody = Nobody
  Clients = {c1, c2}
  CtlModel <- Selected
  OperateOnce <- Once
  SelectTimeout <- Timeout
  MaxOrders = 1
SPECIFICATION Spec
PROPERTY SelectionExclusive
