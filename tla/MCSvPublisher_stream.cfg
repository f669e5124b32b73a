\* Every ASDU can be found, and the handle implements SvStream.
CONSTANTS
  v1 = v1
  v2 = v2
  Value = {v1, v2}
  Unset = Unset
  Base = 2
  NameLens = {1}
  DatSetLens <- NoDatSets
  Sizes = {1, 4}
  Optional = {"refrTm"}
  MaxASDUs = 2
  MaxValues = 2
  Capacity = 80
SPECIFICATION Spec
INVARIANTS AreasDisjoint EveryASDUReachable
PROPERTY ImplementsStream
CHECK_DEADLOCK FALSE
