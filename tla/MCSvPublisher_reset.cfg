\* All value types, smpMod, and a caller that resets an ASDU's data.
CONSTANTS
  v1 = v1
  v2 = v2
  Value = {v1}
  Unset = Unset
  Base = 2
  NameLens = {2}
  DatSetLens <- OneDatSet
  Sizes = {1, 8}
  Optional = {"smpMod", "reset"}
  MaxASDUs = 1
  MaxValues = 2
  Capacity = 75
SPECIFICATION Spec
INVARIANTS SlotsDisjoint CounterInFrame
CHECK_DEADLOCK FALSE
