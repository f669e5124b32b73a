\* Adding and removing channels and values, starting and stopping.
CONSTANTS
  CounterSize = 3
  MAX_NUM_CHANNELS = 2
  Rates = {2}
  Hertzes = {1}
  Manual = {0}
  Configs = {"SINE"}
  Menu = {"STOP"}
  Buttons = {"Remove channel", "Remove value"}
  Garbage = Garbage
  MaxASDUs = 3
  MaxSlots = 2
  MaxSockets = 2
  Nanos = 10
  LastMoment = 35
SPECIFICATION Spec
INVARIANTS LaidOutBeforeUse SlotsOwned LiveCountersAgree
CHECK_DEADLOCK FALSE
