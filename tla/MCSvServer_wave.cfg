\* One value of each of two channels; all settings and options change while it runs.
\* A second has ten nanoseconds and is observed for three and a half.
CONSTANTS
  CounterSize = 3
  MAX_NUM_CHANNELS = 2
  Rates = {2, 3}
  Hertzes = {1, 2}
  Manual = {0, 1}
  Configs = {"SINE", "MANUAL"}
  Menu = {"NETWORK"}
  Buttons = {}
  Garbage = Garbage
  MaxASDUs = 2
  MaxSlots = 1
  MaxSockets = 2
  Nanos = 10
  LastMoment = 35
SPECIFICATION FairSpec
PROPERTIES FrameShowsPanes StreamAdvances KeepsSending
CHECK_DEADLOCK FALSE
