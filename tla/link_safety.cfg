SPECIFICATION Spec
CONSTANTS
  SingleEdits = {"FREQ_SWITCH"}
  MultipleEdits = {"CALIB"}
  Relays = {0, 1}
  Faults = {"power"}
  CounterMod = 4
  SilenceCap = 2
INVARIANTS HvSwitchFollowsRelay PendingWriteIsReal
