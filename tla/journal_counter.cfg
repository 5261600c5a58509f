SPECIFICATION Spec
CONSTANTS
  MAX_RECORDS = 3
  CountMod = 16
  Blanks <- Zeros
  Faults <- PowerFaults
  MaxStamp = 6
INVARIANT CounterRestored
