SPECIFICATION Spec
CONSTANTS
  MAX_RECORDS = 3
  CountMod = 6
  Blanks <- Leftovers
  Faults <- AllFaults
  MaxStamp = 8
CONSTRAINT Promised
INVARIANTS TypeOK IndexOnCardIsCurrent ScanFindsTheEnd CountersTellOrder
PROPERTY LogIsRing
