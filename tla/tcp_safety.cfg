SPECIFICATION FairSpec
CONSTANTS
  Faults <- AllFaults
  PinPulses = TRUE
  RetryMod = 5
INVARIANTS TypeOK InterruptsAreNotLost KeepAliveIsArmed SendingEnds
PROPERTIES ListensUnlessMarkStale LoopGoesOn RequestsAnswered
