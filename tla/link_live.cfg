SPECIFICATION AnsweringSpec
CONSTANTS
  SingleEdits = {}
  MultipleEdits = {}
  Relays = {0, 1}
  Faults = {"uart"}
  CounterMod = 4
  SilenceCap = 2
PROPERTIES FailureNeedsSilence LinkHeals FailureIsDeclared HvEventuallyApplied
