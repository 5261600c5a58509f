SPECIFICATION FairSpec
CONSTANTS
  Faults <- SettingsFaults
  PinPulses = TRUE
  RetryMod = 5
PROPERTY ServerListensAgain
