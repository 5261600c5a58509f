SPECIFICATION FairSpec
CONSTANTS
  Links = {"rs485", "tcp"}
  PcRanges <- Blocks
  MaxEdits = 2
INVARIANT ConfigurationIsApplied
PROPERTY BanksShowDetector
