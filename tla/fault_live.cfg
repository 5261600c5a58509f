SPECIFICATION FairSpec
CONSTANTS
  Doses <- FewReadings
  LimitChoices <- OneOrder
  AgmModes = {1}
  AudioModes = {0}
  PcBlocks <- NoBlocks
  Voltages = {"in", "out"}
  Exports = TRUE
PROPERTIES AutoRecovers LoopShowsFault
