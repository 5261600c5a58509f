SPECIFICATION Spec
CONSTANTS
  Doses <- Readings
  LimitChoices <- AnyOrder
  AgmModes = {0, 1}
  AudioModes = {1}
  PcBlocks <- FewBlocks
  Voltages = {"in", "out"}
  Exports = FALSE
INVARIANTS TypeOK RegistersAgree OutputsFollowState AnnouncedWithinOneLoop
 
