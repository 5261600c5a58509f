SPECIFICATION Spec
CONSTANTS
    d = d
    v = v
    bad = bad
    Good <- GoodValues
    Bad = bad
    Default = d
    Largest = v
    Blocks <- MixedBlocks
    MaxWrites = 2
    MaxEdits = 1
    MaxFaults = 2
INVARIANTS TypeOK CopiesAgree SettingsInRange SettingsInUse MemoryMatches
PROPERTIES RestartKeepsSettings SaveChangesOnlyEdits RangeLostOnlyUnchecked
