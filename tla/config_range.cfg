SPECIFICATION Spec
CONSTANTS
    d = d
    v = v
    bad = bad
    Good <- GoodValues
    Bad = bad
    Default = d
    Largest = v
    Blocks <- LimitBlocks
    MaxWrites = 2
    MaxEdits = 0
    MaxFaults = 0
INVARIANT AlarmLimitInRange
