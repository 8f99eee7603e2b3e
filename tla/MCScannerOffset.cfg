SPECIFICATION Spec
CONSTANTS
    Key = {k1}
    TipValue <- MCTipValue
    Samples <- Sample
    NoValue = NoValue
    Gap = Gap
    NoHistory = NoHistory
    Start = 4
    MaxClock = 8
    MaxSteps = 1
    MaxCrashes = 1
    SnapshotInterval = 1
    TipTime = 1
    BacklogTimes = {2, 3}
    Hour = 2
    LargeOffset = 2
PROPERTY
    LargeOffsetIsFatal
CHECK_DEADLOCK FALSE
