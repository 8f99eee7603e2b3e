SPECIFICATION Spec
CONSTANTS
    Key <- MCKey
    TipValue <- MCTipValue
    Samples <- MCSamples
    NoValue = NoValue
    Gap = Gap
    NoHistory = NoHistory
    Start = 2
    MaxClock = 6
    MaxSteps = 0
    MaxCrashes = 0
    SnapshotInterval = 1
    TipTime = 1
    BacklogTimes = {2}
    Hour = 100
    LargeOffset = 2
    PerSecond = 12
    Shortened <- MCShortened
    NaN = NaN
    MetricName = {"user_time", "avg"}
    Interval = 2
INVARIANTS
    SumsAreSamples
    RatesAreSamples
    
    CarbonApps
CHECK_DEADLOCK FALSE
