SPECIFICATION Spec
CONSTANTS
    Address = {a1, a2}
    Reachable = {a1}
    RetryTimes = 2
    RetryMin = 2
    RetryExponent = 2
    RetryCap = 3
    RandomLow = 50
    RandomHigh = 150
    Interval = 2
    MaxAsked = 2
INVARIANTS
    OneRetry
    PingBudget
PROPERTIES
    GivesUpLate
    BacksOff
    Settled
