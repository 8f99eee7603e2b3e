SPECIFICATION Spec
CONSTANTS
    Nothing = Nothing
    KeepHours = 1
    Wrap = 100
    StartHour = 1
    HourlySnapshots = TRUE
    MaxHour = 4
    MaxHistories = 3
    MaxPeerLists = 2
    MaxFailures = 1
    MaxCrashes = 1
INVARIANTS
    FilesWhole
    NoLostWakeup
    NewestStored
PROPERTIES
    PeersForward
    HourlyKept
    Taken
    ImplementsStore
CHECK_DEADLOCK FALSE
