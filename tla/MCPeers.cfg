SPECIFICATION Spec
CONSTANTS
    n1 = n1
    n2 = n2
    Node = {n1, n2}
    Offset <- MCOffset
    MinPing = 0
    MaxPing = 1
    FailTime = 2
    RemoveTime = 3
    GCInterval = 1
    MaxDelay = 1
    MaxSkew = 1
    NoPeer = NoPeer
    MaxPackets = 1
    MaxDeaths = 1
    MaxRestarts = 1
INVARIANTS
    RemovedInTime
PROPERTIES
    NotBack
    KeptWhileHeard
    Discovered
