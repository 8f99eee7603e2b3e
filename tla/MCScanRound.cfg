SPECIFICATION Spec
CONSTANTS
    Pid = {1, 2}
    Root = {"host", "box"}
    Path = {"/run/app"}
    NoPath = NoPath
    Dir = {"web.slice", "user"}
    Walked <- MCWalked
    GroupOf <- MCGroupOf
    NoGroup = NoGroup
    NoProcess = NoProcess
    InitTables <- MCTables
    MaxStarts = 2
    MaxEvents = 3
INVARIANTS
    OwnMetadata
    FileOnce
    Reported
