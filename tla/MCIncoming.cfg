SPECIFICATION Spec
CONSTANTS
    Connection = {c1, c2}
    Request = {r1, r2}
    Query <- MCQuery
    NoQuery = NoQuery
    MaxRequests = 2
INVARIANTS
    Registered
    NoTriggerLost
    Stopped
PROPERTY
    Shown
