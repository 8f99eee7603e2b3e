SPECIFICATION Spec
CONSTANTS
    a1 = a1
    a2 = a2
    b1 = b1
    p = p
    q = q
    Addr <- MCAddr
    NoAddr = NoAddr
    Port = {p, q}
    PortOf <- MCPortOf
    Uid = {u1, u2}
    MaxDetails = 1
    MaxLines = 4
INVARIANTS
    EverySocketOnce
    Classified
    DetailsWhole
CHECK_DEADLOCK FALSE
