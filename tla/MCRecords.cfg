\* An alert sent, one received, a packet relayed, over a relay queue of two; one restart.
SPECIFICATION Spec
CONSTANTS
    o1 = o1
    o2 = o2
    i1 = i1
    i2 = i2
    f1 = f1
    f2 = f2
    Outgoing = {o1}
    Incoming = {i1}
    Foreign = {f1}
    MaxRelay = 2
    MaxRestart = 1
INVARIANTS
    TypeOK
    AckIsRecorded
    StatusAgrees
    ScreenIsStored
    RelayKeepsNewest
CHECK_DEADLOCK FALSE
