\* a - b - c - d: link loss, lost frames and a stopped mesh; no process dies; a caller of drain.
SPECIFICATION Spec
CONSTANTS
    a = a
    b = b
    c = c
    d = d
    m1 = m1
    m2 = m2
    Node = {a, b, c, d}
    Message = {m1}
    NoPeer = NoPeer
    Unverified = Unverified
    HopLimit = 3
    AnnounceHopLimit = 2
    MaxRelayAttempts = 2
    RetryBase = 1
    From <- OneFromA
    Alerting = {m1}
    To <- OneToD
    Link <- ChainLinks
    InitialBinding <- ChainBinding
    MessageTtl = 4
    AckTtl = 2
    AnnounceTtl = 1
    MaxTime = 4
    MaxStarts = 0
    MaxEnv <- Breaks
PROPERTIES
    CustodyIsKept
    QueueIsDurable
CHECK_DEADLOCK FALSE
