\* Three devices in range of one another meet for the first time; no caller of drain.
SPECIFICATION AppSpec
CONSTANTS
    a = a
    b = b
    c = c
    d = d
    m1 = m1
    m2 = m2
    Node = {a, b, c}
    Message = {m1}
    NoPeer = NoPeer
    Unverified = Unverified
    HopLimit = 3
    AnnounceHopLimit = 2
    MaxRelayAttempts = 2
    RetryBase = 1
    From <- OneFromA
    Alerting = {m1}
    To <- OneToC
    Link <- TriangleLinks
    InitialBinding <- NoBinding
    MessageTtl = 1
    AckTtl = 1
    AnnounceTtl = 1
    MaxTime = 1
    MaxStarts = 1
    MaxEnv <- Meeting
INVARIANTS
    NoBounceBack
CHECK_DEADLOCK FALSE
