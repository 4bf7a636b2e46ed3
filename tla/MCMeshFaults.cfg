\* a - b - c with a caller of drain: a link loss, a restart and what follows, at the hop limit.
SPECIFICATION Spec
CONSTANTS
    a = a
    b = b
    c = c
    d = d
    m1 = m1
    m2 = m2
    Node = {a, b, c}
    Message = {m1}
    NoPeer = NoPeer
    Unverified = Unverified
    HopLimit = 1
    AnnounceHopLimit = 2
    MaxRelayAttempts = 2
    RetryBase = 1
    From <- OneFromA
    Alerting = {m1}
    To <- OneToC
    Link <- LineLinks
    InitialBinding <- LineBinding
    MessageTtl = 2
    AckTtl = 2
    AnnounceTtl = 1
    MaxTime = 2
    MaxStarts = 0
    MaxEnv <- Rough
INVARIANTS
    TypeOK
    DeliveredIsEvidence
    Provenance
    LastHopIsSender
    ShownOnce
PROPERTIES
    CustodyIsKept
CHECK_DEADLOCK FALSE
