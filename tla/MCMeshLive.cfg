\* Links that hold, alerts in both directions: the application alone delivers them.
SPECIFICATION FairAppSpec
CONSTANTS
    a = a
    b = b
    c = c
    d = d
    m1 = m1
    m2 = m2
    Node = {a, b, c}
    Message = {m1, m2}
    NoPeer = NoPeer
    Unverified = Unverified
    HopLimit = 3
    AnnounceHopLimit = 2
    MaxRelayAttempts = 2
    RetryBase = 1
    From <- TwoFrom
    Alerting = {m1}
    To <- TwoTo
    Link <- LineLinks
    InitialBinding <- LineBinding
    MessageTtl = 2
    AckTtl = 2
    AnnounceTtl = 1
    MaxTime = 1
    MaxStarts = 0
    MaxEnv <- Quiet
PROPERTIES
    QueuedIsDelivered
CHECK_DEADLOCK FALSE
