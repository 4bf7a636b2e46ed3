\* A message to a user and one to a group; a crash; one message may expire; the event loop is fair.
SPECIFICATION FairSpec
CONSTANTS
    a = a
    b = b
    c = c
    a1 = a1
    a2 = a2
    b1 = b1
    b2 = b2
    c1 = c1
    m1 = m1
    m2 = m2
    g1 = g1
    team = team
    NoSocket = NoSocket
    NoGroup = NoGroup
    User = {a, b, c}
    Socket = {a1, b1}
    Message = {m1, g1}
    Group = {team}
    Owner <- OwnerOfTwo
    Sender <- FromA
    To <- Fan
    GroupOf <- FanGroup
    Expiring = {m1}
    MaxRestart = 1
PROPERTIES
    ImplementsMailbox
    EveryRecipientIsServed
    FlushGoesThrough
CHECK_DEADLOCK FALSE
