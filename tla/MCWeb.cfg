\* Two browsers, three names; the scenarios of MCWebSessions.
SPECIFICATION FairSpec
CONSTANTS
    b1 = b1
    b2 = b2
    alice = alice
    bob = bob
    carol = carol
    c1 = c1
    c2 = c2
    c3 = c3
    o1 = o1
    o2 = o2
    None = None
    Browser = {b1, b2}
    User = {alice, bob, carol}
    Call = {c1, c2, c3}
    Op = {o1, o2}
    MaxPrekeys = 2
    Scenarios <- TheScenarios
INVARIANTS
    TypeOK
    AccountStaysWithOwner
    PrekeysMatch
    TabMatchesSockets
    EveryMessageRead
    FreshKeys
PROPERTIES
    LoginSucceeds
CHECK_DEADLOCK FALSE
