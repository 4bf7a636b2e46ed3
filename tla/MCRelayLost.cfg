\* A message pushed while the user's flush is under way.
SPECIFICATION Spec
CONSTANTS
    a = a
    b = b
    c = c
    a1 = a1
    a2 = a2
    b1 = b1
    b2 = b2
    c1 = c1
    m1 = m1
    m2 = m2
    g1 = g1
    team = team
    NoSocket = NoSocket
    NoGroup = NoGroup
    User = {a, b}
    Socket = {a1, b1, b2}
    Message = {m1, m2}
    Group = {}
    Owner <- OwnerOf
    Sender <- FromA
    To <- Direct
    GroupOf <- DirectGroup
    Expiring = {}
    MaxRestart = 0
INVARIANTS
    StoredIsListed
CHECK_DEADLOCK FALSE
