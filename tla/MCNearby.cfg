\* One endpoint; the scenarios of MCNearbyRuntime.
SPECIFICATION FairSpec
CONSTANTS
    e1 = e1
    none = none
    Endpoint = {e1}
    NoEndpoint = none
    MaxPending = 2
    Budgets <- Scenarios
INVARIANTS
    TypeOK
    LastCallWins
    RunsInService
    HeardInOrder
    ViewMatches
PROPERTIES
    StartSucceeds
CHECK_DEADLOCK FALSE
