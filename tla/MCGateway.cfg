SPECIFICATION GatewaySpec
CONSTANTS
    Requests = {r1}
    Keys = {}
    NoKey = NoKey
    NoRequest = NoRequest
    Limits = {1, 4}
    Sizes <- MCSizes
    Actuals = {1}
    Kinds <- MCKinds
    MaxInFlight = 1
    LeaseTTL = 4
    MaxFaults = 2
    MaxTime = 1
    MaxGeneration = 1
    here = here
    there = there
    other = other
    Isolates = {here, there}
    Loaders = {r1, other}
    HomeOf <- MCHomeOf
    CacheTTL = 1
    Edited = {"policy"}
    MaxDisturbances = 2
    NoAdmin = NoAdmin
CHECK_DEADLOCK FALSE
INVARIANTS
    BodyClosedBeforeAnswer
    TimedOutNeverSent
    SentUnderRecentRows
