SPECIFICATION DataPathSpec
CONSTANTS
    Texts <- MCTexts
    MaxWork = 17
    Threshold = 5
    MaxInputBytes = 7
    PrefixBytes = 7
    MaxRest = 5
    RingCapacity = 8
    MaxEvents = 3
    Requested <- MCRequested
    Remaining = {300, 700, 1300, 6000}
    PoolLimit = 6000
CHECK_DEADLOCK FALSE
INVARIANTS
    RoutesAgree
    UpstreamFormCounted
    GrantCovered
    PreparedBytesExact
    SameUsage
