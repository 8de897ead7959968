SPECIFICATION ProxySpec
CONSTANTS
    Requests = {r1, r2}
    Keys = {}
    NoKey = NoKey
    NoRequest = NoRequest
    Limits = {4}
    Sizes <- MCSizes
    Actuals = {1}
    Kinds <- MCKinds
    MaxInFlight = 1
    LeaseTTL = 4
    MaxFaults = 2
    MaxTime = 4
    MaxGeneration = 2
SYMMETRY Symmetry
CHECK_DEADLOCK FALSE
INVARIANTS
    UpstreamConcurrencyBounded
    CleanExit
    AnsweredIsAccounted
    AuditTellsOutcome
PROPERTIES
    ImplementsContract
