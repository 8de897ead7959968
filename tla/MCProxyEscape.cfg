SPECIFICATION ProxySpec
CONSTANTS
    Requests = {r1}
    Keys = {}
    NoKey = NoKey
    NoRequest = NoRequest
    Limits = {4}
    Sizes <- MCSizes
    Actuals = {1}
    Kinds <- JsonOnly
    MaxInFlight = 1
    LeaseTTL = 4
    MaxFaults = 1
    MaxTime = 1
    MaxGeneration = 2
CHECK_DEADLOCK FALSE
INVARIANTS
    OutcomeBecomesUncertain
