SPECIFICATION CpuGateSpec
CONSTANTS
    Requests = {o1, o2}
    Relayed = {o1, o2}
    Keys = {}
    NoKey = NoKey
    NoRequest = NoRequest
    Limits = {4}
    Sizes <- MCSizes
    Actuals = {0}
    MaxInFlight = 2
    LeaseTTL = 1
    AuthTTL = 2
    CredTTL = 3
    DayEnd = 1
    AdmitUntil = 1
    FinalizeFrom = 4
    MaxTime = 0
    MaxGeneration = 2
    Runners = {x1, x2}
    MaxDisturbances = 0
INVARIANTS
    ClosesOnlyItsOwn
