SPECIFICATION ExchangeSpec
CONSTANTS
    r1 = r1
    k1 = k1
    Requests = {r1}
    Relayed = {r1}
    Calls <- MCCalls
    KeyOf <- MCKeyOf
    Keys = {k1}
    NoKey = NoKey
    NoRequest = NoRequest
    Limits = {2000, 3000}
    Sizes <- MCSizes
    Actuals = {700}
    Demand <- MCDemand
    Mode = "CLAMP"
    SetupPeriods = 1
    MaxInFlight = 1
    LeaseTTL = 3
    AuthTTL = 3
    CredTTL = 4
    DayEnd = 0
    AdmitUntil = 0
    FinalizeFrom = 4
    MaxTime = 4
    MaxGeneration = 2
INVARIANTS
    FetchedOnce
    ReportedOnce
    ExchangeHoldsLease
PROPERTIES
    ImplementsContract
    ExchangeEnds
CHECK_DEADLOCK FALSE
