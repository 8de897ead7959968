SPECIFICATION RelaySpec
CONSTANTS
    Requests = {r1, r2}
    Relayed = {r1}
    Keys = {k1}
    NoKey = NoKey
    NoRequest = NoRequest
    Limits = {4}
    Sizes <- MCSizes
    Actuals = {1, 3}
    MaxInFlight = 1
    LeaseTTL = 2
    AuthTTL = 3
    CredTTL = 4
    DayEnd = 1
    AdmitUntil = 1
    FinalizeFrom = 6
    MaxTime = 6
    MaxGeneration = 2
INVARIANTS
    GrantMatchesEntry
    LeaseOnlyForLiveGrant
    FenceHolds
PROPERTIES
    ExpiredCredentialInert
    ImplementsLedger
