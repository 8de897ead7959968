SPECIFICATION InFlightSpec
CONSTANTS
    Requests = {r1, r2, r3}
    MaxInFlight = 2
    LeaseTTL = 2
    MaxTime = 4
    MaxGeneration = 4
SYMMETRY Symmetry
INVARIANTS
    InFlightBounded
    LeaseHeldUntilExpiry
PROPERTIES
    ExpiredStaysExpired
