SPECIFICATION LedgerSpec
CONSTANTS
    Requests = {r1, r2}
    Keys = {k1}
    NoKey = NoKey
    NoRequest = NoRequest
    Limits = {20, 21}
    Sizes <- MCSizes
    Actuals = {0, 20}
SYMMETRY Symmetry
INVARIANTS
    LedgerBalanced
    OvercommitOnlyByExcess
    IdempotencyExclusive
    FinalizedMeansResolved
PROPERTIES
    OutcomesAreFinal
    StrictAdmissionCovered
