SPECIFICATION ReconSpec
CONSTANTS
    Requests = {r1}
    Keys = {}
    NoKey = NoKey
    NoRequest = NoRequest
    Limits = {40}
    Sizes <- MCSizes
    Actuals = {2}
    Runs = {x1}
    Operators = {o1, o2}
    RunPhases = {"closing"}
    Usages = {0, 1, 2}
INVARIANTS
    CompletedIsCharged
    GivenBackNeverUsed
    OperatorVerdictsHold
    ClosedDayIsEmpty
PROPERTIES
    DoneDayIsDeleted
CHECK_DEADLOCK FALSE
