SPECIFICATION ReconSpec
CONSTANTS
    Requests = {r1}
    Keys = {}
    NoKey = NoKey
    NoRequest = NoRequest
    Limits = {40}
    Sizes <- MCSizes
    Actuals = {2}
    Runs = {x1}
    Operators = {o1}
    RunPhases = {"grace", "closing"}
    Usages = {1, 2, 3}
PROPERTY AutomaticSkipsReserveUnknown
CHECK_DEADLOCK FALSE
