SPECIFICATION Spec
CONSTANTS
    Endpoints = {p1, p2}
    Events = {e1}
    Workers = {w1, w2}
    MaxAttempts = 2
    MaxFaults = 1
INVARIANTS
    SucceededMeansAccepted
    GivenUpAfterMaxAttempts
    RemovedStaysRemoved
    RequestsAreCounted
CHECK_DEADLOCK FALSE
