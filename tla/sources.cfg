SPECIFICATION Spec
CONSTANTS
    Callers = {loop, p1, p2}
    Sources = {a, b}
    IdOf <- OneId
    MinGap = 3
    Timeout = 2
    Base = 6
    Cap = 8
    LastStart = 8
    MaxFetches = 3
    Horizon = 20
PROPERTIES RequestsSpaced BackoffHeld FetchReturns
CHECK_DEADLOCK FALSE
