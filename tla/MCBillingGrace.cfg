SPECIFICATION Spec
CONSTANTS
    None = None
    Orders = {1, 2}
    Calls = {c1}
    Period = 1
    Grace = 1
    MaxTime = 2
    MaxAttempts = 0
PROPERTY GraceAfterEachPeriod
CHECK_DEADLOCK FALSE
