SPECIFICATION ValidationSpec
CONSTANTS
    Warmups = {4, 8}
    Measurements = {4, 8, 12}
    Periods = {2, 3, 5}
    Capacities = {2, 6}
    Second = 4
    TransitionCapacity = 2
    MaxTransitions = 3
INVARIANTS
    ReportIsComplete
    NoFalseAlarm
PROPERTY OutputIsWholeAndNeverReplaced
CHECK_DEADLOCK FALSE
