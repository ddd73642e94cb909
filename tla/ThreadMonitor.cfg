SPECIFICATION Spec
CONSTANTS
    Order <- Two
    Ticks = 5
    MinLoop = 2
    MaxLoop = 4
    MaxTime = 11
CHECK_DEADLOCK FALSE
INVARIANTS SeenLoopsExact AverageWithin
