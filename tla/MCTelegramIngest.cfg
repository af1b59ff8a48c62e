SPECIFICATION Spec
CONSTANTS
    Pollers = {p1, p2}
    MaxUpdates = 3
    MaxSwitches = 3
    MaxFaults = 2
CHECK_DEADLOCK FALSE
INVARIANTS NoneLost FirstInOrder RepeatsExplained
PROPERTY AllHandled
