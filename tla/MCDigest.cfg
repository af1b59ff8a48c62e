SPECIFICATION Spec
CONSTANTS
    Calls = {c1, c2}
    Operators = {o1}
    MaxFaults = 2
CHECK_DEADLOCK FALSE
INVARIANTS NoneLost RepeatsExplained DigestBeforeNotice
PROPERTY CountedIsReported
