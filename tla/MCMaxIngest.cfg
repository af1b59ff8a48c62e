SPECIFICATION Spec
CONSTANTS
    Gens = {g1, g2}
    MaxUpdates = 2
    MaxSwitches = 4
    MaxRestarts = 2
CHECK_DEADLOCK FALSE
INVARIANTS AtMostOnce LossExplained OvertakesStopped
PROPERTY AllSettled
