SPECIFICATION Spec
CONSTANTS
    Transport = "mx"
    Installers = {}
    Kinds <- MCAllKinds
    MaxAttempts = 2
    MaxRows = 2
    MaxFaults = 1
    MaxShutdowns = 1
CHECK_DEADLOCK FALSE
INVARIANTS InOrder MarksHonest DeliveriesExplained OneSenderPerRow
PROPERTIES LaneSpec AllSettled ShutdownEnds
