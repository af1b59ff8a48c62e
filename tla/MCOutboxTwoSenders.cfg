SPECIFICATION InstallSpec
CONSTANTS
    Transport = "tg"
    Installers = {i1}
    Kinds <- MCPlainKind
    MaxAttempts = 2
    MaxRows = 1
    MaxFaults = 0
    MaxShutdowns = 0
CHECK_DEADLOCK FALSE
INVARIANT OneSenderPerRow
