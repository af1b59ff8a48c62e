SPECIFICATION Spec
CONSTANTS
    Hosts = {h1}
    Fields = {note, group}
    Clients = {c1, c2}
    Setup = setup
    None = None
    Torn = Torn
    MaxCommands = 3
    MaxFaults = 2
CHECK_DEADLOCK FALSE
INVARIANTS SavedSurvives MemoryAheadExplained SettingsAgree
PROPERTY OnlyStaleAddOverwrites
