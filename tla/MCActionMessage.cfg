SPECIFICATION ActionSpec
CONSTANTS
    Chats = {tg, mx}
    Origin = tg
    MaxSwitches = 2
    MaxFaults = 2
CHECK_DEADLOCK FALSE
INVARIANT EveryoneAnswered
PROPERTY ActionEnds
