SPECIFICATION Spec
CONSTANTS
    Names = {tg, mx}
    NoName = NoName
    MaxToggles = 2
    MaxRefusals = 1
CHECK_DEADLOCK FALSE
PROPERTY FailureStaysVisible
