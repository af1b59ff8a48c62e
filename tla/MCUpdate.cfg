SPECIFICATION UpdateSpec
CONSTANTS
    Chat = {i1}
    Terminal = {i2, i3}
    Releases = {v1, v2}
    First = v1
    None = None
    Torn = Torn
    MaxFaults = 2
CHECK_DEADLOCK FALSE
INVARIANTS BinarySound NoticesSound
