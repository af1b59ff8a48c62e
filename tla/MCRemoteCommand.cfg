SPECIFICATION Spec
CONSTANTS
    N = 3
    g = g
    all = all
    Groups <- MCGroups
    All = all
    Commands <- MCCommands
    Registries <- MCRegistries
    None = None
    MaxParallel = 2
    MaxChanges = 1
CHECK_DEADLOCK FALSE
INVARIANTS SelectedAsWritten ReportTrue NothingLeaks TransferWhole
PROPERTY CommandEnds
