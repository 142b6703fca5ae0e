SPECIFICATION ExploreSpec
CONSTANTS
    Callers = {u1, u2, x1, i1, i2}
    UrbTasks = {u1, u2}
    UnlinkTasks = {x1}
    Importers = {i1, i2}
    NoCaller = NoCaller
    MaxPumps = 3
    MaxLost = 3
    MaxSeq = 2
    MaxTries = 1
    Instances <- SafetyInstances
CHECK_DEADLOCK FALSE
SYMMETRY Symmetric
INVARIANTS
    WaiterHeld
    AtMostTwice
    ControlInStep
    CompletionReal
