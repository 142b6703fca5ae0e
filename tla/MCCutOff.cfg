SPECIFICATION ForwardSpec
CONSTANTS
    Callers = {u1, u2, imp}
    UrbTasks = {u1, u2}
    UnlinkTasks = {}
    Importers = {imp}
    NoCaller = NoCaller
    MaxPumps = 3
    MaxLost = 1
    MaxSeq = 2
    MaxTries = 1
CHECK_DEADLOCK FALSE
PROPERTY
    RetryNotCutOff
