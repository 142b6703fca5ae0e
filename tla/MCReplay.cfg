SPECIFICATION ForwardSpec
CONSTANTS
    Callers = {u1, imp}
    UrbTasks = {u1}
    UnlinkTasks = {}
    Importers = {imp}
    NoCaller = NoCaller
    MaxPumps = 2
    MaxLost = 1
    MaxSeq = 2
    MaxTries = 1
CHECK_DEADLOCK FALSE
INVARIANT
    NotReplayed
