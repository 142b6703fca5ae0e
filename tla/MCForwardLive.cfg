SPECIFICATION ExploreFair
CONSTANTS
    Callers = {u1, u2, x1, imp}
    UrbTasks = {u1, u2}
    UnlinkTasks = {x1}
    Importers = {imp}
    NoCaller = NoCaller
    MaxPumps = 3
    MaxLost = 2
    MaxSeq = 2
    MaxTries = 1
    Instances <- LiveInstances
CHECK_DEADLOCK FALSE
PROPERTIES
    UrbAnswered
    ImportCloses
