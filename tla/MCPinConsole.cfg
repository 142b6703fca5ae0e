SPECIFICATION ConsoleSpec
CONSTANTS
    Clients = {c1, c2}
    MaxAttempts = 5
    MaxPins = 4
    BroadcastCap = 1
INVARIANTS
    PinSingleUse
PROPERTIES
    LockoutIsFinal
    ConsoleCatchesUp
