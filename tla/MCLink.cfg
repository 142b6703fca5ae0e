SPECIFICATION FairSpec
CONSTANTS
    Missing = Missing
    Partial = Partial
    NoAttempt = NoAttempt
    Addrs <- Addresses
    Budgets <- Explored
    Samples <- SampleMessages
    MaxAttempts = 2
    HEADER_LEN = 2
    MAX_PAYLOAD = 1
    SocketCap = 2
    OutCap = 1
    MaxCalls = 4
    InlineLens = {1, 2}
    UrbLens = {1}
CHECK_DEADLOCK FALSE
INVARIANTS
    PairMatches
    OnlyPinned
    RestartKeepsPin
    FramesAccepted
    RoundTrip
    UrbsFit
    DevlistInStep
PROPERTIES
    ImplementsMessageLink
    RaceReturns
    LosersEnd
    
