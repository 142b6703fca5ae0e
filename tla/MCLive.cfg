SPECIFICATION FairSpec
CONSTANTS
    HostKeys = {h1}
    EmulatedKeys = {e1}
    ExportFlags = {TRUE}
    MaxId = 4
    NoDevice = NoDevice
    Peers = {p1}
    NoPeer = NoPeer
    MaxAttempts = 1
    Sessions = {s1}
    NoSession = NoSession
    TaskIds = {t1}
    MaxInFlight = 1
    MaxTokens = 1
    NoScan = NoScan
INVARIANTS
    LeasedDevicePresent
PROPERTIES
    NoSuccessAfterRemoval
    DrainingCloses
    BackpressureEnds
    RemovalNoticed
