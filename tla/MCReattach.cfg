SPECIFICATION AuditSpec
CONSTANTS
    HostKeys = {h1}
    EmulatedKeys = {}
    ExportFlags = {TRUE}
    MaxId = 2
    NoDevice = NoDevice
    Peers = {p1, p2}
    NoPeer = NoPeer
    MaxAttempts = 1
    Sessions = {s1, s2}
    NoSession = NoSession
    TaskIds = {t1}
    MaxInFlight = 1
    MaxTokens = 2
    NoScan = NoScan
SYMMETRY Symmetric
PROPERTY
    ReattachedLeaseKept
