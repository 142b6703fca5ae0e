SPECIFICATION ProxySpec
CONSTANTS
    HostKeys = {h1, h2}
    EmulatedKeys = {e1}
    ExportFlags = {TRUE}
    MaxId = 8
    NoDevice = NoDevice
    Conns = {c1}
    MaxRequests = 2
    ProxyOut = 1
INVARIANTS
    MapsAgree
    RetiredForGood
    ImportedIdNotReused
    AnsweredOnce
PROPERTIES
    StableIds
    ProxyDrains
