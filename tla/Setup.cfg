SPECIFICATION SetupSpec
SYMMETRY RequestSymmetry
CONSTANTS
    r1 = r1
    r2 = r2
    h1 = h1
    h2 = h2
    WsRequests = {r1, r2}
    Hosts = {h1, h2}
    Payloads <- MCPayloads
    MaxDomains = 3
    Total = 2
    ProductRequests = {r1, r2}
    MaxProducts = 2
    MaxScore = 2
    Significant = 1
    RegistryRequests = {r1, r2}
    ModelNames = {1}
    Seeds = {1}
    Values = {0, 1}
    CacheThreads = {r1, r2}
    CacheTtl = 1
    FailureThreshold = 2
    RecoveryTicks = 1
    MaxSets = 2
    MaxTicks = 2
    MonitorRequests = {r1, r2}
    Projects = {1}
    Cadences = {1}
    MaxSchedules = 3
    BaselineRequests = {r1, r2}
    Scores = {0, 1, 2}
    Scales <- MCScales
    MaxObserved = 2
    MaxSnapshots = 3
    Checkers = {r1, r2}
    ReadyTtl = 1
    HealthTtl = 2
    MaxInstant = 4
    Nodes = {1, 2, 3, 4}
    Relations <- MCRelations
    MaxDepth = 3
INVARIANTS
    SetupTypeOK
    
    
    
    BaselineRecorded
    ReadinessRecent
    TraversalExact
PROPERTIES
    
    ServedAlive
CHECK_DEADLOCK FALSE
