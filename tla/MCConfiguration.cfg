\* ROA tables and prefix lists of two entries, a ring of four routers, every
\* start of the daemon.
SPECIFICATION ConfigSpec
CONSTANTS
    None = None
    Width = 2
    Mode = "Strict"
    ASes = {1, 2}
    MaxRoas = 2
    Names = {in}
    Bounds = {1, 2}
    MaxEntries = 2
    MaxLists = 2
    Files <- ConfigFiles
    Flags <- CommandLines
    Taken = {2179}
    Routers = {1, 2, 3, 4}
    ClusterIds = {1, 2, 3, 4}
    Topologies <- RingTopologies
    NoSession = NoSession
INVARIANTS
    CoversIsContainment
    VerdictIsFirstMatch
    ClusterListsSimple
    OriginNeverLearnsItsOwn
    LoopDetectionLosesNothing
PROPERTIES
    VerdictsMonotone
    RestartServed
    Quiescence
CHECK_DEADLOCK FALSE
