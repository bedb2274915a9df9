\* Two sessions over two addresses or one.
SPECIFICATION BoundedSpec
CONSTANTS
    Peers = {p1, p2}
    Conns = {c1, c2}
    None = None
    NoRoute = NoRoute
    NoEntry = NoEntry
    Prefixes <- OnePrefix
    PeerASes = {0}
    Attrs <- OneAttrs
    Width = 1
    Roas <- NoRoas
    Mode = "Disabled"
    FlapPenalty = 4
    SuppressLimit = 8
    ReuseLimit = 3
    MaxSuppressTime = 4
    Decay <- HalfLifeDecay
    MaxPenalty = 4
    MaxTime = 1
    LocalHoldOn = TRUE
    MaxFailures = 1
INVARIANTS
    DaemonTypeOK
    RoutesHaveOwner
    HistoryHasOwner
    EstablishedCounted
    LocRibGaugeNotBehind
    NeverStale
PROPERTIES
    ClosedPeerRoutesRemoved
CHECK_DEADLOCK FALSE
