\* A session ends in an error.
SPECIFICATION Spec
CONSTANTS
    Peers = {p1}
    Conns = {c1, c2}
    None = None
    NoRoute = NoRoute
    NoEntry = NoEntry
    Prefixes <- OnePrefix
    PeerASes = {0, 1}
    Attrs <- OneAttrs
    Width = 1
    Roas <- NoRoas
    Mode = "Disabled"
    FlapPenalty = 4
    SuppressLimit = 8
    ReuseLimit = 3
    MaxSuppressTime = 4
    Decay <- HalfLifeDecay
    MaxPenalty = 4
    MaxTime = 0
    LocalHoldOn = TRUE
    MaxFailures = 2
INVARIANTS
    RoutesNeedRunningSession
CHECK_DEADLOCK FALSE
