\* Three peers, which may change their AS, compete for one prefix under
\* strict RPKI.
SPECIFICATION RibSpec
CONSTANTS
    Peers = {p1, p2, p3}
    None = None
    NoRoute = NoRoute
    NoEntry = NoEntry
    Prefixes <- OnePrefix
    PeerASes = {1, 2}
    Attrs <- SelectionAttrs
    Width = 2
    Roas <- OneRoa
    Mode = "Strict"
    FlapPenalty = 4
    SuppressLimit = 8
    ReuseLimit = 3
    MaxSuppressTime = 4
    Decay <- HalfLifeDecay
    MaxPenalty = 4
    MaxTime = 1
SYMMETRY PeerSymmetry
INVARIANTS
    RibTypeOK
    LocRibIsBest
    NoInvalidSelected
PROPERTIES
    BestPathStable
