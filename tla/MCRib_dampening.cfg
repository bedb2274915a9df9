\* Two prefixes of one peer flap over five half-lives.
SPECIFICATION RibSpec
CONSTANTS
    Peers = {p1}
    None = None
    NoRoute = NoRoute
    NoEntry = NoEntry
    Prefixes <- TwoPrefixes
    PeerASes = {1}
    Attrs <- OneAttrs
    Width = 2
    Roas <- NoRoas
    Mode = "Disabled"
    FlapPenalty = 4
    SuppressLimit = 8
    ReuseLimit = 3
    MaxSuppressTime = 4
    Decay <- HalfLifeDecay
    MaxPenalty = 12
    MaxTime = 5
INVARIANTS
    SuppressedNotInstalled
    LookupMostSpecific
PROPERTIES
    SuppressionNotExtended
    SuppressionCapped
