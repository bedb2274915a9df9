\* A stream cut into messages of at most 4 bytes; bodies parsed and serialised.
SPECIFICATION WireSpec
CONSTANTS
    HeaderLen = 2
    MaxMessageLen = 4
    ReadSize = 3
    Types = {t1, t2}
    Fallible = {t2}
    UnknownType = other
    MaxBytes = 7
    None = None
    Bits = 5
    Word = 3
    LongWord = 4
    Err = Err
    Panic = Panic
    GracefulRestartCode = 20
    FourOctetAsnCode = 21
    RestartTime = 12
    Samples <- MCSamples
    Starts <- MCStarts
    Letters <- MCLetters
    MaxBody <- MCMaxBody
    NoMessage = NoMessage
INVARIANTS
    ReadsDoNotMatter
    BufferBounded
    RoundTrip
    TruncationSafe
    ForwardsWhatItRead
    CapabilitiesInOrder
PROPERTIES
    ImplementsChannel
CHECK_DEADLOCK FALSE
