\* Hold times of 0, below, at and above the local one.
SPECIFICATION Spec
CONSTANTS
    None = None
    LocalHoldTime = 7
    HoldTimes = {0, 3, 6, 9}
    ConfirmDelay = 1
INVARIANTS
    TypeOK
    EstablishedSupervised
    KeepalivesInTime
PROPERTIES
    IdleIsFinal
    SilentPeerDetected
    CloseDetected
CHECK_DEADLOCK FALSE
