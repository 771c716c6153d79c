SPECIFICATION FairSpec
CONSTANTS
    Wrap = 4
    USHRT_MAX = 3
    SndBuf = 2
    Pcbs = {1, 2}
    TimeOut = 2
    MaxTotal = 5
    MaxHeld = 3
    MaxLookups = 2
INVARIANTS
    SuccessMeansAcked
    CallbackTargetLive
PROPERTIES
    SessionRefined
    SilentPeerTimesOut
    ReleasedPcbClosed
CHECK_DEADLOCK FALSE
