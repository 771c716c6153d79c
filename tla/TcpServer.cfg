SPECIFICATION FairSpec
CONSTANTS
    Wrap = 2
    USHRT_MAX = 3
    SndBuf = 1
    Clients = {"c1", "c2"}
    KeepAlive = 2
INVARIANTS
    ClientHasServer
    ClientsAccounted
PROPERTIES
    ShutdownCompletes
CHECK_DEADLOCK FALSE
