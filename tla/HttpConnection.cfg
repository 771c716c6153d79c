SPECIFICATION FairSpec
CONSTANTS
    Requests = {"g1", "g2", "p1", "p2"}
    Pipelinable = {"g1", "g2"}
    WithBody = {"p1"}
    WithParams = {"p2"}
    Retried = {}
    PoolSize = 2
INVARIANTS
    RequestsConserved
    ResponseMatches
    OutgoingLive
PROPERTY
    AllAnswered
CHECK_DEADLOCK FALSE
