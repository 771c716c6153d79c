SPECIFICATION Spec
CONSTANTS
    Requests = {"g1", "g2"}
    Pipelinable = {"g1", "g2"}
    WithBody = {}
    WithParams = {}
    Retried = {}
    PoolSize = 3
INVARIANT MovedBack
CHECK_DEADLOCK FALSE
