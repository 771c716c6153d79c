SPECIFICATION Spec
CONSTANTS
    QueueLength = 2
    CountRange = 5
    MaxPosts = 3
    MaxIsrPosts = 2
CHECK_DEADLOCK FALSE
INVARIANTS
    MaxCountTellsOverflow
    ReadyHandlerAlive
PROPERTIES
    
    AcceptedIsRun
