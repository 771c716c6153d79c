SPECIFICATION FairSpec
CONSTANTS
    MAX_OS_TIMER_INTERVAL_US = 10
    MsLimit = 4
    Ms = 3
    Width = 16
    Intervals = {0, 3, 8, 12, 35}
    MaxCalls = 6
INVARIANTS
    ArmedIffDue
    OneShotOnce
    TickOnTime
PROPERTY
    TimerFires
CHECK_DEADLOCK FALSE
