SPECIFICATION Spec
CONSTANTS
    Serials = {"serial0", "serial1"}
    PortOf <- MCPortOf
    MaxInit = 3
    MaxQueue = 1
INVARIANTS
    OpenPortOwnsUart
    IsrTargetLive
    OpenPortServed
    DebugPortOpen
    NoUartLeak
