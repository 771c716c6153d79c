SPECIFICATION FairSpec
CONSTANTS
    TxFifoFull = 2
    RxFifoSize = 3
    RxFifoFull = 2
    RxSize = 0
    TxSize = 4
    TxWait = FALSE
    CallSizes = {1, 6}
    MaxTx = 7
    MaxRx = 0
INVARIANTS
    TxInOrder
    TxNeverStranded
PROPERTIES
    WaitMeansSent
    WaitReturns
    AllSent
