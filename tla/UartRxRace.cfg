SPECIFICATION Spec
CONSTANTS
    TxFifoFull = 2
    RxFifoSize = 3
    RxFifoFull = 2
    RxSize = 3
    TxSize = 0
    TxWait = TRUE
    CallSizes = {1, 2}
    MaxTx = 0
    MaxRx = 3
INVARIANT
    RxInOrder
