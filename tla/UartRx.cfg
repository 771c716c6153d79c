SPECIFICATION FairSpec
CONSTANTS
    TxFifoFull = 2
    RxFifoSize = 2
    RxFifoFull = 1
    RxSize = 3
    TxSize = 0
    TxWait = TRUE
    CallSizes = {1, 3}
    MaxTx = 3
    MaxRx = 3
INVARIANTS
    RxConserved
    RxMaskedWithData
PROPERTY
    WriteReturns
