SPECIFICATION Spec
CONSTANTS
    Chars = {1, 2}
    Sizes = {2, 3, 4}
INVARIANTS
    WriterOwnsSlot
    FetchedIsOldest
    SpaceAccounted
    QueriesMatchContents
PROPERTY
    FifoRefined
