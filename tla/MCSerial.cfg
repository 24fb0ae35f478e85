\* Buffers of two bytes each way, which fill and wrap.
CONSTANTS
    TxSize = 3
    RxSize = 3
    MaxPuts = 4
    MaxGets = 2
    MaxArrivals = 4
SPECIFICATION FairSpec
CHECK_DEADLOCK FALSE
INVARIANTS TypeOK WireInOrder ReadInOrder
PROPERTY EverythingSent
