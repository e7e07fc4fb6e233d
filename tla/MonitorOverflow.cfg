SPECIFICATION Spec
CONSTANTS
    Clients = {1}
    BufferSizes = {1, 9}
    MaxQueueSize = 6
    MaxBucketSize = 3
    MaxEntries = 12
INVARIANT OverflowRemovesOldest
