SPECIFICATION Spec
CONSTANTS
    Clients = {1, 2}
    BufferSizes = {0, 1, 3}
    MaxQueueSize = 6
    MaxBucketSize = 3
    MaxEntries = 12
CONSTRAINT RegularOnly
INVARIANTS
  DeliveredInOrder
  PromptDelivery
  QueueExact
