SPECIFICATION Spec
CONSTANTS
    a = a
    b = b
    c = c
    Task <- MCTask
    Queue <- MCQueue
    Keys <- MCKeys
    Writes <- MCWrites
    Hash <- MCHash
    Capability = "FifoQueueing"
    MaxRunning = 5
    MaxUnique = 0
INVARIANTS
    IngestionOrder
PROPERTIES
    ImplementsPromise
