SPECIFICATION FairSpec
CONSTANTS
    a = a
    b = b
    c = c
    Task <- MCTask
    Queue <- MCQueue
    Keys <- MCKeys
    Writes <- MCWrites
    Hash <- MCHash
    Capability = "PriorityQueueing"
    MaxRunning = 2
    MaxUnique = 4
INVARIANTS
    SafeInParallel CountsExact AssertionsHold NeverStuck
PROPERTIES
    NoPriorityInversion ImplementsPromise EveryTaskFinishes
