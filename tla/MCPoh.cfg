SPECIFICATION FairSpec
CONSTANTS
    Sender = {s1, s2}
    Capacity = 1
    Hashes = 6
    Ticks = 2
    Batch = 2
    MaxBank = 2
    MaxSlot = 1
INVARIANTS RecordsFit BudgetExact IndexesExact NothingLost
PROPERTY MessageHandled
CHECK_DEADLOCK FALSE
