SPECIFICATION Spec
CONSTANTS
    Sender = {s1, s2}
    Capacity = 1
    Hashes = 10
    Ticks = 2
    Batch = 3
    MaxBank = 1
    MaxSlot = 1
INVARIANT RecordsFit
CHECK_DEADLOCK FALSE
