SPECIFICATION FairSpec
CONSTANTS
    v1 = v1
    v2 = v2
    v3 = v3
    v4 = v4
    w = w
    Validator = {v1, v2, v3, v4, w}
    Others = {w}
    Block = {b1, b2, b3}
    NoBlock = NoBlock
    StakeOf <- MCStakeOf
INVARIANTS FinalAlone NotarizedOnce QuietDecided
PROPERTY SlotDecided
CHECK_DEADLOCK FALSE
