SPECIFICATION FairSpec
CONSTANTS
  MaxSlot = 5
  Window = 3
  Start <- JoinStart
  Block <- JoinBlock
  Parent <- JoinParent
  Chain <- JoinChain
  Shredded <- NoSlots
  MayFail <- NoSlots
  MaxQueue = 0
  MaxCrash = 0
  MaxRefresh = 0
INVARIANTS NotarizesOwnChain AssertionsHold NoSlotForgotten
PROPERTY EverySlotVoted
CHECK_DEADLOCK FALSE
