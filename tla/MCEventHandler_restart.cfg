SPECIFICATION FairSpec
CONSTANTS
  MaxSlot = 3
  Window = 2
  Start <- RestStart
  Block <- RestBlock
  Parent <- RestParent
  Chain <- RestBlock
  Shredded <- SlotTwo
  MayFail <- NoSlots
  MaxQueue = 0
  MaxCrash = 1
  MaxRefresh = 0
PROPERTY EverySlotVoted
CHECK_DEADLOCK FALSE
