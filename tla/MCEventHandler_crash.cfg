SPECIFICATION Spec
CONSTANTS
  MaxSlot = 1
  Window = 2
  Start <- Genesis
  Block <- ForkBlock
  Parent <- ForkParent
  Chain <- ForkChain
  Shredded <- SlotOne
  MayFail <- SlotOne
  MaxQueue = 1
  MaxCrash = 1
  MaxRefresh = 1
INVARIANTS NeverConflicting FinalizesOwnNotarized OwnPoolAgrees
CHECK_DEADLOCK FALSE
