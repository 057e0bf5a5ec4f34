CONSTANTS
    MaxSlot = 4
    Window = 2
    Id <- MCId
    Mine <- MCMine
SPECIFICATION Spec
INVARIANTS ReadyExact NoLostEvent ParentKnown BuildsOnReadyParent
PROPERTY AnnouncedOnce
