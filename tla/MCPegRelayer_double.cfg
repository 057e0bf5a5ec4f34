SPECIFICATION Spec
CONSTANTS
    N = 2
    Window = 25
    Amount <- MCAmount
    Valid <- MCValid
    Scale = 1000
    Reserve = 1000000
    MaxSends = 2
    Faults = {"crash"}
INVARIANT PegHeld
CHECK_DEADLOCK FALSE
