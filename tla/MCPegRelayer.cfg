SPECIFICATION FairSpec
CONSTANTS
    N = 4
    Window = 3
    Amount <- MCAmount
    Valid <- MCValid
    Scale = 1000
    Reserve = 7000
    MaxSends = 2
    Faults = {"throw", "crash", "disk"}
INVARIANTS SendsBounded
PROPERTIES CreditsInOrder EachDepositReleased
CHECK_DEADLOCK FALSE
