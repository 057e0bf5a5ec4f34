SPECIFICATION Spec
CONSTANTS
    Me = v1
    v2 = v2
    v3 = v3
    v4 = v4
    b1 = b1
    b2 = b2
    b3 = b3
    b4 = b4
    Validator = {v1, v2, v3, v4}
    Block = {b1, b2, b3, b4}
    NoBlock = NoBlock
    StakeOf <- MCStakeOf
    MaxSlot = 2
    SentVotes <- MCSentVotes
    SentCerts <- MCSentCerts
SYMMETRY Symmetry
INVARIANTS CountersExact CertificatesExact EventsExact FallbackBounded StandstillSafe HighestExact
PROPERTY FinalizedForGood
CHECK_DEADLOCK FALSE
