SPECIFICATION FairSpec
CONSTANTS
    Instances = {i1, i2}
    Requests = {r1, r2, r3}
    Nobody = Nobody
    MaxConcurrency = 1
    QueueLimit = 1
    MaxTroubles = 1
INVARIANTS
    TypeOK
    SlotLimit
    QueueBound
    AllReturned
PROPERTY
    LeftoversGo
CHECK_DEADLOCK FALSE
