CONSTANTS
    Workers = {w1, w2}
    NoWorker = NoWorker
    HoldAmount = 2
    InitialBalance = 3
    OtherHolds = 2
    Costs = {1, 3}
    MaxRetries = 3
    MaxTroubles = 2
SPECIFICATION FairSpec
INVARIANTS
    TypeOK
    HoldEndsOnce
    ChargedIsCompleted
    HoldIsPursued
    SweptIsStopped
PROPERTIES
    QueuedJobEnds
CHECK_DEADLOCK FALSE
