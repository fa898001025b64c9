CONSTANTS
    Workers = {w1}
    NoWorker = NoWorker
    HoldAmount = 2
    InitialBalance = 3
    OtherHolds = 2
    Costs = {1}
    MaxRetries = 3
    MaxTroubles = 0
SPECIFICATION Spec
INVARIANT ClaimedReleaseHasReturned
CHECK_DEADLOCK FALSE
