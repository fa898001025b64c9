SPECIFICATION FairSpec
CONSTANTS
    i1 = i1
    i2 = i2
    r1 = r1
    Nobody = Nobody
    Instances = {i1, i2}
    Requests = {r1}
    InstanceOf <- RequestsAtI1
    MaxAttempts = 2
    MaxGen = 3
    MaxByHand = 2
    MaxTroubles = 1
CONSTRAINT RetriesAlone
INVARIANTS
    TypeOK
    HealthyNotDisabled
    StoredIsUsable
    OneRefresher
PROPERTY
    DueIsRefreshed
CHECK_DEADLOCK FALSE
