SPECIFICATION Spec
CONSTANTS
  Operations = {p1, p2}
  Fingerprints = {f1, f2}
  NoFingerprint = NoFingerprint
  MaxTime = 12
  Lease = 6
  RenewInterval = 2
  LockTTL = 7
  MaxAcquire = 1
  MaxHold = 12
  Tolerated = 1
  MaxMissed = 2
SYMMETRY Symmetry
INVARIANTS TypeOK ExclusiveUntilLapse LockedUntilLapse
CHECK_DEADLOCK FALSE
