SPECIFICATION Spec
CONSTANTS
  Requests = {r1, r2, r3}
  Fingerprints = {f1, f2}
  NoFingerprint = NoFingerprint
  MaxTime = 2
  TTL = 2
  ProcessingTimeout = 1
  FailedRetryBackoff = 1
  MaxDuration = 2
SYMMETRY Symmetry
INVARIANTS TypeOK OnceUntilExpiry
PROPERTY ReplayMatchesPayload
CHECK_DEADLOCK FALSE
