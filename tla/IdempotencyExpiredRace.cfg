SPECIFICATION Spec
CONSTANTS
  Requests = {r1, r2}
  Fingerprints = {f1}
  NoFingerprint = NoFingerprint
  MaxTime = 4
  TTL = 2
  ProcessingTimeout = 1
  FailedRetryBackoff = 1
  MaxDuration = 0
SYMMETRY Symmetry
PROPERTY OncePerRecord
CHECK_DEADLOCK FALSE
