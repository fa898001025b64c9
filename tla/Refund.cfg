SPECIFICATION Spec
CONSTANTS
  Admins = {a1, a2}
  Amount = 2
  OpeningBalance = 3
  Overdraft = 1
  Faults = {"rollback", "audit", "late_failure", "bad_answer", "crash"}
SYMMETRY Symmetry
CONSTRAINT OneIncident
INVARIANTS TypeOK OneDeduction HeldOnlyWhileRefunding RefundedIsReturned
PROPERTY RefundedIsFinal
CHECK_DEADLOCK FALSE
