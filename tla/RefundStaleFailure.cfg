SPECIFICATION Spec
CONSTANTS
  Admins = {a1, a2}
  Amount = 2
  OpeningBalance = 4
  Overdraft = 1
  Faults = {"late_failure"}
SYMMETRY Symmetry
INVARIANT NeverDeductedTwice
CHECK_DEADLOCK FALSE
