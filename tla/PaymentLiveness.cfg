SPECIFICATION LiveSpec
CONSTANTS
  Orders = {o1}
  Workers = {w1, w2}
  NoOrder = NoOrder
  SubOrders = {}
  BackfillOrders = {}
  Disturbances = {"stall"}
  MaxFaults = 1
PROPERTIES PaidIsCompleted PendingIsResolved
CHECK_DEADLOCK FALSE
