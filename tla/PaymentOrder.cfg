SPECIFICATION Spec
CONSTANTS
  Orders = {o1, o2}
  Workers = {w1, w2}
  NoOrder = NoOrder
  SubOrders = {o2}
  BackfillOrders = {o1, o2}
  Disturbances = {"stall", "lost_read"}
SYMMETRY Symmetry
CONSTRAINT OneOrder CreatedAlone
INVARIANTS TypeOK DeliveredAtMostOnce DeliveredOnlyIfPaid CompletedIsSettled
PROPERTIES PaidIsFinal ImplementsPromise
CHECK_DEADLOCK FALSE
