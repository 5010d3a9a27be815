CONSTANTS
  Orders = {o1}
  Carts = {c1, c2}
  NoCart = NoCart
  Workers = {w1, w2}
  AdminStatuses = {}
  MaxJobs = 5
SPECIFICATION SerialSpec
INVARIANTS HistoryMovesForward
PROPERTIES ImplementsLifecycle
CHECK_DEADLOCK FALSE
