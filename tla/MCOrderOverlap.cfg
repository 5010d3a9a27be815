CONSTANTS
  Orders = {o1}
  Carts = {c1}
  NoCart = NoCart
  Workers = {w1, w2}
  AdminStatuses = {}
  MaxJobs = 4
SPECIFICATION Spec
INVARIANTS SettledOnce

CHECK_DEADLOCK FALSE
