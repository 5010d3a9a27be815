CONSTANTS
  v1 = v1
  v2 = v2
  v3 = v3
  s1 = s1
  s2 = s2
  o1 = o1
  o2 = o2
  k1 = k1
  k2 = k2
  Variants = {v1, v2, v3}
  Skus = {s1, s2}
  NoSku = NoSku
  Orders = {o1, o2}
  Keys = {k1, k2}
  NoKey = NoKey
  Delisted = {v3}
  Requests <- MCRequests
  MaxQuantity = 2
  MaxStock = 3
SPECIFICATION Spec
INVARIANTS TypeOK ReservedIsHeld ReservedWithinStock MovementsExplainStock SoldExactlyOnce EventsMatchRows
PROPERTIES SettledIsFinal ImplementsPool
CHECK_DEADLOCK FALSE
