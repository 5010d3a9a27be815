CONSTANTS
  o1 = o1
  o2 = o2
  k1 = k1
  k2 = k2
  Workers = {w1, w2}
  Variants = {1, 2}
  Orders = {o1, o2}
  Keys = {k1, k2}
  NoKey = NoKey
  Commands <- MCCommands
  MaxQuantity = 2
  MaxStock = 2
SPECIFICATION Spec
INVARIANT CounterIsExact
PROPERTIES ImplementsPool TransactionsEnd
