CONSTANTS
  Products <- ProductsDef
  Variants <- VariantsDef
  Currencies <- CurrenciesDef
  NewProducts <- NewProductsDef
  Edits <- EditsDef
  DefaultCurrency = "USD"
  Orders = {o1}
  Workers = {w1, w2}
  MaxJobs = 4
  MaxQuantity = 2
SYMMETRY WorkerSymmetry
SPECIFICATION Spec
INVARIANTS AppliedExactly OneCurrency ShownIsServed
PROPERTIES ClearedWasOrdered
CHECK_DEADLOCK FALSE
