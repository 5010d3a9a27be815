CONSTANTS
  Users = {u1}
  Tabs = {t1, t2}
  Callers <- CallersDef
  MaxCommands = 3
  Writers = {w1, w2}
  MaxAddresses = 3
  MaxFaults = 1
SYMMETRY Symmetry
SPECIFICATION Spec
INVARIANTS SpentOnce RecordsKept SessionIsOwn
PROPERTY ExpelledForCause
CHECK_DEADLOCK FALSE
