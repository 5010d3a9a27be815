CONSTANTS
  Orders = {o1}
  Providers = {"MERCADO_PAGO"}
  AdminStatuses = {}
  MaxOpen = 1
  MaxFaults = 0
  MaxFailures = 1
SPECIFICATION Spec
INVARIANTS ShownForGoodIsTrue
PROPERTIES SettledIsShown ReturnSettles
CHECK_DEADLOCK FALSE
