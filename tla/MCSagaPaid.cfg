CONSTANTS
  Orders = {o1}
  Providers = {"MERCADO_PAGO"}
  AdminStatuses = {}
  MaxOpen = 3
  MaxFaults = 0
SPECIFICATION SagaSpec
INVARIANTS ApprovedConfirms
CHECK_DEADLOCK FALSE
