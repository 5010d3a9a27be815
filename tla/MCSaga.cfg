CONSTANTS
  Orders = {o1}
  Providers = {"MERCADO_PAGO", "MOCK"}
  AdminStatuses = {"CANCELLED", "PREPARING"}
  MaxOpen = 3
  MaxFaults = 1
SPECIFICATION SagaSpec
INVARIANTS DebtsAreCarried
CHECK_DEADLOCK FALSE
