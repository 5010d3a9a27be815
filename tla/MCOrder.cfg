CONSTANTS
  Orders = {o1}
  Carts = {c1}
  NoCart = NoCart
  Workers = {w1, w2}
  AdminStatuses = {"PREPARING", "CANCELLED"}
  MaxJobs = 4
SPECIFICATION Spec
INVARIANTS TypeOK AnnouncedAsDecided CreatedOnce ConfirmedMeansApproved
PROPERTIES OutcomeIsTold
CHECK_DEADLOCK FALSE
