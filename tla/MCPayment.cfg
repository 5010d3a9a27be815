CONSTANTS
  o1 = o1
  x1 = x1
  Orders <- OrdersDef
  ProviderPayments <- PaymentsDef
  Reference <- ReferenceDef
  Elsewhere = x1
  NoResource = NoResource
  Workers = {w1, w2}
  MaxChanges <- ChangesDef
  MaxJobs = 3
SYMMETRY WorkerSymmetry
SPECIFICATION Spec
INVARIANTS PreferencesAccounted AnnouncedAsRecorded SucceededMeansApproved AnnouncedUnlessLost ProcessedMeansApplied
CHECK_DEADLOCK FALSE
