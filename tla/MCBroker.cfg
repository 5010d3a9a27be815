CONSTANTS
  Messages = {m1}
  Kinds <- KindsDef
  Active <- ActiveDef
  MAX_RETRY_ATTEMPTS = 2
  MaxStops = 1
SPECIFICATION Spec
INVARIANTS CopiesAccounted GivenUpAfterRetries AnsweredAsHandled
PROPERTY EverythingSettles
CHECK_DEADLOCK FALSE
