SPECIFICATION Spec
CONSTANTS
  Drafts = {d1, d2}
  Ops = {o1, o2}
  MaxKeys = 2
  MaxAttempts <- Attempts
  None = None
INVARIANTS
  OneRunPerBrief
  ReadsNeverTrip
  LoneRefreshIsCoherent
PROPERTIES
  RetryOnlyWhatFailed
SYMMETRY Interchangeable
CHECK_DEADLOCK FALSE
