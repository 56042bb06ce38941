SPECIFICATION WorkerSpec
CONSTANTS
  Tasks = {t1}
  Users = {u1}
  NoUser = NoUser
  NoTask = NoTask
  Digests = {d1}
  NoOutcome = NoOutcome
  Codes = {"timeout", "unauthorized"}
  Stamps = {1}
  MaxAttempts = 2
  Lease = 1
  Workers = {w1}
  SkewedClocks = FALSE
INVARIANTS
  UsageGapIsVisible
