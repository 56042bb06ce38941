SPECIFICATION WorkerSpec
CONSTANTS
  Tasks = {t1, t2}
  Users = {u1}
  NoUser = NoUser
  NoTask = NoTask
  Digests = {d1}
  NoOutcome = NoOutcome
  Codes = {"timeout", "unauthorized", "invalid_contract", "provider_failure"}
  Stamps = {1}
  MaxAttempts = 2
  Lease = 1
  Workers = {w1, w2}
  SkewedClocks = TRUE
SYMMETRY Symmetry
INVARIANTS
  ExclusiveLease
  DispatchedAtMostOnce
  ReportsAreTrue
