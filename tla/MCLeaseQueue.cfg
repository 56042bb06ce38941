SPECIFICATION Spec
CONSTANTS
  Tasks = {t1, t2}
  Users = {u1}
  NoUser = NoUser
  Digests = {d1, d2}
  NoOutcome = NoOutcome
  Codes = {"timeout", "unauthorized", "provider_failure"}
  Stamps = {1, 2}
  MaxAttempts = 3
  Lease = 2
SYMMETRY Symmetry
INVARIANTS
  RetriesPayForAttempts
PROPERTIES
  RevocationIsImmediate
  ImplementsFencedResult
