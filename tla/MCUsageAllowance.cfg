SPECIFICATION AllowanceSpec
CONSTANTS
  Members = {m1, m2}
  ClientKeys = {k1, k2}
  Contents = {c1}
  Limits = {1}
  Tokens = {1}
  Sessions = {s1, s2}
  MaxMonth = 1
  NoTask = NoTask
  NoLimit = NoLimit
  NoUsage = NoUsage
  Unreported = Unreported
  Nobody = Nobody
SYMMETRY Symmetry
INVARIANTS
  GatedBriefsAreNew
  ExhaustedGetsNothing
PROPERTIES
  RevocationCannotRaceCreation
