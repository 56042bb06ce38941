SPECIFICATION MembershipSpec
CONSTANTS
  Users = {u1, u2}
  Sessions = {s1, s2}
  Nobody = Nobody
  NoTx = NoTx
  NoSnapshot = NoSnapshot
SYMMETRY Symmetry
INVARIANTS
  ActiveTenantHasOwner
