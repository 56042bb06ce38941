SPECIFICATION Spec
CONSTANTS
  Sessions = {s1, s2}
  Calendars = {c1, c2}
  Days = {0}
  MaxPosts = 3
  MaxRevisions = 2
  None = None
SYMMETRY Symmetry
INVARIANTS
  OneOpenDecisionPerDay
  PostsNeedApprovedStrategy
  NoStandoff
PROPERTIES
  CommandsAreAtomic
