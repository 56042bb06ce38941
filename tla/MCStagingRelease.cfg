SPECIFICATION Spec
CONSTANTS
  Jobs = {j1, j2, j3}
  Shas = {a, b}
  NoLink = NoLink
  Nobody = Nobody
SYMMETRY Symmetry
INVARIANTS
  ActiveIsComplete
  NeverWedgedAgain
PROPERTIES
  SuccessIsServed
  FailureIsUndone
