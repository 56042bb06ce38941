SPECIFICATION Spec
CONSTANTS
  Ops = {1, 2}
  MaxPosts = 1
  MaxLimits = 2
  None = None
INVARIANTS
  RestedPanelShowsItsActs
  WhatIsSaidIsTrue
PROPERTIES
  PreflightIsNotTrusted
CHECK_DEADLOCK FALSE
