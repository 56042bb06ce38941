\* Two windows; organizations of at most three nodes, which have no next step.
CONSTANTS
  Windows = {1, 2}
  Ids = {1, 2, 3}
SPECIFICATION DemoSpec
CHECK_DEADLOCK FALSE
INVARIANTS
  LastChoiceSurvives
  EveryLinkResolves
  BothViewsAgree
