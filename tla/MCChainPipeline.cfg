SPECIFICATION FairSpec
CONSTANTS
  Briefs = {b1, b2}
  Users = {u1}
  NoUser = NoUser
  Digests = {d1}
  NoOutcome = NoOutcome
  Codes = {"timeout", "unauthorized"}
  Stamps = {1}
  MaxAttempts = 2
  Lease = 1
INVARIANTS
  ExactlyOneSuccessor
  FanOutNeverBlocks
  HandoffCarriesEvidence
  ApprovalTracesToBrief
PROPERTIES
  ReadersSeeOneChain
  EveryBriefAnswered
