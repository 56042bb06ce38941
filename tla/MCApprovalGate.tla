---------------------------- MODULE MCApprovalGate ----------------------------
EXTENDS ApprovalGate, TLC

Symmetry == Permutations(Sessions) \cup Permutations(Calendars)
=============================================================================
