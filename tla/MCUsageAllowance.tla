---- MODULE MCUsageAllowance ----
EXTENDS UsageAllowance, TLC
Symmetry == Permutations(Members) \cup Permutations(ClientKeys) \cup Permutations(Sessions)
====
