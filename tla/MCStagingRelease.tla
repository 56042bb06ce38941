---- MODULE MCStagingRelease ----
EXTENDS StagingRelease, TLC
Symmetry == Permutations(Jobs) \cup Permutations(Shas)
====
