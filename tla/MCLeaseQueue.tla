----------------------------- MODULE MCLeaseQueue -----------------------------
EXTENDS LeaseQueue, TLC

Symmetry == Permutations(Tasks) \cup Permutations(Digests)
=============================================================================
