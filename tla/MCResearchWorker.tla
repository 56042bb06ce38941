--------------------------- MODULE MCResearchWorker ---------------------------
EXTENDS ResearchWorker, TLC

Symmetry == Permutations(Workers) \cup Permutations(Tasks)
=============================================================================
