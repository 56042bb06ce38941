------------------------------ MODULE MCBriefPanel ------------------------------
EXTENDS BriefPanel, TLC

\* The chain of the first key may go to its end and its research be retried; that
\* of the second gets as far as a calendar nobody has claimed.
Attempts == <<<<2, 1, 1>>, <<1, 1, 0>>>>
Interchangeable == Permutations(Drafts) \cup Permutations(Ops)
=============================================================================
