---- MODULE MCMembership ----
(* Two users whose rows are interchangeable, and two sessions.             *)
EXTENDS Membership, TLC
Symmetry == Permutations(Users) \cup Permutations(Sessions)
====
