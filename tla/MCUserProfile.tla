------------------------------ MODULE MCUserProfile ----------------------------
(* UserProfile with one or two users and workers and two values per field     *)
(* that setters race on.                                                      *)
EXTENDS UserProfile, TLC

CONSTANTS u1, u2, n1, n2

OneFirst == u1 :> n1
TwoFirst == u1 :> n1 @@ u2 :> n2

Symmetry == Permutations(FileId) \cup Permutations(Worker)
================================================================================
