--------------------------- MODULE MCInterestQueue ---------------------------
(* InterestQueue for TLC: two application threads besides the background
   thread and three Interests, two of which have the same deadline.         *)
EXTENDS InterestQueue

CONSTANTS i1, i2, i3

MCDeadline == [i \in {i1, i2, i3} |-> IF i = i3 THEN 0 ELSE 1]
=============================================================================
