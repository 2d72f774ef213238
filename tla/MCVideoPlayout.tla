---------------------------- MODULE MCVideoPlayout ---------------------------
(* VideoPlayout for TLC.  Which slot is which does not matter.               *)
EXTENDS VideoPlayout

CONSTANTS s1, s2, s3, s4

AnySlot == Permutations(SlotIds)
=============================================================================
