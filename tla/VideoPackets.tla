---------------------------- MODULE VideoPackets ----------------------------
(***************************************************************************)
(* The packets of a video thread and their numbers.                         *)
(***************************************************************************)
EXTENDS Integers, FiniteSets

CONSTANTS
    GOP,              \* delta frames between two key frames
    MaxKey,           \* bound: the producer's newest key frame
    MaxDelta          \* bound: the newest delta frame asked for

ASSUME GOPAssumption == GOP \in Nat \ {0}
ASSUME PacketsAssumption == /\ MaxKey \in Nat
                            /\ MaxDelta \in Nat
                            /\ MaxDelta \div GOP <= MaxKey + 1

Keys   == [kind : {"key"}, no : 0..(MaxKey + 1)]
Deltas == [kind : {"delta"}, no : 0..MaxDelta]
Frames == Keys \cup Deltas
Key(k)   == [kind |-> "key", no |-> k]
Delta(d) == [kind |-> "delta", no |-> d]

(* What the producer numbers its packets: in playback order, a key frame
   followed by its GOP delta frames; the paired number of a key is its first
   delta frame, the paired number of a delta frame its key.                 *)
PlaybackNo(f) == IF f.kind = "key" THEN f.no * (GOP + 1)
                 ELSE f.no + f.no \div GOP + 1
Paired(f)     == IF f.kind = "key" THEN f.no * GOP ELSE f.no \div GOP
Produced(f)   == f.kind = "key" => f.no <= MaxKey
===============================================================================
