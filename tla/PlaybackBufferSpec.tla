------------------------- MODULE PlaybackBufferSpec -------------------------
(***************************************************************************)
(* What FrameBuffer promises to the pipeliner and the playout: a buffer, as  *)
(* PlaybackBuffer describes it, that changes by PlaybackBuffer's operations  *)
(* only.  Pipeliner2.tla is written on top of this promise and FrameBuffer   *)
(* implements it.                                                            *)
(***************************************************************************)
EXTENDS PlaybackBuffer

VARIABLE buffer

Init == buffer = EmptyBuffer(buffer.nextKey)

KeyRequested == \E k \in 0..MaxKey : buffer' = RequestNextKey(buffer, k + 1)

DeltaRequested == \E d \in 0..MaxDelta : buffer' = PrefetchDeltas(buffer, d, 1)

DataReceived ==
    \E f \in Frames :
        /\ buffer.slots[f] \in Unfinished
        /\ Produced(f)
        /\ \E s \in Appended(buffer.slots[f]) : buffer' = NewData(buffer, f, s)

FramePlayed == buffer' \in Plays(buffer)

BufferReset == buffer' = ResetBuffer(buffer)

Next == KeyRequested \/ DeltaRequested \/ DataReceived \/ FramePlayed \/ BufferReset

Spec == Init /\ [][Next]_buffer
=============================================================================
