--------------------------- MODULE PlaybackBuffer ---------------------------
(***************************************************************************)
(* What the pipeliner and the playout see of FrameBuffer: a slot, or none,  *)
(* for each frame; the key bookkeeping; and, for each call, what it makes   *)
(* of them.  A buffer is a record                                           *)
(*     slots    the state of the slot of each frame ("free": no slot),      *)
(*     lastKey  lastKeySeqNo_ of FrameBuffer,                               *)
(*     nextKey  keyFrameSeqNo_ of the pipeliner, which FrameBuffer advances *)
(*              by calling onKeyNeeded.                                     *)
(* FrameBuffer.tla has the queue, the pool and the counters behind it.      *)
(***************************************************************************)
EXTENDS VideoPackets

CONSTANT Slots        \* bufferSlotsNum_

ASSUME SlotsAssumption == Slots \in Nat

(* "new" and "met" are StateNew: nothing has come, or, of a frame that is one
   data segment long, parity data only.  Any data brings the PrefixMeta.    *)
SlotStates == {"free", "new", "met", "assembling", "ready"}
Unfinished == {"new", "met", "assembling"}
HasMeta    == {"met", "assembling", "ready"}

EmptyBuffer(k) ==
    [slots |-> [f \in Frames |-> "free"], lastKey |-> -1, nextKey |-> k]

Active(b) == {f \in Frames : b.slots[f] # "free"}
FreeSlots(b) == Slots - Cardinality(Active(b))
Unserved(b) == Cardinality({f \in Frames : b.slots[f] \in {"new", "met"}})

-----------------------------------------------------------------------------
(* prefetchFrame -> interestRangeIssued -> reserveSlot: a slot for the frame
   and Interests for its segments; without a free slot nothing is asked.    *)
PrefetchKey(b, k) ==
    IF FreeSlots(b) > 0 /\ b.slots[Key(k)] = "free"
    THEN [b EXCEPT !.slots[Key(k)] = "new", !.lastKey = k]
    ELSE b

PrefetchDeltas(b, from, n) ==
    LET m   == IF n <= FreeSlots(b) THEN n ELSE FreeSlots(b)
        new == {f \in Deltas : from <= f.no /\ f.no < from + m}
    IN  [b EXCEPT !.slots = [f \in Frames |-> IF f \in new THEN "new" ELSE @[f]]]

(* requestNextKey counts the key as requested whether or not it got a slot. *)
RequestNextKey(b, k) == [PrefetchKey(b, k) EXCEPT !.nextKey = k + 1]

OnKeyNeeded(b, k) == IF b.nextKey <= k THEN RequestNextKey(b, k) ELSE b

(* The states that data may take an unfinished slot to.  A frame of one data
   segment stays StateNew until that segment comes, and is then Ready.      *)
Appended(st) == CASE st = "new"        -> {"met", "assembling", "ready"}
                  [] st = "met"        -> {"met", "ready"}
                  [] st = "assembling" -> {"assembling", "ready"}

(* Mutant: a delta frame does not make sure of its key.                     *)
NewDataWithoutKey(b, f, s) == [b EXCEPT !.slots[f] = s]

(* FrameBuffer::newData for a frame with an unfinished slot: the slot moves
   to s and, unless it stays StateNew, a delta frame makes sure of its key. *)
NewData(b, f, s) ==
    LET appended == [b EXCEPT !.slots[f] = s]
    IN  IF s # "met" /\ f.kind = "delta" /\ b.lastKey < Paired(f)
        THEN OnKeyNeeded(appended, Paired(f))
        ELSE appended

(* The head of the playback queue: frames that have meta data by playback
   number, then delta frames, then key frames by sequence number.  newData
   does not sort the queue when the slot stays StateNew: some frames of state
   "met", the late ones, may still be where they were without meta data.    *)
Met(b) == {f \in Frames : b.slots[f] = "met"}
Rank(b, late, f) == IF b.slots[f] \in HasMeta /\ f \notin late THEN 0
                    ELSE IF f.kind = "delta" THEN 1 ELSE 2
Before(b, late, f, g) ==
    \/ Rank(b, late, f) < Rank(b, late, g)
    \/ /\ Rank(b, late, f) = Rank(b, late, g)
       /\ IF Rank(b, late, f) = 0 THEN PlaybackNo(f) <= PlaybackNo(g) ELSE f.no <= g.no
Head(b, late) == CHOOSE f \in Active(b) : \A g \in Active(b) : Before(b, late, f, g)

(* What cleanBuffer drops after frame f: what is older than f by its playback
   number or, while that is unknown, by its own number, a key frame by
   lastKeySeqNo_ instead.                                                   *)
Old(b, f) ==
    LET known   == b.slots[f] \in HasMeta
        deltaNo == IF f.kind = "delta" THEN f.no ELSE IF known THEN Paired(f) ELSE -1
    IN  {g \in Active(b) \ {f} :
            IF b.slots[g] \in HasMeta THEN known /\ PlaybackNo(g) < PlaybackNo(f)
            ELSE g.no < (IF g.kind = "delta" THEN deltaNo ELSE b.lastKey)}

Free(b, fs) == [b EXCEPT !.slots = [f \in Frames |-> IF f \in fs THEN "free" ELSE @[f]]]

(* processPlayout: acquire and release the head of the queue, whatever it
   holds; a key frame asks for the next one before its slot is freed, and at
   every 60th frame, which is left open here, the buffer is cleaned.        *)
Play(b, f) ==
    LET asked == IF f.kind = "key" /\ b.slots[f] \in HasMeta /\ b.lastKey <= f.no
                 THEN OnKeyNeeded(b, f.no + 1)
                 ELSE b
    IN  {Free(asked, {f}), Free(asked, {f} \cup Old(asked, f))}

Plays(b) == IF Active(b) = {} THEN {b}
            ELSE UNION {Play(b, Head(b, late)) : late \in SUBSET Met(b)}

(* FrameBuffer::reset.                                                      *)
ResetBuffer(b) == EmptyBuffer(-1)
=============================================================================
