----------------------------- MODULE FrameBuffer -----------------------------
(***************************************************************************)
(* FrameBuffer: a pool of slots, the map from frames to the slots they have, *)
(* and the playback queue, a vector of the slots in the map that is sorted   *)
(* by hand.  What a slot does with its segments is in FrameSlot.tla; here a  *)
(* slot has one of PlaybackBuffer's slot states.                             *)
(*                                                                         *)
(* Handlers run one at a time on the background thread; each is a chain of   *)
(* calls, written as operators on the record `fb', in the order of the code: *)
(* reserving a slot may happen in the middle of newData and of the release   *)
(* of a slot, through onKeyNeeded of the pipeliner.                          *)
(***************************************************************************)
EXTENDS VideoPackets, SequencesExt

CONSTANTS
    SlotIds,       \* the slots
    CleanEvery     \* releases between two calls of cleanBuffer (60)

ASSUME SlotIdsAssumption == IsFiniteSet(SlotIds)
ASSUME CleanAssumption == CleanEvery \in Nat \ {0}

Nobody == [kind |-> "none", no |-> -1]
FreeSlot == [frame |-> Nobody, state |-> "free"]

VARIABLES
    fb,                \* see EmptyBuffer
    isValid,           \* state_ = Valid
    deltaFrameSeqNo    \* of the pipeliner

vars == <<fb, isValid, deltaFrameSeqNo>>

HasMeta(slot) == slot.state \in {"met", "assembling", "ready"}
ActiveFrames(b) == DOMAIN b.activeSlots
SlotOf(b, f) == b.slots[b.activeSlots[f]]
HeadFrame(b) == b.slots[Head(b.playbackQueue)].frame

(* The abstract buffer that a FrameBuffer is to its users.                   *)
View(b) ==
    [slots |-> [f \in Frames |-> IF f \in ActiveFrames(b) THEN SlotOf(b, f).state ELSE "free"],
     lastKey |-> b.lastKeySeqNo,
     nextKey |-> b.keyFrameSeqNo]

Buffer ==
    INSTANCE PlaybackBufferSpec WITH Slots <- Cardinality(SlotIds), buffer <- View(fb)

-----------------------------------------------------------------------------
(* PlaybackComparator, for slots that are not locked: nobody sorts the queue
   while its head is.                                                       *)
Ascending(b, i, j) ==
    LET x == b.slots[i]
        y == b.slots[j]
    IN  \/ HasMeta(x) /\ HasMeta(y) /\ PlaybackNo(x.frame) < PlaybackNo(y.frame)
        \/ HasMeta(x) /\ ~HasMeta(y)
        \/ /\ ~HasMeta(x) /\ ~HasMeta(y)
           /\ \/ x.frame.kind = "delta" /\ y.frame.kind = "key"
              \/ x.frame.kind = y.frame.kind /\ x.frame.no < y.frame.no

(* The elements of sequence s at some positions: each position comes after
   those of its set before[p].                                              *)
Arranged(s, before) ==
    [n \in 1..Cardinality(DOMAIN before) |->
        s[CHOOSE p \in DOMAIN before : Cardinality(before[p]) = n - 1]]

PartOf(s, P) == Arranged(s, [p \in P |-> {q \in P : q < p}])

(* PlaybackQueue::updatePlaybackDeadlines, which begins with sort().         *)
Precedes(b, n, m) ==
    LET queue == b.playbackQueue
    IN  \/ Ascending(b, queue[n], queue[m])
        \/ n < m /\ ~Ascending(b, queue[m], queue[n])

UpdatePlaybackDeadlines(b) ==
    [b EXCEPT !.playbackQueue =
        Arranged(@, [p \in DOMAIN @ |-> {q \in DOMAIN @ : Precedes(b, q, p)}])]

(* Mutant: the queue is not sorted when a slot is pushed.                    *)
ReserveSlotUnsorted(b, f) ==
    LET i == Last(b.freeSlots)
    IN  [b EXCEPT !.freeSlots = Front(@),
                  !.slots[i] = [frame |-> f, state |-> "new"],
                  !.activeSlots = [g \in ActiveFrames(b) \cup {f} |-> IF g = f THEN i ELSE @[g]],
                  !.playbackQueue = Append(@, i),
                  !.lastKeySeqNo = IF f.kind = "key" THEN f.no ELSE @,
                  !.nKeyFrames = IF f.kind = "key" THEN @ + 1 ELSE @]

ReserveSlot(b, f) ==
    LET i == Last(b.freeSlots)
        pushed == UpdatePlaybackDeadlines(
                    [b EXCEPT !.freeSlots = Front(@),
                              !.slots[i] = [frame |-> f, state |-> "new"],
                              !.activeSlots = [g \in ActiveFrames(b) \cup {f} |->
                                                  IF g = f THEN i ELSE @[g]],
                              !.playbackQueue = Append(@, i)])
    IN  IF f.kind = "key"
        THEN [pushed EXCEPT !.lastKeySeqNo = f.no, !.nKeyFrames = @ + 1]
        ELSE pushed

(* interestRangeIssued: a frame that has a slot keeps it, and without a free
   one nothing is asked for.                                                *)
InterestIssued(b, f) ==
    IF f \in ActiveFrames(b) \/ b.freeSlots = <<>> THEN b ELSE ReserveSlot(b, f)

(* PipelinerBase::onKeyNeeded and requestNextKey.                            *)
RequestNextKey(b, k) == [InterestIssued(b, Key(k)) EXCEPT !.keyFrameSeqNo = k + 1]
OnKeyNeeded(b, k) == IF b.keyFrameSeqNo <= k THEN RequestNextKey(b, k) ELSE b

(* Mutant: the slots do not go back to the pool.                             *)
FreeSlotsLost(b, freed) ==
    LET names == {b.slots[i].frame : i \in Range(freed)}
        nKeys == Cardinality(names \cap Keys)
    IN  [b EXCEPT !.slots = [i \in SlotIds |-> IF i \in Range(freed) THEN FreeSlot ELSE @[i]],
                  !.activeSlots = [f \in ActiveFrames(b) \ names |-> @[f]],
                  !.nKeyFrames = IF nKeys <= @ THEN @ - nKeys ELSE 0]

(* Mutant: the slots keep the names of the frames they had.                  *)
FreeSlotsNamed(b, freed) ==
    LET names == {b.slots[i].frame : i \in Range(freed)}
        nKeys == Cardinality(names \cap Keys)
    IN  [b EXCEPT !.slots = [i \in SlotIds |-> IF i \in Range(freed)
                                              THEN [@[i] EXCEPT !.state = "free"] ELSE @[i]],
                  !.activeSlots = [f \in ActiveFrames(b) \ names |-> @[f]],
                  !.freeSlots = @ \o freed,
                  !.nKeyFrames = IF nKeys <= @ THEN @ - nKeys ELSE 0]

(* freeSlot, for one slot after the other: out of the map, reset and back
   into the pool.                                                           *)
FreeSlotsOf(b, freed) ==
    LET names == {b.slots[i].frame : i \in Range(freed)}
        nKeys == Cardinality(names \cap Keys)
    IN  [b EXCEPT !.slots = [i \in SlotIds |-> IF i \in Range(freed) THEN FreeSlot ELSE @[i]],
                  !.activeSlots = [f \in ActiveFrames(b) \ names |-> @[f]],
                  !.freeSlots = @ \o freed,
                  !.nKeyFrames = IF nKeys <= @ THEN @ - nKeys ELSE 0]

-----------------------------------------------------------------------------
(* Mutant: the queue is sorted once, when the frame is complete.             *)
NewDataSortedLate(b, f, s, isHeader) ==
    LET i        == b.activeSlots[f]
        appended == [b EXCEPT !.slots[i].state = s]
        sorted   == IF s = "ready" THEN UpdatePlaybackDeadlines(appended) ELSE appended
    IN  IF s # "met" /\ f.kind = "delta" /\ b.lastKeySeqNo < Paired(f)
        THEN OnKeyNeeded(sorted, Paired(f))
        ELSE sorted

(* newData for a slot that takes data and is in state s afterwards.  While it
   stays StateNew nothing else is done.  Otherwise the queue is sorted when
   the slot's consistency has changed: with the first data, and when it is
   the segment with the frame's header.                                      *)
NewData(b, f, s, isHeader) ==
    LET i        == b.activeSlots[f]
        appended == [b EXCEPT !.slots[i].state = s]
        sorted   == IF b.slots[i].state # "assembling" \/ isHeader
                    THEN UpdatePlaybackDeadlines(appended) ELSE appended
    IN  IF s = "met" THEN appended
        ELSE IF f.kind = "delta" /\ b.lastKeySeqNo < Paired(f)
             THEN OnKeyNeeded(sorted, Paired(f))
             ELSE sorted

(* Mutant: delta and key numbers swapped.                                    *)
IsOldSwapped(b, f, slot) ==
    LET known  == f \in ActiveFrames(b) /\ HasMeta(SlotOf(b, f))
        paired == IF known THEN Paired(f) ELSE -1
    IN  IF HasMeta(slot)
        THEN known /\ PlaybackNo(slot.frame) < PlaybackNo(f)
        ELSE slot.frame.no < IF slot.frame.kind = "key"
                             THEN (IF f.kind = "key" THEN paired ELSE f.no)
                             ELSE b.lastKeySeqNo

(* cleanBuffer(paired or sequence number of f, lastKeySeqNo_, playback number
   of f): the playback number decides when it is known, else the sequence
   number does.  A number that is not known is -1.                           *)
IsOld(b, f, slot) ==
    LET known  == f \in ActiveFrames(b) /\ HasMeta(SlotOf(b, f))
        paired == IF known THEN Paired(f) ELSE -1
    IN  IF HasMeta(slot)
        THEN known /\ PlaybackNo(slot.frame) < PlaybackNo(f)
        ELSE slot.frame.no < IF slot.frame.kind = "delta"
                             THEN (IF f.kind = "key" THEN paired ELSE f.no)
                             ELSE b.lastKeySeqNo

CleanBuffer(b, f) ==
    LET q   == b.playbackQueue
        old == {n \in DOMAIN q : IsOld(b, f, b.slots[q[n]])}
    IN  FreeSlotsOf([b EXCEPT !.playbackQueue = PartOf(q, (DOMAIN q) \ old)], PartOf(q, old))

(* acquireSlot: whether the head of the queue is skipped, and playbackNo_.   *)
Skipped(b) ==
    /\ HasMeta(b.slots[Head(b.playbackQueue)])
    /\ b.playbackNo >= 0
    /\ PlaybackNo(HeadFrame(b)) <= b.playbackNo

AcquireSlot(b) ==
    IF Skipped(b) THEN b
    ELSE [b EXCEPT !.playbackNo = IF HasMeta(b.slots[Head(b.playbackQueue)])
                                  THEN PlaybackNo(HeadFrame(b)) ELSE -1]

(* releaseAcquiredSlot: the head leaves the queue, a key frame asks for the
   next one, the buffer may be cleaned, and only then the slot is free.      *)
ReleaseAcquiredSlot(b) ==
    LET f       == HeadFrame(b)
        popped  == UpdatePlaybackDeadlines([b EXCEPT !.playbackQueue = Tail(@)])
        asked   == IF f.kind = "key" /\ HasMeta(SlotOf(b, f)) /\ b.lastKeySeqNo <= f.no
                   THEN OnKeyNeeded(popped, f.no + 1) ELSE popped
        counted == [asked EXCEPT !.frameReleaseCount = (@ + 1) % CleanEvery]
        cleaned == IF counted.frameReleaseCount = 0 THEN CleanBuffer(counted, f) ELSE counted
    IN  FreeSlotsOf(cleaned, <<cleaned.activeSlots[f]>>)

(* FrameBuffer::reset, called by resetData of the pipeliner.  The slots go
   back to the pool in the order of their names.                             *)
ResetBuffer(b) ==
    [b EXCEPT !.slots = [i \in SlotIds |-> FreeSlot],
              !.activeSlots = [f \in {} |-> 0],
              !.freeSlots = @ \o SetToSeq(Range(b.activeSlots)),
              !.playbackQueue = <<>>,
              !.playbackNo = -1, !.lastKeySeqNo = -1, !.nKeyFrames = 0,
              !.frameReleaseCount = 0, !.keyFrameSeqNo = -1]

-----------------------------------------------------------------------------
(* init() fills the pool.  keyFrameSeqNo_ may hold anything before the first
   rightmost key sets it; what it holds then is Pipeliner2's business.       *)
Init ==
    /\ \E pool \in Injection(1..Cardinality(SlotIds), SlotIds) :
          fb = [slots |-> [i \in SlotIds |-> FreeSlot],
                activeSlots |-> [f \in {} |-> 0],
                freeSlots |-> pool,
                playbackQueue |-> <<>>,
                playbackNo |-> -1, lastKeySeqNo |-> -1, nKeyFrames |-> 0,
                frameReleaseCount |-> 0, keyFrameSeqNo |-> -1]
    /\ isValid = FALSE
    /\ deltaFrameSeqNo = 0

(* askForInitialData: the rightmost key k has come, the next one is asked
   for and the buffer is Valid.                                              *)
AskForInitialData(k) ==
    /\ ~isValid
    /\ isValid' = TRUE
    /\ fb' = RequestNextKey(fb, k + 1)
    /\ UNCHANGED deltaFrameSeqNo

(* requestNextDelta; the delta counter may have been moved ahead by a key
   frame.                                                                    *)
RequestNextDelta(d) ==
    /\ isValid
    /\ deltaFrameSeqNo <= d
    /\ fb' = InterestIssued(fb, Delta(d))
    /\ deltaFrameSeqNo' = d + 1
    /\ UNCHANGED isValid

(* Data for a frame that takes data.                                         *)
Receive(f) ==
    /\ f \in ActiveFrames(fb)
    /\ Produced(f)
    /\ SlotOf(fb, f).state \in Buffer!Unfinished
    /\ \E s \in Buffer!Appended(SlotOf(fb, f).state), isHeader \in BOOLEAN :
          fb' = NewData(fb, f, s, isHeader)
    /\ UNCHANGED <<isValid, deltaFrameSeqNo>>

(* processPlayout: acquireSlot, playbackPacket, releaseAcquiredSlot.  With an
   empty queue neither does anything.                                        *)
ProcessPlayout ==
    /\ isValid
    /\ fb.playbackQueue # <<>>
    /\ fb' = ReleaseAcquiredSlot(AcquireSlot(fb))
    /\ UNCHANGED <<isValid, deltaFrameSeqNo>>

(* Rebuffering.                                                              *)
Reset ==
    /\ isValid
    /\ fb' = ResetBuffer(fb)
    /\ isValid' = FALSE
    /\ deltaFrameSeqNo' = 0

Next ==
    \/ \E k \in 0..MaxKey : AskForInitialData(k)
    \/ \E d \in 0..MaxDelta : RequestNextDelta(d)
    \/ \E f \in Frames : Receive(f)
    \/ ProcessPlayout
    \/ Reset

Spec == Init /\ [][Next]_vars

-----------------------------------------------------------------------------
(* Type invariant.  A slot that is free is nobody's.                         *)
BufferTypeOK(b) ==
    /\ b.slots \in [SlotIds -> [frame : Frames \cup {Nobody}, state : Buffer!SlotStates]]
    /\ \A i \in SlotIds : b.slots[i].state = "free" <=> b.slots[i].frame = Nobody
    /\ ActiveFrames(b) \subseteq Frames
    /\ b.activeSlots \in [ActiveFrames(b) -> SlotIds]
    /\ b.freeSlots \in Seq(SlotIds) /\ b.playbackQueue \in Seq(SlotIds)
    /\ b.playbackNo \in Int
    /\ b.lastKeySeqNo \in -1..(MaxKey + 1)
    /\ b.nKeyFrames \in Nat
    /\ b.frameReleaseCount \in 0..(CleanEvery - 1)
    /\ b.keyFrameSeqNo \in Int

TypeOK ==
    /\ BufferTypeOK(fb)
    /\ isValid \in BOOLEAN
    /\ deltaFrameSeqNo \in 0..(MaxDelta + 1)

(* No slot is ever lost or used twice: each is in the pool, once, or it is in
   the map under the name it carries and in the queue, once.  nKeyFrames_
   counts the key frames in the map.  In the middle of a release there are
   slots that are out of the queue and still in the map.                     *)
Accounted(b, out) ==
    /\ \A f \in ActiveFrames(b) : SlotOf(b, f).frame = f
    /\ IsInjective(b.freeSlots) /\ IsInjective(b.playbackQueue)
    /\ out \subseteq Range(b.activeSlots)
    /\ Range(b.playbackQueue) = Range(b.activeSlots) \ out
    /\ Range(b.freeSlots) = SlotIds \ Range(b.activeSlots)
    /\ b.nKeyFrames = Cardinality(ActiveFrames(b) \cap Keys)

SlotsAccounted == Accounted(fb, {})

(* The frames that have begun to assemble are played in the order of their
   playback numbers and before those nothing has come of, although the queue
   is only sorted now and then.                                              *)
QueueInOrder ==
    \A n, m \in DOMAIN fb.playbackQueue :
        LET x == fb.slots[fb.playbackQueue[n]]
            y == fb.slots[fb.playbackQueue[m]]
        IN  n < m /\ y.state \in {"assembling", "ready"} =>
                HasMeta(x) /\ (x.state # "met" => PlaybackNo(x.frame) < PlaybackNo(y.frame))

-----------------------------------------------------------------------------
(* The strengthening that makes these invariants inductive.                  *)

BufferFields == {"slots", "activeSlots", "freeSlots", "playbackQueue", "playbackNo",
                 "lastKeySeqNo", "nKeyFrames", "frameReleaseCount", "keyFrameSeqNo"}

Sorted(b) ==
    \A n, m \in DOMAIN b.playbackQueue :
        n < m => Ascending(b, b.playbackQueue[n], b.playbackQueue[m])

(* The slots that got their meta data without the queue being sorted again.  *)
Unnoticed(b, late) ==
    [b EXCEPT !.slots = [i \in SlotIds |->
                            IF i \in late THEN [@[i] EXCEPT !.state = "new"] ELSE @[i]]]

Late(b) == SUBSET {i \in SlotIds : b.slots[i].state = "met"}

SortedButForLate(b) == \E late \in Late(b) : Sorted(Unnoticed(b, late))

(* A frame with a slot has been asked for; one that data has come of exists.  *)
AskedFor(b) ==
    /\ \A f \in ActiveFrames(b) \cap Keys : f.no < b.keyFrameSeqNo
    /\ \A i \in SlotIds : HasMeta(b.slots[i]) => Produced(b.slots[i].frame)

Kept(b, out) == DOMAIN b = BufferFields /\ BufferTypeOK(b) /\ Accounted(b, out)
Sound(b, out) == Kept(b, out) /\ SortedButForLate(b)

IInv ==
    /\ TypeOK
    /\ Sound(fb, {}) /\ AskedFor(fb)
    /\ \A f \in ActiveFrames(fb) \cap Deltas : f.no < deltaFrameSeqNo
    /\ ~isValid => ActiveFrames(fb) = {} /\ fb.keyFrameSeqNo = -1

-----------------------------------------------------------------------------
(* What cleanBuffer drops along with the frame that has been played is older
   than it, except for key frames nothing has come of.                       *)
CleanKeepsNewer ==
    [][isValid' =>
          \A f \in ActiveFrames(fb) \ ActiveFrames(fb') :
              \/ f = HeadFrame(fb)
              \/ f.kind = "key" /\ SlotOf(fb, f).state = "new"
              \/ PlaybackNo(f) < PlaybackNo(HeadFrame(fb))]_vars

(* The pool, the map, the queue and their upkeep are what PlaybackBufferSpec
   promises: Pipeliner2 need not know of them.                               *)
ImplementsBuffer == Buffer!Spec
=============================================================================
