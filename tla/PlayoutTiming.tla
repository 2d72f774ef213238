---------------------------- MODULE PlayoutTiming ----------------------------
(***************************************************************************)
(* The clock of the playout.  Playout works out how long each frame is on,   *)
(* from the producer's timestamps where it has those of two frames in a row  *)
(* and otherwise from the frame rate, which it makes good for when the next  *)
(* timestamp is known; JitterTiming takes the time that processing costs out *)
(* of the waits.  Producer times are in ms, the consumer's clock is in us.   *)
(*                                                                         *)
(* The frames come from a FrameBuffer, which is left open here but for what  *)
(* releaseAcquiredSlot says of the next frame.  The AudioVideoSynchronizer   *)
(* is never set by the library and adjusts nothing.                          *)
(***************************************************************************)
EXTENDS Integers

CONSTANTS
    MaxFrame,           \* bound: frames
    Timestamps,         \* producer timestamps
    InferredDuration,   \* getInferredFrameDuration
    Excesses,           \* by how much checkBuffer may find the buffer too long
    ProcessingTimes,    \* what an iteration may take beyond its wait
    BufferCheckInterval,
    MaxClock            \* bound: the consumer's clock

ASSUME FramesAssumption == MaxFrame \in Nat
ASSUME TimesAssumption ==
    /\ Timestamps \subseteq Nat \ {0}
    /\ InferredDuration \in Nat
    /\ Excesses \subseteq Nat
    /\ ProcessingTimes \subseteq Nat
    /\ BufferCheckInterval \in Nat

Frames == 1..MaxFrame

VARIABLES
    timestamp,      \* of each frame, as the producer sets it
    isRunning,
    no,             \* the last frame played, or 0
    awaited,        \* the frame that releaseAcquiredSlot has found to be next, or 0
    playout,        \* the variables of Playout
    jitter,         \* the variables of JitterTiming
    history         \* of this run, see NewRun

vars == <<timestamp, isRunning, no, awaited, playout, jitter, history>>

(* isInferredPlayback_, lastPacketTs_, inferredDelay_, playbackAdjustment_ and
   bufferCheckTs_, here on the same clock as the rest.                       *)
NewPlayout(adjustment) ==
    [isInferred |-> FALSE, lastTs |-> 0, inferredDelay |-> 0, adjustment |-> adjustment,
     checkTs |-> 1]

(* JitterTiming::resetData: framePlayoutTimeMs_, processingTimeUsec_ and
   playoutTimestampUsec_.                                                   *)
Flushed == [wait |-> 0, processing |-> 0, stamp |-> 0]

(* scheduled: what the playout has asked JitterTiming to wait, in all,
   origin:    when, by this schedule, a frame of timestamp 0 would be due,
   lost:      whether an inferred delay has been forgotten, see Forgets.     *)
NewRun == [scheduled |-> 0, origin |-> 0, lost |-> FALSE]

-----------------------------------------------------------------------------
(* startFramePlayout: what the last iteration took beyond its wait is to be
   made good for.                                                           *)
StartFramePlayout(j, now) ==
    [j EXCEPT !.processing = IF j.stamp = 0 THEN @ ELSE @ + (now - j.stamp) - j.wait * 1000,
              !.stamp = now]

(* Mutant: what does not fit into the wait is forgotten.                     *)
UpdatePlayoutTimeForgetting(j, ms) ==
    LET absorbed == IF j.processing <= ms * 1000 THEN (j.processing \div 1000) * 1000
                    ELSE ms * 1000
    IN  [j EXCEPT !.wait = (ms * 1000 - absorbed) \div 1000,
                  !.processing = @ % 1000]

(* updatePlayoutTime: whole milliseconds of it, as many as there are and as
   fit into the wait, which processPlayout has asserted not to be negative.  *)
UpdatePlayoutTime(j, ms) ==
    LET whole    == (j.processing \div 1000) * 1000
        absorbed == IF whole > ms * 1000 THEN ms * 1000 ELSE whole
    IN  [j EXCEPT !.wait = (ms * 1000 - absorbed) \div 1000,
                  !.processing = @ - absorbed]

(* updatePlaybackAdjustment, for a frame with data: when the playback time so
   far has been inferred, the real one is known now.                        *)
UpdatePlaybackAdjustment(p, ts) ==
    IF p.lastTs > 0 /\ p.isInferred
    THEN [p EXCEPT !.adjustment = @ + (ts - p.lastTs) - p.inferredDelay,
                   !.inferredDelay = 0, !.lastTs = ts]
    ELSE [p EXCEPT !.lastTs = ts]

(* Mutant: what cannot be taken off this delay is forgotten.                 *)
PlaybackDelayAdjustmentForgetting(p, delay) ==
    [now |-> IF p.adjustment + delay < 0 THEN -delay ELSE p.adjustment, left |-> 0]

(* Mutant: whatever there is to adjust is taken at once.                     *)
PlaybackDelayAdjustmentAtOnce(p, delay) == [now |-> p.adjustment, left |-> 0]

(* playbackDelayAdjustment(delay): what to add to the delay now, and what is
   left of the adjustment.  A negative one takes off what it can.            *)
PlaybackDelayAdjustment(p, delay) ==
    IF p.adjustment < 0 /\ -p.adjustment > delay
    THEN [now |-> -delay, left |-> p.adjustment + delay]
    ELSE [now |-> p.adjustment, left |-> 0]

(* A delay below 0, of a frame stamped before the last one, is an error that
   processPlayout logs and sets to 0, after it has worked out the adjustment. *)
NotBelowZero(delay) == IF delay < 0 THEN 0 ELSE delay

-----------------------------------------------------------------------------
(* What an iteration may find at the head of the queue: a frame with data and
   its header, after which the frame that follows is, or is not, the next one
   in the queue with a header too; a slot without either, or none; a frame
   that is old.                                                             *)
Found == [kind : {"frame"}, no : Frames, next : Frames \cup {0}]
         \cup [kind : {"nothing", "old"}, no : {0}, next : {0}]

(* After releaseAcquiredSlot has taken the time from frame to frame, the next
   one played is the latter.                                                *)
MayFind(e) ==
    /\ e.kind = "frame" => e.no > no /\ e.next \in {0, e.no + 1}
    /\ awaited > 0 => e.kind = "old" \/ e.no = awaited

(* releaseAcquiredSlot: the duration, and whether it is inferred.            *)
PlaybackDuration(e) == CASE e.kind = "old" -> 0
                         [] e.kind # "old" /\ e.next > 0 -> timestamp[e.next] - timestamp[e.no]
                         [] OTHER -> InferredDuration
IsInferred(e) == e.kind # "old" /\ e.next = 0

(* History: when the code forgets that it has inferred something.            *)
Forgets(p, e) ==
    \/ e.kind = "old" /\ p.isInferred /\ p.lastTs > 0
    \/ e.kind = "frame" /\ p.lastTs = 0 /\ p.inferredDelay > 0 /\ e.next = 0

(* History: by how much the schedule does not follow the producer's clock back. *)
SetBack(delay) == NotBelowZero(delay) - delay

BufferCheckDue(p, now) == now - p.checkTs > BufferCheckInterval

(* checkBuffer                                                               *)
CheckBuffer(p, excess, now) ==
    IF BufferCheckDue(p, now) THEN [p EXCEPT !.adjustment = @ - excess, !.checkTs = now] ELSE p

(* processPlayout at time `now', of a playout p, JitterTiming j and history h:
   checkBuffer, which may find the buffer too long, and the rest.            *)
ProcessPlayout(p, j, h, e, excess, now) ==
    LET checked  == CheckBuffer(p, excess, now)
        updated  == IF e.kind = "frame"
                    THEN UpdatePlaybackAdjustment(checked, timestamp[e.no]) ELSE checked
        delay    == PlaybackDuration(e)
        adjusted == PlaybackDelayAdjustment(updated, delay)
        total    == NotBelowZero(delay) + adjusted.now
    IN  /\ playout' = [isInferred    |-> IsInferred(e),
                       lastTs        |-> updated.lastTs,
                       inferredDelay |-> IF IsInferred(e) THEN updated.inferredDelay + delay ELSE 0,
                       adjustment    |-> adjusted.left,
                       checkTs       |-> checked.checkTs]
        /\ jitter' = UpdatePlayoutTime(StartFramePlayout(j, now), total)
        /\ history' = [scheduled |-> h.scheduled + total,
                       origin    |-> (IF e.kind = "frame" /\ p.lastTs = 0
                                      THEN h.scheduled + checked.adjustment - timestamp[e.no]
                                      ELSE h.origin - excess) + SetBack(delay),
                       lost      |-> h.lost \/ Forgets(p, e)]
        /\ no' = IF e.kind = "frame" THEN e.no ELSE no
        /\ awaited' = IF e.kind = "old" THEN awaited ELSE e.next

-----------------------------------------------------------------------------
Init ==
    /\ timestamp \in [Frames -> Timestamps]
    /\ isRunning = FALSE
    /\ no = 0
    /\ awaited = 0
    /\ playout = NewPlayout(0)
    /\ jitter = Flushed
    /\ history = NewRun

(* Playout::start, with the initial adjustment of onBufferingEnded, and the
   first iteration.  The clock counts from 1.                                *)
Start(adjustment, e) ==
    /\ ~isRunning
    /\ MayFind(e)
    /\ isRunning' = TRUE
    /\ ProcessPlayout(NewPlayout(adjustment), Flushed, NewRun, e, 0, 1)
    /\ UNCHANGED timestamp

(* The timer that JitterTiming::run has set.                                 *)
Iterate(e, excess, processing) ==
    /\ isRunning
    /\ MayFind(e)
    /\ LET now == jitter.stamp + jitter.wait * 1000 + processing
       IN  /\ now <= MaxClock
           /\ excess > 0 => BufferCheckDue(playout, now)
           /\ ProcessPlayout(playout, jitter, history, e, excess, now)
    /\ UNCHANGED <<timestamp, isRunning>>

(* Playout::stop, and the reset of the buffer that goes with it.             *)
Stop ==
    /\ isRunning
    /\ isRunning' = FALSE
    /\ awaited' = 0
    /\ UNCHANGED <<timestamp, no, playout, jitter, history>>

Next ==
    \/ \E e \in Found :
          \/ \E excess \in Excesses : Start(-excess, e)
          \/ \E excess \in Excesses, processing \in ProcessingTimes : Iterate(e, excess, processing)
    \/ Stop

Spec == Init /\ [][Next]_vars

-----------------------------------------------------------------------------
(* Type invariant.  No wait is negative, whatever has to be made good for:
   processPlayout and JitterTiming::run assert it.                           *)
TypeOK ==
    /\ timestamp \in [Frames -> Timestamps]
    /\ isRunning \in BOOLEAN
    /\ no \in Frames \cup {0}
    /\ awaited \in Frames \cup {0}
    /\ playout \in [isInferred : BOOLEAN, lastTs : Nat, inferredDelay : Nat,
                   adjustment : Int, checkTs : Nat]
    /\ jitter \in [wait : Nat, processing : Nat, stamp : Nat]
    /\ history \in [scheduled : Nat, origin : Int, lost : BOOLEAN]

(* The consumer's clock is never ahead of the schedule, and what it is behind
   JitterTiming knows of: no time that processing takes is forgotten and none
   is taken out of the waits twice.  And it catches up: a playout that is late
   by a millisecond or more does not wait.                                   *)
ClockAccounted ==
    /\ isRunning =>
        (jitter.stamp - 1) + jitter.wait * 1000 = history.scheduled * 1000 + jitter.processing
    /\ jitter.processing < 1000 \/ jitter.wait = 0

(* When the next frame is due, by the producer's clock, as far as is known.  *)
DueTimestamp == IF playout.isInferred THEN playout.lastTs + playout.inferredDelay
                ELSE timestamp[awaited]

(* The schedule is the producer's clock: with what is left to adjust, the next
   frame is scheduled when its timestamp, or the one inferred for it, is due;
   unless an inferred delay has been forgotten.  Where the producer's clock is
   seen to go back the schedule stands still: from then on it is later by as
   much, whatever there was to adjust when that delay was set to 0.          *)
Tracks ==
    playout.lastTs > 0 => history.scheduled + playout.adjustment = history.origin + DueTimestamp
TracksProducer == isRunning /\ ~history.lost => Tracks

-----------------------------------------------------------------------------
(* The strengthening that makes them inductive.                              *)

(* awaited is the frame after the last one played.  While the playout runs it
   is known when nothing is inferred, unless that has been forgotten, and
   then nothing has been inferred; lastPacketTs_ is of the last frame played. *)
AwaitedIsNext ==
    /\ awaited > 0 => isRunning /\ awaited = no + 1
    /\ ~playout.isInferred => playout.inferredDelay = 0
    /\ playout.lastTs > 0 => no \in Frames /\ playout.lastTs = timestamp[no]
    /\ isRunning /\ playout.lastTs > 0 /\ ~playout.isInferred /\ ~history.lost
          => awaited \in Frames

Stamped == isRunning => jitter.stamp > 0

IInv ==
    /\ TypeOK
    /\ AwaitedIsNext
    /\ Stamped
    /\ ClockAccounted
    /\ TracksProducer
=============================================================================
