----------------------------- MODULE Pipeliner2 -----------------------------
(***************************************************************************)
(* The fetching side of ndnrtc's video Consumer: Pipeliner2 with its        *)
(* PipelinerWindow, and of the objects it drives what it can observe of     *)
(* them: which frames FrameBuffer has a slot for, whether the buffer is     *)
(* Valid, whether Playout runs, which Interests are outstanding.            *)
(*                                                                         *)
(* Every handler (onData, onTimeout, the playout timer, recoveryCheck,      *)
(* switchThread) runs on the one background thread, so each is one action.  *)
(* A handler that is a chain of calls is a chain of operators on the record *)
(* `buffer', in the order of the calls.                                     *)
(*                                                                         *)
(* Time is abstract: every comparison with a clock, and every verdict of    *)
(* the stability and RTT estimators, is a nondeterministic choice.  Data    *)
(* for a frame may come, or never, as long as its slot waits for it: the    *)
(* timeouts and the retransmissions of frame Interests change nothing else. *)
(***************************************************************************)
EXTENDS PlaybackBuffer

CONSTANTS
    MediaThreads,     \* the threads (bitrates) of the stream
    MaxWindow,        \* bound: the window does not grow beyond it
    MaxCopies,        \* bound: outstanding Interests for the rightmost key
    DefaultWindow,
    DefaultMinWindow,
    Uninitialized     \* what keyFrameSeqNo_ may hold before it is assigned

ASSUME BoundsAssumption == MaxWindow \in Nat /\ MaxCopies \in Nat
ASSUME WindowAssumption == /\ DefaultWindow \in Nat
                           /\ DefaultMinWindow \in Nat
                           /\ DefaultMinWindow > 0
                           /\ DefaultWindow > DefaultMinWindow
ASSUME UninitializedAssumption == Uninitialized \subseteq Int

VARIABLES
    isConsuming,
    thread,            \* currentThreadIdx_: what the two prefixes are made from
    state,
    deltaFrameSeqNo,
    seedFrameNo,
    window,            \* window_: [dw, w, pool]
    failedWindow,
    waitForChange,
    waitForStability,
    checkpoint,        \* recoveryCheckpointTimestamp_ # 0
    buffer,            \* a record, see PlaybackBuffer
    valid,             \* FrameBuffer::state_ = Valid
    isRunning,         \* of Playout
    rightmosts,        \* how many Interests for the rightmost key are outstanding
    stale,             \* threads with Interests for frames from before a rebuffering
    refused            \* history: the newest key that found no free slot in this run

estimation == <<failedWindow, waitForChange, waitForStability>>
vars == <<isConsuming, thread, state, deltaFrameSeqNo, seedFrameNo,
          window, estimation, checkpoint, buffer, valid, isRunning, rightmosts, stale, refused>>

(* An outstanding Interest for the rightmost key of a thread: issued in this
   run or before the last rebuffering, and what its Exclude rules out: the
   keys up to the counter's value at the rebuffering or, when that was -1,
   which is encoded as the greatest unsigned number, every key.
   exclusionPacket_ carries that number from rebuffer to the
   askForRightmostData it ends with and is 0 between the handlers.          *)
Excludes == {"nothing", "older", "everything"}
RightmostInterests == [thread : MediaThreads, stale : BOOLEAN, exclude : Excludes]
ExcludeUpTo(n) == CASE n = 0 -> "nothing" [] n > 0 -> "older" [] n < 0 -> "everything"

NoInterests == [i \in RightmostInterests |-> 0]

-----------------------------------------------------------------------------
(* PipelinerWindow.                                                         *)
WindowInit == [dw |-> DefaultWindow, w |-> DefaultWindow, pool |-> {}]

DataArrived(win, d) ==
    IF d \in win.pool THEN [win EXCEPT !.w = @ + 1, !.pool = @ \ {d}] ELSE win

(* n calls of canAskForData, each followed by requestNextDelta's increment. *)
AskFor(win, from, n) ==
    [win EXCEPT !.w = @ - n, !.pool = @ \cup (from..(from + n - 1))]

(* Mutant: the frames that may be asked for are forgotten.                  *)
GrowDefaultOnly(win, n) == [win EXCEPT !.dw = @ + n]

Grow(win, n) == [win EXCEPT !.dw = @ + n, !.w = @ + n]

(* changeWindow for a negative delta: less than what is outstanding.  dw_ is
   unsigned: a window that would become 0 is left as it is.                 *)
Shrink(win, n, outstanding) ==
    LET m == IF outstanding > 1 /\ n >= outstanding THEN outstanding - 1 ELSE n
    IN  IF win.dw > m THEN [win EXCEPT !.dw = @ - m, !.w = @ - m] ELSE win

(* int(ceil(0.5 * dw)).                                                     *)
Half(win) == (win.dw + 1) \div 2

-----------------------------------------------------------------------------
(* What the switch in askForSubsequentData may decide: the state it leaves
   the pipeliner in, the window (changeWindow included), the two flags of the
   adjusting phase and the window that was found too small.                 *)
Outcome(st, win, change, stability, failed) ==
    [state |-> st, window |-> win, change |-> change, stability |-> stability,
     failed |-> failed]

(* Mutant: the window is halved whatever failed before.                     *)
DecreaseAnyway(win, new, change, stability) ==
    Outcome("Adjust", Shrink(win, Half(win), new), change, stability, failedWindow)

(* The window is halved unless that takes it down to one that failed, in
   which case adjusting is over.                                            *)
Decrease(win, new, change, stability) ==
    IF failedWindow >= win.dw - Half(win)
    THEN Outcome("Fetching", win, change, stability, failedWindow)
    ELSE Outcome("Adjust", Shrink(win, Half(win), new), change, stability, failedWindow)

(* Chasing, arrivals not stable yet: the window doubles after a timeout.    *)
ChasingOutcomes(win) ==
    {Outcome("Chasing", win, waitForChange, TRUE, failedWindow),
     Outcome("Chasing", Grow(win, win.dw), FALSE, TRUE, failedWindow)}

(* Adjusting, or chasing with stable arrivals.                              *)
AdjustOutcomes(win, new) ==
    {Outcome("Adjust", win, waitForChange, waitForStability, failedWindow)}
    \cup (IF waitForChange
          THEN {Outcome("Adjust", win, FALSE, TRUE, failedWindow),
                Decrease(win, new, waitForChange, waitForStability)}
          ELSE {})
    \cup (IF ~waitForChange /\ waitForStability
          THEN {Decrease(win, new, TRUE, FALSE)}
          ELSE {})

(* Adjusting, arrivals became unstable: this window failed.                 *)
UnstableOutcomes(win) ==
    {Outcome("Adjust", Grow(win, Half(win)), FALSE, TRUE, win.dw)}

(* Fetching: back to adjusting when arrivals are unstable or the buffer is
   low.                                                                     *)
FetchingOutcomes(win) ==
    {Outcome("Fetching", win, waitForChange, waitForStability, failedWindow)}
    \cup {Outcome("Adjust", Grow(win, Half(win)), FALSE, TRUE, fw) :
             fw \in {failedWindow, DefaultMinWindow}}

Outcomes(win, new) ==
    {o \in (CASE state = "Chasing"  -> ChasingOutcomes(win) \cup AdjustOutcomes(win, new)
              [] state = "Adjust"   -> AdjustOutcomes(win, new) \cup UnstableOutcomes(win)
              [] state = "Fetching" -> FetchingOutcomes(win)) :
        o.window.dw <= MaxWindow}

(* The end of askForSubsequentData: the decision o takes effect and the
   window is used up, from delta frame `next' on.                           *)
UseUpWindow(o, next, b) ==
    LET room == IF o.window.w < MaxDelta + 1 - next THEN o.window.w
                                                    ELSE MaxDelta + 1 - next
        n    == IF room > 0 THEN room ELSE 0
    IN  /\ state' = o.state
        /\ waitForChange' = o.change
        /\ waitForStability' = o.stability
        /\ failedWindow' = o.failed
        /\ window' = AskFor(o.window, next, n)
        /\ deltaFrameSeqNo' = next + n
        /\ buffer' = PrefetchDeltas(b, next, n)

(* What becomes of refused when a call makes buffer c of buffer b: a key whose
   turn has come is counted, and is given a slot if there is a free one.    *)
TurnedAway(b, c, r) ==
    IF c.nextKey # b.nextKey /\ ~(FreeSlots(b) > 0) THEN c.nextKey - 1 ELSE r

(* askForSubsequentData for data of a frame whose slot assembles: d is the
   delta counter as onData left it.  The data is stored, the window credited
   for a delta frame's first segment, missing segments are asked for, a
   complete key frame brings the delta counter up to date, the state machine
   runs, playout starts (and plays) when there is enough to play, and the
   window is used up.                                                       *)
AskForSubsequentData(f, b, d) ==
    \E s \in Appended(b.slots[f]), ended \in BOOLEAN :
        LET stored   == NewData(b, f, s)
            credited == IF b.slots[f] # "assembling" /\ s # "met" /\ f.kind = "delta"
                        THEN DataArrived(window, f.no) ELSE window
            next     == IF s = "ready" /\ f.kind = "key" /\ d < Paired(f)
                        THEN Paired(f) ELSE d
        IN  \E o \in Outcomes(credited, Unserved(stored)),
               played \in IF ended /\ ~isRunning THEN Plays(stored) ELSE {stored} :
                /\ ended => o.state # "Chasing"
                /\ UseUpWindow(o, next, played)
                /\ isRunning' = (isRunning \/ ended)
                /\ refused' = TurnedAway(stored, played, TurnedAway(buffer, stored, refused))

(* Whether newData finds a slot for the frame, of this thread, that takes
   data; and the data a rebuffering has overtaken.                          *)
Assembles(t, f) == t = thread /\ buffer.slots[f] \in Unfinished
Outdated(f) == state = "Chasing" /\ PlaybackNo(f) < seedFrameNo
Fetches == state \in {"Chasing", "Adjust", "Fetching"}

Store(t, f, d) ==
    \/ /\ Assembles(t, f)
       /\ AskForSubsequentData(f, buffer, d)
    \/ /\ ~Assembles(t, f)     \* newData returns Error
       /\ deltaFrameSeqNo' = d
       /\ UNCHANGED <<state, window, estimation, buffer, isRunning, refused>>

Ignore ==
    UNCHANGED <<state, deltaFrameSeqNo, window, estimation, buffer, isRunning, refused>>

(* Mutant: the first key frame does not set the delta counter.              *)
ConsumeKeepsCounter(t, f) ==
    \/ Fetches /\ ~Outdated(f) /\ Store(t, f, deltaFrameSeqNo)
    \/ (~Fetches \/ Outdated(f)) /\ Ignore

(* The switch of onData, but for the data waited for in WaitInitial.        *)
Consume(t, f) ==
    \/ /\ Fetches
       /\ ~Outdated(f)
       /\ Store(t, f, IF /\ state = "Chasing" /\ deltaFrameSeqNo < 0
                         /\ t = thread /\ f.kind = "key"
                      THEN Paired(f) ELSE deltaFrameSeqNo)
    \/ (~Fetches \/ Outdated(f)) /\ Ignore

-----------------------------------------------------------------------------
Rightmost(t, e) == [thread |-> t, stale |-> FALSE, exclude |-> e]
Plus(r, i)  == [r EXCEPT ![i] = @ + 1]
Minus(r, i) == [r EXCEPT ![i] = @ - 1]
Bounded(r) == \A i \in RightmostInterests : r[i] <= MaxCopies

(* addRemoteStream: the Consumer is constructed, initialised and started in
   one go.  Pipeliner2's constructor leaves keyFrameSeqNo_ and the two flags
   unassigned, and start does not assign them either.                       *)
Init ==
    /\ isConsuming = TRUE
    /\ thread \in MediaThreads
    /\ state = "WaitInitial"
    /\ deltaFrameSeqNo = -1
    /\ seedFrameNo = -1
    /\ window = WindowInit
    /\ failedWindow = DefaultMinWindow
    /\ waitForChange \in BOOLEAN
    /\ waitForStability \in BOOLEAN
    /\ checkpoint = FALSE
    /\ \E k \in Uninitialized : buffer = EmptyBuffer(k)
    /\ valid = FALSE
    /\ isRunning = FALSE
    /\ rightmosts = [NoInterests EXCEPT ![Rightmost(thread, "nothing")] = 1]
    /\ stale = {}
    /\ refused = -1

(* Consumer::stop, after which the Consumer is dropped.  Its Interests stay
   outstanding.                                                             *)
Stop ==
    /\ isConsuming
    /\ isConsuming' = FALSE
    /\ state' = "Inactive"
    /\ isRunning' = FALSE
    /\ UNCHANGED <<thread, deltaFrameSeqNo, seedFrameNo, window, estimation,
                   checkpoint, buffer, valid, rightmosts, stale, refused>>

(* PipelinerBase::resetData and Pipeliner2::resetData, then the request for
   the rightmost key of thread t; kept: the earlier requests still
   outstanding.                                                             *)
Rebuffer(t, kept) ==
    /\ state' = "WaitInitial"
    /\ deltaFrameSeqNo' = -1
    /\ seedFrameNo' = -1
    /\ failedWindow' = DefaultMinWindow
    /\ waitForChange' = FALSE
    /\ waitForStability' = FALSE
    /\ checkpoint' = FALSE
    /\ buffer' = ResetBuffer(buffer)
    /\ valid' = FALSE
    /\ rightmosts' =
          Plus([i \in RightmostInterests |->
                   IF i.stale THEN kept[i] + kept[[i EXCEPT !.stale = FALSE]] ELSE 0],
               Rightmost(t, ExcludeUpTo(buffer.nextKey)))
    /\ Bounded(rightmosts')
    /\ stale' = IF Fetches THEN stale \cup {thread} ELSE stale
    /\ refused' = -1

(* recoveryCheck finds the stream idle (a time-out, which needs a data
   arrival to count from): Consumer::triggerRebuffering flushes the interest
   queue, which may hold some of the requests, stops the playout and
   rebuffers.                                                               *)
TriggerRebuffering ==
    /\ isConsuming
    /\ checkpoint
    /\ isRunning' = FALSE
    /\ \E queued \in SUBSET {i \in RightmostInterests : rightmosts[i] > 0} :
          Rebuffer(thread, [i \in RightmostInterests |->
                              IF i \in queued THEN rightmosts[i] - 1 ELSE rightmosts[i]])
    /\ UNCHANGED <<isConsuming, thread, window>>

(* Mutant: switching the thread does not stop the playout.                  *)
SwitchThreadPlaying(t) ==
    /\ isConsuming
    /\ thread' = t
    /\ Rebuffer(t, rightmosts)
    /\ UNCHANGED <<isConsuming, window, isRunning>>

(* Consumer::switchThread, to any thread of the stream: the queue is not
   flushed, the playout is stopped after the buffer has been reset.         *)
SwitchThread(t) ==
    /\ isConsuming
    /\ thread' = t
    /\ Rebuffer(t, rightmosts)
    /\ isRunning' = FALSE
    /\ UNCHANGED <<isConsuming, window>>

(* onData for an Interest for the rightmost key, answered with key k, the
   newest there is for that Interest.                                       *)
RightmostData(i, k) ==
    /\ rightmosts[i] > 0
    /\ i.exclude # "everything"
    /\ rightmosts' = Minus(rightmosts, i)
    /\ checkpoint' = TRUE
    /\ \/ /\ state = "WaitInitial"
          /\ i.thread = thread
          \* askForInitialData
          /\ seedFrameNo' = PlaybackNo(Key(k))
          /\ window' = WindowInit
          /\ valid' = TRUE
          /\ buffer' = RequestNextKey(buffer, k + 1)
          /\ refused' = IF FreeSlots(buffer) > 0 THEN refused ELSE k + 1
          /\ state' = "Chasing"
          /\ UNCHANGED <<deltaFrameSeqNo, estimation, isRunning>>
       \/ /\ ~(state = "WaitInitial" /\ i.thread = thread)
          /\ Consume(i.thread, Key(k))
          /\ UNCHANGED <<seedFrameNo, valid>>
    /\ UNCHANGED <<isConsuming, thread, stale>>

(* The answer to the current request names no frame: askForInitialData resets
   the buffer, in vain, and asks again.  What has been read from the name's
   end, where the numbers of key k would be, is left in seedFrameNo_.       *)
RightmostUnnamed(i, k) ==
    /\ rightmosts[i] > 0
    /\ i.exclude # "everything"
    /\ state = "WaitInitial"
    /\ i.thread = thread
    /\ checkpoint' = TRUE
    /\ seedFrameNo' = PlaybackNo(Key(k))
    /\ buffer' = EmptyBuffer(buffer.nextKey)
    /\ valid' = FALSE
    /\ rightmosts' = Plus(Minus(rightmosts, i), Rightmost(thread, "nothing"))
    /\ Bounded(rightmosts')
    /\ UNCHANGED <<isConsuming, thread, state, deltaFrameSeqNo, window, estimation,
                   isRunning, stale, refused>>

(* onData for an Interest for a frame: one of this run, or one from before a
   rebuffering.                                                             *)
Outstanding(t, f) ==
    \/ t = thread /\ buffer.slots[f] \in Unfinished
    \/ t \in stale

FrameData(t, f) ==
    /\ Outstanding(t, f)
    /\ Produced(f)
    /\ checkpoint' = TRUE
    /\ Consume(t, f)
    /\ UNCHANGED <<isConsuming, thread, seedFrameNo, valid, rightmosts, stale>>

(* Mutant: the request is not repeated.                                     *)
RightmostTimeoutDropped(i) ==
    /\ rightmosts[i] > 0
    /\ rightmosts' = Minus(rightmosts, i)
    /\ UNCHANGED <<isConsuming, thread, state, deltaFrameSeqNo, seedFrameNo, window,
                   estimation, checkpoint, buffer, valid, isRunning, stale, refused>>

(* Mutant: the request is repeated as it was.                               *)
RightmostTimeoutSameExclude(i) ==
    /\ rightmosts[i] > 0
    /\ rightmosts' = IF state = "WaitInitial" /\ i.thread = thread
                     THEN Plus(Minus(rightmosts, i), Rightmost(thread, i.exclude))
                     ELSE Minus(rightmosts, i)
    /\ Bounded(rightmosts')
    /\ UNCHANGED <<isConsuming, thread, state, deltaFrameSeqNo, seedFrameNo, window,
                   estimation, checkpoint, buffer, valid, isRunning, stale, refused>>

(* onTimeout for an Interest for the rightmost key, compared by name only:
   the name says which thread, not which run.  The Exclude is not repeated. *)
RightmostTimeout(i) ==
    /\ rightmosts[i] > 0
    /\ rightmosts' = IF state = "WaitInitial" /\ i.thread = thread
                     THEN Plus(Minus(rightmosts, i), Rightmost(thread, "nothing"))
                     ELSE Minus(rightmosts, i)
    /\ Bounded(rightmosts')
    /\ UNCHANGED <<isConsuming, thread, state, deltaFrameSeqNo, seedFrameNo, window,
                   estimation, checkpoint, buffer, valid, isRunning, stale, refused>>

(* The playout timer: processPlayout.  With an Invalid buffer it would return
   holding playoutMutex_: RunningOnlyValid says that cannot happen.         *)
ProcessPlayout ==
    /\ isRunning
    /\ valid
    /\ buffer' \in Plays(buffer)
    /\ refused' = TurnedAway(buffer, buffer', refused)
    /\ UNCHANGED <<isConsuming, thread, state, deltaFrameSeqNo, seedFrameNo, window,
                   estimation, checkpoint, valid, isRunning, rightmosts, stale>>

Next ==
    \/ Stop
    \/ TriggerRebuffering
    \/ \E t \in MediaThreads : SwitchThread(t)
    \/ \E i \in RightmostInterests, k \in 0..MaxKey : RightmostData(i, k)
    \/ \E i \in RightmostInterests, k \in 0..MaxKey : RightmostUnnamed(i, k)
    \/ \E t \in MediaThreads, f \in Frames : FrameData(t, f)
    \/ \E i \in RightmostInterests : RightmostTimeout(i)
    \/ ProcessPlayout

(* Only the environment of the Consumer needs fairness: an Interest that is
   not answered times out, and the network does not lose every answer to a
   request that is repeated for ever, nor answer it with names that are not
   the producer's.                                                          *)
CurrentAnswered ==
    \E i \in RightmostInterests, k \in 0..MaxKey : i.thread = thread /\ RightmostData(i, k)

Fairness ==
    /\ \A i \in RightmostInterests : WF_vars(RightmostTimeout(i))
    /\ SF_vars(CurrentAnswered)

Spec == Init /\ [][Next]_vars /\ Fairness

-----------------------------------------------------------------------------
States == {"Inactive", "WaitInitial", "Chasing", "Adjust", "Fetching"}

(* Type invariant.  The pool holds frame numbers, never the -1 that
   deltaFrameSeqNo_ starts from.                                            *)
TypeOK ==
    /\ isConsuming \in BOOLEAN
    /\ thread \in MediaThreads
    /\ state \in States
    /\ deltaFrameSeqNo \in Int
    /\ seedFrameNo \in Int
    /\ window \in [dw : Nat, w : Int, pool : SUBSET Nat]
    /\ failedWindow \in Nat
    /\ waitForChange \in BOOLEAN
    /\ waitForStability \in BOOLEAN
    /\ checkpoint \in BOOLEAN
    /\ buffer \in [slots : [Frames -> SlotStates], lastKey : Int, nextKey : Int]
    /\ valid \in BOOLEAN
    /\ isRunning \in BOOLEAN
    /\ rightmosts \in [RightmostInterests -> Nat]
    /\ stale \subseteq MediaThreads
    /\ refused \in Int

(* The window adds up: what may be asked for and what has been asked for and
   not arrived make the default window, through every growth, shrinking and
   jump of the delta counter.  It needs each number to be asked for once, so
   the pool stays below the counter.                                        *)
WindowBalance ==
    Fetches =>
        /\ window.w + Cardinality(window.pool) = window.dw
        /\ \A d \in window.pool : d < deltaFrameSeqNo

(* The window never comes back to one that was found too small, nor to the
   minimum; so dw_, which is unsigned, never gets near 0.                   *)
AboveFailedWindow == failedWindow < window.dw

(* The playout runs only on a Valid buffer, in every handler that resets the
   one and stops the other: processPlayout does not give playoutMutex_ back
   when it finds the buffer Invalid, and the next stop() would wait for ever. *)
RunningOnlyValid == isRunning => valid

(* The keys keep up with the delta frames: none that has data is newer than
   every key that has been given a slot in this run, unless the key whose turn
   came found no slot free; that one is counted and never asked for again.
   It does not follow that its own key has had a slot: of the keys before the
   first that was asked for, and of those that a later delta frame overtakes
   (OnKeyNeeded skips to its key), none is ever asked for.                  *)
KeysKeepUp ==
    \A d \in Deltas : buffer.slots[d] \in {"assembling", "ready"} =>
        Paired(d) <= buffer.lastKey \/ Paired(d) <= refused

(* A Consumer can always get going again: recoveryCheck counts from the last
   data, so as long as none has come since the last rebuffering (checkpoint
   is 0, getIdleTime is 0, recoveryCheck is blind) a request for the
   rightmost key of the current thread is outstanding.                      *)
NeverWedged ==
    isConsuming /\ ~checkpoint =>
        \E i \in RightmostInterests : i.thread = thread /\ ~i.stale /\ rightmosts[i] > 0

(* With a network that answers in the end, a Consumer gets out of
   WaitInitial, unless it is rebuffered or switched over and over; even
   though the first request after a rebuffering may exclude everything.     *)
InitialDataComes ==
    \/ []<>(state # "WaitInitial")
    \/ []<><<\E t \in MediaThreads : SwitchThread(t)>>_vars
    \/ []<><<TriggerRebuffering>>_vars

-----------------------------------------------------------------------------
(* The strengthening that makes the safety properties inductive.            *)

(* Until the first key frame of a run has come nothing is known of the delta
   frames: none has been asked for, and the pipeliner is still chasing.     *)
NoDeltaYet ==
    /\ Fetches /\ deltaFrameSeqNo < 0 => state = "Chasing" /\ window.pool = {}
    /\ state = "WaitInitial" \/ (Fetches /\ deltaFrameSeqNo < 0) =>
          \A f \in Deltas : buffer.slots[f] = "free"

(* A pipeliner that fetches has a Valid buffer, and only one that fetches
   has a playout that runs.                                                 *)
ValidFetches == (Fetches => valid) /\ (isRunning => Fetches)

(* The key counter is past every key that has a slot or has had one, and past
   the key of every delta frame that has data; it has got there by the newest
   key that got a slot or by the newest that found none.  Only keys that have
   been produced have data, and a buffer that waits for initial data is empty. *)
KeyCounted ==
    /\ state = "WaitInitial" =>
          buffer.lastKey = -1 /\ \A f \in Frames : buffer.slots[f] = "free"
    /\ \A f \in Keys : buffer.slots[f] # "free" => f.no <= buffer.lastKey
    /\ \A f \in Keys : buffer.slots[f] \in HasMeta => Produced(f)
    /\ Fetches =>
          /\ buffer.lastKey < buffer.nextKey
          /\ buffer.nextKey - 1 <= buffer.lastKey \/ buffer.nextKey - 1 <= refused
          /\ \A f \in Deltas : buffer.slots[f] \in {"assembling", "ready"}
                                   => Paired(f) < buffer.nextKey

(* No window has failed before the first data.                              *)
FailedSince ==
    /\ DefaultMinWindow <= failedWindow
    /\ state = "WaitInitial" => failedWindow = DefaultMinWindow

(* recoveryCheck is blind only while the pipeliner waits for initial data.  *)
BlindInWaitInitial == isConsuming /\ ~checkpoint => state = "WaitInitial"

IInv ==
    /\ TypeOK
    /\ IsFiniteSet(window.pool)
    /\ NoDeltaYet
    /\ ValidFetches
    /\ WindowBalance
    /\ FailedSince
    /\ AboveFailedWindow
    /\ KeyCounted
    /\ KeysKeepUp
    /\ BlindInWaitInitial
    /\ NeverWedged
=============================================================================
