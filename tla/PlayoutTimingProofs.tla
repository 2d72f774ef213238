------------------------- MODULE PlayoutTimingProofs -------------------------
(***************************************************************************)
(* Proofs about PlayoutTiming, for every stream of frames, frame rate and    *)
(* processing time: the waits add up to the schedule, and the schedule to    *)
(* the producer's clock.                                                     *)
(***************************************************************************)
EXTENDS PlayoutTiming, TLAPS

Playouts == [isInferred : BOOLEAN, lastTs : Nat, inferredDelay : Nat,
             adjustment : Int, checkTs : Nat]
Jitters == [wait : Nat, processing : Nat, stamp : Nat]
Histories == [scheduled : Nat, origin : Int, lost : BOOLEAN]

-----------------------------------------------------------------------------
(* What is absorbed is a whole number of milliseconds, and it is all there is
   unless the wait is used up.                                               *)
Absorbed(j, ms, k) ==
    /\ k \in Jitters
    /\ k.stamp = j.stamp
    /\ k.wait * 1000 + j.processing = ms * 1000 + k.processing
    /\ k.processing < 1000 \/ k.wait = 0

LEMMA Absorption ==
    ASSUME NEW j \in Jitters, NEW ms \in Nat
    PROVE  Absorbed(j, ms, UpdatePlayoutTime(j, ms))
<1> DEFINE q == j.processing \div 1000
           absorbed == IF q * 1000 > ms * 1000 THEN ms * 1000 ELSE q * 1000
           w == (ms * 1000 - absorbed) \div 1000
<1>1. j.processing \in Nat /\ j.wait \in Nat /\ j.stamp \in Nat
  BY DEF Jitters
<1>2. q \in Nat /\ q * 1000 <= j.processing /\ j.processing < q * 1000 + 1000
  BY <1>1
<1>3. UpdatePlayoutTime(j, ms) = [j EXCEPT !.wait = w, !.processing = @ - absorbed]
  BY DEF UpdatePlayoutTime
<1> HIDE DEF q
<1>4. absorbed \in Nat /\ absorbed <= j.processing
  BY <1>1, <1>2
<1>5. w \in Nat /\ w * 1000 = ms * 1000 - absorbed
      /\ (j.processing - absorbed < 1000 \/ w = 0)
  <2>1. CASE q > ms
    BY <1>1, <1>2, <2>1
  <2>2. CASE q <= ms
    <3>1. absorbed = q * 1000
      BY <1>2, <2>2
    <3>2. ms * 1000 - absorbed = (ms - q) * 1000 /\ ms - q \in Nat
      BY <1>2, <2>2, <3>1
    <3>3. w = ms - q
      BY <3>2
    <3> QED
      BY <1>1, <1>2, <3>1, <3>2, <3>3
  <2> QED
    BY <1>2, <2>1, <2>2
<1> HIDE DEF absorbed, w
<1>6. j.processing - absorbed \in Nat
  BY <1>1, <1>4
<1> DEFINE k == UpdatePlayoutTime(j, ms)
<1>7. /\ k = [j EXCEPT !.wait = w, !.processing = j.processing - absorbed]
      /\ k \in Jitters
  BY <1>3, <1>5, <1>6 DEF Jitters
<1>8. k.wait = w /\ k.processing = j.processing - absorbed /\ k.stamp = j.stamp
  BY <1>7 DEF Jitters
<1> HIDE DEF k
<1>9. /\ k.wait * 1000 + j.processing = ms * 1000 + k.processing
      /\ k.processing < 1000 \/ k.wait = 0
  BY <1>1, <1>4, <1>5, <1>8
<1> QED
  BY <1>7, <1>8, <1>9 DEF k, Absorbed

(* The clock and the schedule advance by the same.                            *)
LEMMA Balance ==
    ASSUME NEW before \in Nat, NEW delay \in Nat, NEW wait \in Nat,
           NEW behind \in Nat, NEW left \in Nat, NEW clock \in Int,
           clock = before * 1000 + behind, wait * 1000 + behind = delay * 1000 + left
    PROVE  clock + wait * 1000 = (before + delay) * 1000 + left
  OBVIOUS

(* The wait is never negative, and what is not adjusted now is kept.          *)
LEMMA AdjustmentKept ==
    ASSUME NEW p \in Playouts, NEW delay \in Int
    PROVE  LET a     == PlaybackDelayAdjustment(p, delay)
               total == NotBelowZero(delay) + a.now
           IN  /\ total \in Nat
               /\ a.left \in Int
               /\ total + a.left = p.adjustment + delay + SetBack(delay)
<1>1. p.adjustment \in Int
  BY DEF Playouts
<1>2. CASE p.adjustment < 0 /\ -p.adjustment > delay
  <2>1. PlaybackDelayAdjustment(p, delay) = [now |-> -delay, left |-> p.adjustment + delay]
    BY <1>2 DEF PlaybackDelayAdjustment
  <2> QED
    BY <1>1, <2>1 DEF NotBelowZero, SetBack
<1>3. CASE ~(p.adjustment < 0 /\ -p.adjustment > delay)
  <2>1. PlaybackDelayAdjustment(p, delay) = [now |-> p.adjustment, left |-> 0]
    BY <1>3 DEF PlaybackDelayAdjustment
  <2> QED
    BY <1>1, <1>3, <2>1 DEF NotBelowZero, SetBack
<1> QED
  BY <1>2, <1>3

(* The check of the buffer shortens what there is to adjust by the excess.    *)
LEMMA CheckKeeps ==
    ASSUME NEW p \in Playouts, NEW excess \in Nat, NEW now \in Nat,
           excess > 0 => BufferCheckDue(p, now)
    PROVE  LET c == CheckBuffer(p, excess, now)
           IN  /\ c \in Playouts
               /\ c.isInferred = p.isInferred /\ c.lastTs = p.lastTs
               /\ c.inferredDelay = p.inferredDelay
               /\ c.adjustment = p.adjustment - excess
<1>1. /\ p.isInferred \in BOOLEAN /\ p.lastTs \in Nat /\ p.inferredDelay \in Nat
      /\ p.adjustment \in Int /\ p.checkTs \in Nat
  BY DEF Playouts
<1>2. CASE BufferCheckDue(p, now)
  <2>1. p.adjustment - excess \in Int
    BY <1>1
  <2>2. CheckBuffer(p, excess, now) = [p EXCEPT !.adjustment = p.adjustment - excess,
                                                !.checkTs = now]
    BY <1>2 DEF CheckBuffer
  <2> QED
    BY <2>1, <2>2 DEF Playouts
<1>3. CASE ~BufferCheckDue(p, now)
  <2>1. CheckBuffer(p, excess, now) = p
    BY <1>3 DEF CheckBuffer
  <2>2. excess = 0
    BY <1>3
  <2> QED
    BY <1>1, <2>1, <2>2
<1> QED
  BY <1>2, <1>3

(* A frame with data makes good for what has been inferred.                   *)
LEMMA UpdateKeeps ==
    ASSUME NEW c \in Playouts, NEW ts \in Nat
    PROVE  LET u == UpdatePlaybackAdjustment(c, ts)
           IN  /\ u \in Playouts
               /\ u.lastTs = ts
               /\ c.lastTs > 0 /\ c.isInferred =>
                     /\ u.adjustment = c.adjustment + (ts - c.lastTs) - c.inferredDelay
                     /\ u.inferredDelay = 0
               /\ ~(c.lastTs > 0 /\ c.isInferred) =>
                     u.adjustment = c.adjustment /\ u.inferredDelay = c.inferredDelay
<1>1. /\ c.isInferred \in BOOLEAN /\ c.lastTs \in Nat /\ c.inferredDelay \in Nat
      /\ c.adjustment \in Int /\ c.checkTs \in Nat
  BY DEF Playouts
<1>2. CASE c.lastTs > 0 /\ c.isInferred
  <2> DEFINE a == c.adjustment + (ts - c.lastTs) - c.inferredDelay
  <2>1. a \in Int
    BY <1>1
  <2>2. UpdatePlaybackAdjustment(c, ts)
           = [c EXCEPT !.adjustment = a, !.inferredDelay = 0, !.lastTs = ts]
    BY <1>2 DEF UpdatePlaybackAdjustment
  <2> HIDE DEF a
  <2>3. UpdatePlaybackAdjustment(c, ts).adjustment = a
    BY <2>2 DEF Playouts
  <2>4. UpdatePlaybackAdjustment(c, ts).inferredDelay = 0
    BY <2>2 DEF Playouts
  <2>5. UpdatePlaybackAdjustment(c, ts).lastTs = ts
    BY <2>2 DEF Playouts
  <2>6. 0 \in Nat
    OBVIOUS
  <2>7. UpdatePlaybackAdjustment(c, ts) \in Playouts
    BY <2>1, <2>2, <2>6 DEF Playouts
  <2> QED
    BY <1>2, <2>3, <2>4, <2>5, <2>7 DEF a
<1>3. CASE ~(c.lastTs > 0 /\ c.isInferred)
  <2>1. UpdatePlaybackAdjustment(c, ts) = [c EXCEPT !.lastTs = ts]
    BY <1>3 DEF UpdatePlaybackAdjustment
  <2> QED
    BY <1>1, <1>3, <2>1 DEF Playouts
<1> QED
  BY <1>2, <1>3

LEMMA DelayIsInt ==
    ASSUME TypeOK, NEW e \in Found, MayFind(e)
    PROVE  PlaybackDuration(e) \in Int
<1>1. CASE e.kind # "old" /\ e.next > 0
  <2>1. e.no \in Frames /\ e.next \in Frames
    BY <1>1, FramesAssumption DEF Found, MayFind, Frames
  <2>2. timestamp[e.no] \in Nat /\ timestamp[e.next] \in Nat
    BY <2>1, TimesAssumption DEF TypeOK
  <2> QED
    BY <1>1, <2>2 DEF PlaybackDuration
<1>2. CASE ~(e.kind # "old" /\ e.next > 0)
  BY <1>2, TimesAssumption DEF PlaybackDuration
<1> QED
  BY <1>1, <1>2

-----------------------------------------------------------------------------
(* When the next frame is due, of a playout p.                                *)
Due(p) == IF p.isInferred THEN p.lastTs + p.inferredDelay ELSE timestamp[awaited]

(* The schedule that p, j and h describe is the consumer's clock, of which it
   is now `now', and the producer's.                                          *)
Scheduled(p, j, h, now) ==
    /\ awaited > 0 => awaited = no + 1
    /\ ~p.isInferred => p.inferredDelay = 0
    /\ p.lastTs > 0 => no \in Frames /\ p.lastTs = timestamp[no]
    /\ p.lastTs > 0 /\ ~p.isInferred /\ ~h.lost => awaited \in Frames
    /\ p.lastTs > 0 /\ ~h.lost => h.scheduled + p.adjustment = h.origin + Due(p)
    /\ StartFramePlayout(j, now) \in Jitters
    /\ StartFramePlayout(j, now).stamp = now
    /\ now - 1 = h.scheduled * 1000 + StartFramePlayout(j, now).processing

(* An iteration at such a time.                                               *)
Iteration(p, j, h, e, excess, now) ==
    /\ TypeOK
    /\ p \in Playouts /\ h \in Histories /\ e \in Found /\ MayFind(e)
    /\ excess \in Nat /\ now \in Nat \ {0}
    /\ excess > 0 => BufferCheckDue(p, now)
    /\ Scheduled(p, j, h, now)
    /\ ProcessPlayout(p, j, h, e, excess, now)
    /\ isRunning' = TRUE /\ timestamp' = timestamp

LEMMA IterationKeeps ==
    ASSUME NEW p, NEW j, NEW h, NEW e, NEW excess, NEW now,
           Iteration(p, j, h, e, excess, now)
    PROVE  IInv'
<1> DEFINE checked  == CheckBuffer(p, excess, now)
           updated  == IF e.kind = "frame"
                       THEN UpdatePlaybackAdjustment(checked, timestamp[e.no]) ELSE checked
           delay    == PlaybackDuration(e)
           adjusted == PlaybackDelayAdjustment(updated, delay)
           total    == NotBelowZero(delay) + adjusted.now
           started  == StartFramePlayout(j, now)
           k        == UpdatePlayoutTime(started, total)
           o        == IF e.kind = "frame" /\ p.lastTs = 0
                       THEN h.scheduled + checked.adjustment - timestamp[e.no]
                       ELSE h.origin - excess
           back     == SetBack(delay)
<1>0. /\ TypeOK
      /\ p \in Playouts /\ h \in Histories /\ e \in Found /\ MayFind(e)
      /\ excess \in Nat /\ now \in Nat \ {0}
      /\ excess > 0 => BufferCheckDue(p, now)
      /\ isRunning' = TRUE /\ timestamp' = timestamp
  BY DEF Iteration
<1>s. Scheduled(p, j, h, now)
  BY DEF Iteration
<1>h. /\ h.scheduled \in Nat /\ h.origin \in Int /\ h.lost \in BOOLEAN
      /\ p.adjustment \in Int /\ p.lastTs \in Nat /\ p.inferredDelay \in Nat
      /\ p.isInferred \in BOOLEAN
  BY <1>0 DEF Histories, Playouts
<1>1. /\ playout' = [isInferred    |-> IsInferred(e),
                     lastTs        |-> updated.lastTs,
                     inferredDelay |-> IF IsInferred(e) THEN updated.inferredDelay + delay ELSE 0,
                     adjustment    |-> adjusted.left,
                     checkTs       |-> checked.checkTs]
      /\ jitter' = k
      /\ history' = [scheduled |-> h.scheduled + total,
                     origin    |-> o + back,
                     lost      |-> h.lost \/ Forgets(p, e)]
      /\ no' = IF e.kind = "frame" THEN e.no ELSE no
      /\ awaited' = IF e.kind = "old" THEN awaited ELSE e.next
  BY Zenon DEF Iteration, ProcessPlayout
<1>2. /\ e.kind \in {"frame", "nothing", "old"}
      /\ e.kind = "frame" => e.no \in Frames /\ e.next \in {0, e.no + 1}
                             /\ e.next \in Frames \cup {0}
      /\ e.kind # "frame" => e.no = 0 /\ e.next = 0
      /\ awaited > 0 => e.kind = "old" \/ e.no = awaited
      /\ Frames \subseteq Nat \ {0}
  BY <1>0, FramesAssumption DEF Found, MayFind, Frames
<1>3. /\ \A n \in Frames : timestamp[n] \in Nat \ {0}
      /\ timestamp \in [Frames -> Timestamps]
      /\ no \in Frames \cup {0}
      /\ awaited \in Frames \cup {0}
  BY <1>0, TimesAssumption DEF TypeOK
<1>4. /\ checked \in Playouts
      /\ checked.isInferred = p.isInferred /\ checked.lastTs = p.lastTs
      /\ checked.inferredDelay = p.inferredDelay
      /\ checked.adjustment = p.adjustment - excess
  <2>1. now \in Nat
    BY <1>0
  <2> QED
    BY <1>0, <2>1, CheckKeeps
<1>5. delay \in Int /\ back \in Nat
  <2>1. delay \in Int
    BY <1>0, DelayIsInt
  <2> HIDE DEF delay
  <2> QED
    BY <2>1 DEF SetBack, NotBelowZero
<1> HIDE DEF checked
<1>6. /\ updated \in Playouts
      /\ e.kind = "frame" => updated.lastTs = timestamp[e.no]
      /\ e.kind # "frame" => updated = checked
      /\ e.kind = "frame" /\ p.lastTs > 0 /\ p.isInferred =>
            /\ updated.adjustment = checked.adjustment + (timestamp[e.no] - p.lastTs)
                                    - p.inferredDelay
            /\ updated.inferredDelay = 0
      /\ e.kind = "frame" /\ ~(p.lastTs > 0 /\ p.isInferred) =>
            /\ updated.adjustment = checked.adjustment
            /\ updated.inferredDelay = p.inferredDelay
  <2>1. CASE e.kind = "frame"
    <3>1. timestamp[e.no] \in Nat
      BY <1>2, <1>3, <2>1
    <3>2. updated = UpdatePlaybackAdjustment(checked, timestamp[e.no])
      BY <2>1
    <3> HIDE DEF updated
    <3> QED
      BY <1>4, <2>1, <3>1, <3>2, UpdateKeeps
  <2>2. CASE e.kind # "frame"
    BY <1>4, <2>2
  <2> QED
    BY <2>1, <2>2
<1> HIDE DEF updated, delay
<1>7. /\ total \in Nat /\ adjusted.left \in Int
      /\ total + adjusted.left = updated.adjustment + delay + back
  BY <1>5, <1>6, AdjustmentKept
<1> HIDE DEF adjusted, total, back
<1>8. /\ k \in Jitters
      /\ k.stamp = now
      /\ k.wait * 1000 + started.processing = total * 1000 + k.processing
      /\ k.processing < 1000 \/ k.wait = 0
  <2>1. started \in Jitters /\ started.stamp = now
    BY <1>s DEF Scheduled
  <2>2. k = UpdatePlayoutTime(started, total)
    OBVIOUS
  <2> HIDE DEF k, started
  <2>3. Absorbed(started, total, UpdatePlayoutTime(started, total))
    BY <1>7, <2>1, Absorption
  <2> QED
    BY <2>1, <2>2, <2>3 DEF Absorbed
<1> HIDE DEF k
<1>t. started \in Jitters /\ now - 1 = h.scheduled * 1000 + started.processing
  BY <1>s DEF Scheduled
<1> HIDE DEF started
<1>9. ClockAccounted' /\ Stamped'
  <2>1. k.wait \in Nat /\ k.processing \in Nat /\ started.processing \in Nat
    BY <1>8, <1>t DEF Jitters
  <2>2. jitter' = k /\ history'.scheduled = h.scheduled + total
    BY <1>1
  <2>3. (k.stamp - 1) + k.wait * 1000 = (h.scheduled + total) * 1000 + k.processing
    <3>1. k.stamp \in Nat /\ k.stamp - 1 = h.scheduled * 1000 + started.processing
      BY <1>0, <1>8, <1>t
    <3>2. k.wait * 1000 + started.processing = total * 1000 + k.processing
      BY <1>8
    <3>3. total \in Nat /\ h.scheduled \in Nat
      BY <1>7, <1>h
    <3>4. k.stamp - 1 \in Int
      BY <3>1
    <3> QED
      BY <2>1, <3>1, <3>2, <3>3, <3>4, Balance
  <2> QED
    BY <1>0, <1>8, <2>2, <2>3 DEF ClockAccounted, Stamped
<1>10. o \in Int
  <2>1. checked.adjustment \in Int
    BY <1>0, <1>4, <1>h
  <2>2. CASE e.kind = "frame" /\ p.lastTs = 0
    <3>1. timestamp[e.no] \in Nat /\ o = h.scheduled + checked.adjustment - timestamp[e.no]
      BY <1>2, <1>3, <2>2
    <3> QED
      BY <1>h, <2>1, <3>1
  <2>3. CASE ~(e.kind = "frame" /\ p.lastTs = 0)
    <3>1. o = h.origin - excess
      BY <2>3
    <3> QED
      BY <1>0, <1>h, <3>1
  <2> QED
    BY <2>2, <2>3
<1>11. IsInferred(e) \in BOOLEAN /\ Forgets(p, e) \in BOOLEAN
  BY DEF IsInferred, Forgets
<1>12. TypeOK'
  <2>1. updated.lastTs \in Nat /\ updated.inferredDelay \in Nat /\ checked.checkTs \in Nat
    BY <1>4, <1>6 DEF Playouts
  <2>2. playout' \in Playouts
    <3>1. IsInferred(e) => delay \in Nat
      <4>1. IsInferred(e) => delay = InferredDuration
        BY DEF delay, IsInferred, PlaybackDuration
      <4> QED
        BY <4>1, TimesAssumption
    <3> QED
      BY <1>1, <1>7, <1>11, <2>1, <3>1 DEF Playouts
  <2>3. history' \in Histories
    BY <1>1, <1>5, <1>7, <1>10, <1>11, <1>h DEF Histories
  <2>4. jitter' \in Jitters
    BY <1>1, <1>8
  <2>5. no' \in Frames \cup {0} /\ awaited' \in Frames \cup {0}
    BY <1>1, <1>2, <1>3
  <2> QED
    BY <1>0, <1>3, <2>2, <2>3, <2>4, <2>5 DEF TypeOK, Playouts, Histories, Jitters
<1> HIDE DEF o
<1>u. /\ awaited > 0 => awaited = no + 1
      /\ p.lastTs > 0 => no \in Frames /\ p.lastTs = timestamp[no]
      /\ p.lastTs > 0 /\ ~p.isInferred /\ ~h.lost => awaited \in Frames
      /\ p.lastTs > 0 /\ ~h.lost => h.scheduled + p.adjustment = h.origin + Due(p)
  BY <1>s DEF Scheduled
<1>v. /\ playout'.isInferred = IsInferred(e) /\ playout'.lastTs = updated.lastTs
      /\ playout'.inferredDelay = IF IsInferred(e) THEN updated.inferredDelay + delay ELSE 0
      /\ playout'.adjustment = adjusted.left
      /\ history'.lost = (h.lost \/ Forgets(p, e))
      /\ history'.scheduled = h.scheduled + total
      /\ history'.origin = o + back
  BY <1>1
<1>w. /\ e.kind = "frame" => no' = e.no /\ awaited' = e.next
      /\ e.kind = "nothing" => no' = no /\ awaited' = 0
      /\ e.kind = "old" => no' = no /\ awaited' = awaited
  BY <1>1, <1>2
<1>x. /\ e.kind = "frame" => (IsInferred(e) <=> e.next = 0)
      /\ e.kind = "nothing" => IsInferred(e)
      /\ e.kind = "old" => ~IsInferred(e)
  BY <1>2 DEF IsInferred
<1>14. AwaitedIsNext'
  <2>1. awaited' > 0 => isRunning' /\ awaited' = no' + 1
    BY <1>0, <1>2, <1>u, <1>w
  <2>2. ~playout'.isInferred => playout'.inferredDelay = 0
    BY <1>v
  <2>3. playout'.lastTs > 0 => no' \in Frames /\ playout'.lastTs = timestamp'[no']
    BY <1>0, <1>2, <1>4, <1>6, <1>u, <1>v, <1>w
  <2>4. ASSUME playout'.lastTs > 0, ~playout'.isInferred, ~history'.lost
        PROVE  awaited' \in Frames
    <3>1. CASE e.kind = "frame"
      BY <1>2, <1>v, <1>w, <1>x, <2>4, <3>1
    <3>2. CASE e.kind = "old"
      <4>1. p.lastTs > 0 /\ ~h.lost /\ ~p.isInferred
        BY <1>4, <1>6, <1>v, <2>4, <3>2 DEF Forgets
      <4> QED
        BY <1>u, <1>w, <3>2, <4>1
    <3>3. e.kind # "nothing"
      BY <1>v, <1>x, <2>4
    <3> QED
      BY <1>2, <3>1, <3>2, <3>3
  <2> QED
    BY <2>1, <2>2, <2>3, <2>4 DEF AwaitedIsNext
<1>15. TracksProducer'
  <2>1. SUFFICES ASSUME ~h.lost, ~Forgets(p, e), updated.lastTs > 0
                 PROVE  h.scheduled + updated.adjustment + delay = o + DueTimestamp'
    <3>1. updated.adjustment \in Int
      BY <1>6 DEF Playouts
    <3>2. SUFFICES ASSUME isRunning', ~history'.lost, playout'.lastTs > 0
                   PROVE  history'.scheduled + playout'.adjustment
                             = history'.origin + DueTimestamp'
      BY DEF TracksProducer, Tracks
    <3>3. h.scheduled + updated.adjustment + delay = o + DueTimestamp'
      BY <1>v, <2>1, <3>2
    <3>4. DueTimestamp' \in Int
      <4>1. playout'.lastTs \in Int /\ playout'.inferredDelay \in Int
        BY <1>12 DEF TypeOK
      <4>2. ~playout'.isInferred => timestamp'[awaited'] \in Int
        BY <1>0, <1>3, <1>14, <3>2 DEF AwaitedIsNext
      <4> QED
        BY <4>1, <4>2 DEF DueTimestamp
    <3> HIDE DEF o
    <3>5. \A due \in Int : h.scheduled + updated.adjustment + delay = o + due
             => (h.scheduled + total) + adjusted.left = (o + back) + due
      <4>1. total \in Int /\ back \in Int /\ h.scheduled \in Int
        BY <1>5, <1>7, <1>h
      <4>2. delay \in Int /\ adjusted.left \in Int
        BY <1>5, <1>7
      <4>3. o \in Int
        BY <1>10
      <4>4. total + adjusted.left = updated.adjustment + delay + back
        BY <1>7
      <4> DEFINE s == h.scheduled
                 l == adjusted.left
                 a == updated.adjustment
      <4>5. s \in Int /\ l \in Int /\ a \in Int /\ total + l = a + delay + back
        BY <3>1, <4>1, <4>2, <4>4
      <4> HIDE DEF s, l, a
      <4>6. \A due \in Int : s + a + delay = o + due => (s + total) + l = (o + back) + due
        BY <4>1, <4>2, <4>3, <4>5
      <4> QED
        BY <4>6 DEF s, l, a
    <3> QED
      BY <1>v, <3>3, <3>4, <3>5
  <2>2. updated.lastTs \in Nat /\ updated.inferredDelay \in Nat /\ updated.adjustment \in Int
    BY <1>6 DEF Playouts
  <2>3. DueTimestamp' = IF IsInferred(e) THEN updated.lastTs + (updated.inferredDelay + delay)
                        ELSE timestamp[awaited']
    BY <1>0, <1>v DEF DueTimestamp
  <2>4. CASE e.kind = "frame"
    <3>1. delay = IF e.next > 0 THEN timestamp[e.next] - timestamp[e.no] ELSE InferredDuration
      BY <2>4 DEF delay, PlaybackDuration
    <3>2. timestamp[e.no] \in Nat /\ updated.lastTs = timestamp[e.no]
      BY <1>2, <1>3, <1>6, <2>4
    <3>3. e.next > 0 => awaited' = e.next /\ timestamp[e.next] \in Nat
      <4>1. e.next > 0 => e.next \in Frames
        BY <1>2, <2>4
      <4> QED
        BY <1>3, <1>w, <2>4, <4>1
    <3>4. h.scheduled + updated.adjustment = o + timestamp[e.no]
      <4>1. CASE p.lastTs = 0
        <5>1. o = h.scheduled + checked.adjustment - timestamp[e.no]
          BY <2>4, <4>1 DEF o
        <5>2. updated.adjustment = checked.adjustment
          BY <1>6, <2>4, <4>1
        <5> QED
          BY <1>h, <2>2, <3>2, <5>1, <5>2
      <4>2. CASE p.lastTs > 0 /\ p.isInferred
        <5>1. o = h.origin - excess
          BY <1>h, <4>2 DEF o
        <5>2. updated.adjustment = (p.adjustment - excess) + (timestamp[e.no] - p.lastTs)
                                   - p.inferredDelay
          BY <1>4, <1>6, <2>4, <4>2
        <5>3. h.scheduled + p.adjustment = h.origin + (p.lastTs + p.inferredDelay)
          BY <1>u, <2>1, <4>2 DEF Due
        <5> QED
          BY <1>0, <1>h, <3>2, <5>1, <5>2, <5>3
      <4>3. CASE p.lastTs > 0 /\ ~p.isInferred
        <5>1. o = h.origin - excess
          BY <1>h, <4>3 DEF o
        <5>2. updated.adjustment = p.adjustment - excess
          BY <1>4, <1>6, <2>4, <4>3
        <5>3. awaited \in Frames /\ h.scheduled + p.adjustment = h.origin + timestamp[awaited]
          BY <1>u, <2>1, <4>3 DEF Due
        <5>4. e.no = awaited
          BY <1>2, <2>4, <5>3
        <5> QED
          BY <1>0, <1>h, <3>2, <5>1, <5>2, <5>3, <5>4
      <4> QED
        BY <1>h, <4>1, <4>2, <4>3
    <3>5. CASE e.next = 0
      <4>1. updated.inferredDelay = 0
        BY <1>6, <1>h, <1>s, <2>1, <2>4, <3>5 DEF Forgets, Scheduled
      <4>2. DueTimestamp' = timestamp[e.no] + delay
        BY <1>5, <1>x, <2>3, <2>4, <3>2, <3>5, <4>1
      <4> QED
        BY <1>5, <1>10, <1>h, <2>2, <3>2, <3>4, <4>2
    <3>6. CASE e.next > 0
      <4>1. DueTimestamp' = timestamp[e.next] /\ delay = timestamp[e.next] - timestamp[e.no]
        BY <1>x, <2>3, <2>4, <3>1, <3>3, <3>6
      <4> QED
        BY <1>10, <1>h, <2>2, <3>2, <3>3, <3>4, <3>6, <4>1
    <3>7. e.next \in Nat
      <4>1. e.no \in Nat /\ e.next \in {0, e.no + 1}
        BY <1>2, <2>4
      <4> QED
        BY <4>1
    <3> QED
      BY <3>5, <3>6, <3>7
  <2>5. CASE e.kind = "nothing"
    <3>1. IsInferred(e) /\ updated = checked /\ o = h.origin - excess
      BY <1>2, <1>6, <1>x, <2>5 DEF o
    <3>2. p.lastTs > 0
      BY <1>4, <2>1, <3>1
    <3>3. CASE p.isInferred
      <4>1. h.scheduled + p.adjustment = h.origin + (p.lastTs + p.inferredDelay)
        BY <1>u, <2>1, <3>2, <3>3 DEF Due
      <4>2. DueTimestamp' = p.lastTs + (p.inferredDelay + delay)
            /\ updated.adjustment = p.adjustment - excess
        BY <1>4, <2>3, <3>1
      <4> QED
        BY <1>0, <1>5, <1>h, <3>1, <4>1, <4>2
    <3>4. CASE ~p.isInferred
      <4>1. awaited \in Frames
        BY <1>u, <2>1, <3>2, <3>4
      <4> QED
        BY <1>2, <2>5, <4>1
    <3> QED
      BY <3>3, <3>4
  <2>6. CASE e.kind = "old"
    <3>1. ~IsInferred(e) /\ updated = checked /\ o = h.origin - excess /\ delay = 0
      BY <1>2, <1>6, <1>x, <2>6 DEF o, delay, PlaybackDuration
    <3>2. p.lastTs > 0
      BY <1>4, <2>1, <3>1
    <3>3. ~p.isInferred
      BY <2>1, <2>6, <3>2 DEF Forgets
    <3>4. awaited' = awaited /\ timestamp[awaited] \in Nat
          /\ h.scheduled + p.adjustment = h.origin + timestamp[awaited]
      BY <1>3, <1>u, <1>w, <2>1, <2>6, <3>2, <3>3 DEF Due
    <3>5. DueTimestamp' = timestamp[awaited] /\ updated.adjustment = p.adjustment - excess
      BY <1>4, <2>3, <3>1, <3>4
    <3> QED
      BY <1>0, <1>h, <3>1, <3>4, <3>5
  <2> QED
    BY <1>2, <2>4, <2>5, <2>6
<1> QED
  BY <1>9, <1>12, <1>14, <1>15 DEF IInv

-----------------------------------------------------------------------------
LEMMA InitHolds == Init => IInv
<1> SUFFICES ASSUME Init PROVE IInv
  OBVIOUS
<1>1. timestamp \in [Frames -> Timestamps]
  BY DEF Init
<1>2. TypeOK
  <2>1. /\ NewPlayout(0) \in Playouts /\ Flushed \in Jitters /\ NewRun \in Histories
    BY DEF NewPlayout, Flushed, NewRun, Playouts, Jitters, Histories
  <2> QED
    BY <1>1, <2>1 DEF Init, TypeOK, Playouts, Jitters, Histories
<1> QED
  BY <1>1, <1>2 DEF Init, IInv, AwaitedIsNext, Stamped, ClockAccounted, TracksProducer,
                    NewPlayout, Flushed, NewRun

LEMMA StartKeeps ==
    ASSUME IInv, NEW e \in Found, NEW excess \in Excesses, Start(-excess, e)
    PROVE  IInv'
<1> DEFINE p == NewPlayout(-excess)
<1>1. -excess \in Int
  BY TimesAssumption
<1>2. p \in Playouts /\ p.lastTs = 0 /\ p.inferredDelay = 0
  BY <1>1 DEF NewPlayout, Playouts
<1>3. NewRun \in Histories /\ NewRun.scheduled = 0
  BY DEF NewRun, Histories
<1>4. StartFramePlayout(Flushed, 1) = [wait |-> 0, processing |-> 0, stamp |-> 1]
  <2>1. Flushed.stamp = 0 /\ Flushed.processing = 0
    BY DEF Flushed
  <2>2. StartFramePlayout(Flushed, 1) = [Flushed EXCEPT !.processing = 0, !.stamp = 1]
    BY <2>1, Zenon DEF StartFramePlayout
  <2> QED
    BY <2>2 DEF Flushed
<1>5. /\ StartFramePlayout(Flushed, 1) \in Jitters
      /\ StartFramePlayout(Flushed, 1).stamp = 1
      /\ StartFramePlayout(Flushed, 1).processing = 0
  BY <1>4 DEF Jitters
<1>6. /\ TypeOK /\ MayFind(e) /\ ProcessPlayout(p, Flushed, NewRun, e, 0, 1)
      /\ isRunning' = TRUE /\ timestamp' = timestamp
      /\ awaited > 0 => awaited = no + 1
  BY DEF Start, IInv, AwaitedIsNext
<1> HIDE DEF p
<1>7. Scheduled(p, Flushed, NewRun, 1)
  BY <1>2, <1>3, <1>5, <1>6 DEF Scheduled
<1>8. Iteration(p, Flushed, NewRun, e, 0, 1)
  BY <1>2, <1>3, <1>6, <1>7 DEF Iteration
<1> QED
  BY <1>8, IterationKeeps

LEMMA IterateKeeps ==
    ASSUME IInv, NEW e \in Found, NEW excess \in Excesses,
           NEW processing \in ProcessingTimes, Iterate(e, excess, processing)
    PROVE  IInv'
<1> DEFINE now == jitter.stamp + jitter.wait * 1000 + processing
           started == StartFramePlayout(jitter, now)
<1>1. excess \in Nat /\ processing \in Nat
  BY TimesAssumption
<1>2. playout \in Playouts /\ jitter \in Jitters /\ history \in Histories
  BY DEF IInv, TypeOK, Playouts, Jitters, Histories
<1>3. /\ TypeOK /\ MayFind(e) /\ isRunning
      /\ excess > 0 => BufferCheckDue(playout, now)
      /\ ProcessPlayout(playout, jitter, history, e, excess, now)
      /\ timestamp' = timestamp /\ isRunning' = isRunning
  BY DEF Iterate, IInv
<1>4. isRunning' = TRUE
  BY <1>3 DEF TypeOK
<1>5. /\ jitter.stamp \in Nat /\ jitter.wait \in Nat /\ jitter.processing \in Nat
      /\ history.scheduled \in Nat
  BY <1>2 DEF Jitters, Histories
<1>6. /\ jitter.stamp > 0
      /\ (jitter.stamp - 1) + jitter.wait * 1000
            = history.scheduled * 1000 + jitter.processing
  BY <1>3 DEF IInv, Stamped, ClockAccounted
<1>7. now \in Nat \ {0} /\ (now - jitter.stamp) - jitter.wait * 1000 = processing
  BY <1>1, <1>5, <1>6
<1>8. now - 1 = history.scheduled * 1000 + (jitter.processing + processing)
  BY <1>1, <1>5, <1>6
<1> HIDE DEF now
<1>9. started = [jitter EXCEPT !.processing = jitter.processing + processing, !.stamp = now]
  <2>1. jitter.processing + (now - jitter.stamp) - jitter.wait * 1000
           = jitter.processing + processing
    BY <1>1, <1>5, <1>7
  <2>2. jitter.stamp # 0
    BY <1>5, <1>6
  <2> QED
    BY <2>1, <2>2, Zenon DEF StartFramePlayout
<1> HIDE DEF started
<1>10. /\ started \in Jitters /\ started.stamp = now
       /\ started.processing = jitter.processing + processing
  <2>1. jitter.processing + processing \in Nat /\ now \in Nat
    BY <1>1, <1>5, <1>7
  <2> QED
    BY <1>2, <1>9, <2>1 DEF Jitters
<1>11. /\ awaited > 0 => awaited = no + 1
       /\ ~playout.isInferred => playout.inferredDelay = 0
       /\ playout.lastTs > 0 => no \in Frames /\ playout.lastTs = timestamp[no]
       /\ playout.lastTs > 0 /\ ~playout.isInferred /\ ~history.lost => awaited \in Frames
  BY <1>3 DEF IInv, AwaitedIsNext
<1>12. playout.lastTs > 0 /\ ~history.lost
          => history.scheduled + playout.adjustment = history.origin + Due(playout)
  BY <1>3 DEF IInv, TracksProducer, Tracks, Due, DueTimestamp
<1>13. Scheduled(playout, jitter, history, now)
  BY <1>8, <1>10, <1>11, <1>12 DEF Scheduled, started
<1>14. Iteration(playout, jitter, history, e, excess, now)
  BY <1>1, <1>2, <1>3, <1>4, <1>7, <1>13 DEF Iteration
<1> QED
  BY <1>14, IterationKeeps

LEMMA StopKeeps == ASSUME IInv, Stop PROVE IInv'
<1>1. TypeOK'
  BY DEF IInv, TypeOK, Stop, Frames
<1>2. AwaitedIsNext'
  BY DEF IInv, AwaitedIsNext, Stop
<1> QED
  BY <1>1, <1>2 DEF IInv, Stamped, ClockAccounted, TracksProducer, Stop

LEMMA StutterKeeps == ASSUME IInv, UNCHANGED vars PROVE IInv'
  BY DEF vars, IInv, TypeOK, AwaitedIsNext, Stamped, ClockAccounted, TracksProducer,
         Tracks, DueTimestamp

THEOREM Inductive == Spec => []IInv
<1>1. IInv /\ [Next]_vars => IInv'
  <2> SUFFICES ASSUME IInv, [Next]_vars PROVE IInv'
    OBVIOUS
  <2>1. ASSUME NEW e \in Found, NEW excess \in Excesses, Start(-excess, e) PROVE IInv'
    BY <2>1, StartKeeps
  <2>2. ASSUME NEW e \in Found, NEW excess \in Excesses, NEW processing \in ProcessingTimes,
               Iterate(e, excess, processing)
        PROVE  IInv'
    BY <2>2, IterateKeeps
  <2>3. CASE Stop
    BY <2>3, StopKeeps
  <2>4. CASE UNCHANGED vars
    BY <2>4, StutterKeeps
  <2> QED
    BY <2>1, <2>2, <2>3, <2>4 DEF Next
<1> QED
  BY <1>1, InitHolds, PTL DEF Spec

(* No wait is ever negative and no time lost its type: what processPlayout
   and JitterTiming::run assert.                                              *)
THEOREM TypeCorrect == Spec => []TypeOK
  BY Inductive, PTL DEF IInv

(* Processing time is neither forgotten nor taken out of the waits twice, and
   the playout catches up as soon as the waits allow.                         *)
THEOREM ClockNeverDrifts == Spec => []ClockAccounted
  BY Inductive, PTL DEF IInv

(* The schedule is the producer's clock through gaps, inferred delays and a
   buffer that is shortened, as long as no inferred delay is forgotten.       *)
THEOREM ProducerTracked == Spec => []TracksProducer
  BY Inductive, PTL DEF IInv
=============================================================================
