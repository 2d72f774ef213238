-------------------------- MODULE VideoThreadProofs --------------------------
(* Proofs about VideoThread, for any number of frames and segments, with and *)
(* without FEC and with publishing that may fail anywhere.                   *)
EXTENDS VideoThread, TLAPS

USE NumbersAssumption, SegmentsAssumption, OptionsAssumption

-----------------------------------------------------------------------------
(* What publishing does to the PIT and adds to the cache.                    *)

(* A lookup in the PIT only takes entries out of it.                         *)
LEMMA LookedUpShrinks ==
    ASSUME NEW p, NEW segments
    PROVE  LookedUp(p, segments) \subseteq p
BY DEF LookedUp

(* Publishing n segments of a frame only takes entries out of the PIT, and
   adds segments of that frame only.                                        *)
LEMMA PublishAllAdds ==
    ASSUME NEW from, NEW f, NEW parity, NEW n
    PROVE  LET r == PublishAll(from, f, parity, n)
           IN  /\ r.pit \subseteq from.pit
               /\ r.added \subseteq from.added \cup SegmentsOf(f)
               /\ \A name \in r.pit : name = Rightmost \/ name.frame # f \/ name.parity # parity
<1>1. FirstSegments(f, parity, n) \subseteq SegmentsOf(f)
    BY DEF FirstSegments
<1>2. LookedUp(from.pit, FirstSegments(f, parity, n)) \subseteq from.pit
    BY LookedUpShrinks
<1>3. QED
    BY <1>1, <1>2 DEF PublishAll, CleanPitForFrame

(* So does publishing that fails.                                            *)
LEMMA FailuresAdd ==
    ASSUME NEW from, NEW f, NEW parity, NEW n, NEW r \in Failures(from, f, parity, n)
    PROVE  /\ r.pit \subseteq from.pit
           /\ r.added \subseteq from.added \cup SegmentsOf(f)
<1>1. CASE r = from
    BY <1>1
<1>2. ASSUME NEW i \in 0..(n - 1), r = PublishUpTo(from, f, parity, i)
      PROVE  /\ r.pit \subseteq from.pit
             /\ r.added \subseteq from.added \cup SegmentsOf(f)
    <2>1. FirstSegments(f, parity, i) \subseteq SegmentsOf(f)
        BY DEF FirstSegments
    <2>2. LookedUp(from.pit, FirstSegments(f, parity, i + 1)) \subseteq from.pit
        BY LookedUpShrinks
    <2>3. QED
        BY <1>2, <2>1, <2>2 DEF PublishUpTo
<1>3. QED
    BY <1>1, <1>2 DEF Failures

(* The request for the rightmost key names no segment.                       *)
LEMMA RightmostNoSegment ==
    /\ Rightmost \notin Segments
    /\ \A s \in Segments : /\ s.frame \in Frames
                           /\ s \in SegmentsOf(s.frame)
                           /\ s.parity \in BOOLEAN
<1>1. \A f \in Frames : f.no >= 0
    BY DEF Frames
<1>2. \A s \in Segments : /\ s.frame \in Frames
                         /\ s \in SegmentsOf(s.frame)
                         /\ s.parity \in BOOLEAN
    <2> SUFFICES ASSUME NEW f \in Frames, NEW s \in SegmentsOf(f)
                 PROVE  s.frame = f /\ s.parity \in BOOLEAN
        BY DEF Segments
    <2>1. QED
        BY DEF SegmentsOf
<1>3. Rightmost.frame.no = -1
    BY DEF Rightmost
<1>4. QED
    BY <1>1, <1>2, <1>3

(* Publishing adds only segments that no entry of the PIT names, and leaves
   alone the entries for other frames and for the other half of this one.    *)
LEMMA PublishAllSpares ==
    ASSUME NEW from, NEW f, NEW parity, NEW n
    PROVE  LET r == PublishAll(from, f, parity, n)
           IN  /\ \A s \in r.added : \/ s \in from.added
                                     \/ s \notin from.pit /\ s.frame = f /\ s.parity = parity
               /\ \A s \in from.pit \cap Segments :
                     s.frame # f \/ s.parity # parity => s \in r.pit
<1> DEFINE segments == FirstSegments(f, parity, n)
<1>1. \A s \in segments : s.frame = f /\ s.parity = parity
    BY DEF FirstSegments, SegmentsOf
<1>2. \A s \in segments \ Hits(from.pit, segments) : s \notin from.pit
    BY DEF Hits
<1>3. \A s \in from.pit \cap Segments : s \notin segments => s \in LookedUp(from.pit, segments)
    BY RightmostNoSegment DEF LookedUp
<1> HIDE DEF segments
<1>4. PublishAll(from, f, parity, n).added = from.added \cup (segments \ Hits(from.pit, segments))
    BY DEF PublishAll, segments
<1>5. PublishAll(from, f, parity, n).pit = CleanPitForFrame(LookedUp(from.pit, segments), f, parity)
    BY DEF PublishAll, segments
<1>6. \A s \in from.pit \cap Segments :
          s.frame # f \/ s.parity # parity
          => s \in CleanPitForFrame(LookedUp(from.pit, segments), f, parity)
    BY <1>1, <1>3, RightmostNoSegment DEF CleanPitForFrame
<1>7. QED
    BY <1>1, <1>2, <1>4, <1>5, <1>6

LEMMA FailuresSpare ==
    ASSUME NEW from, NEW f, NEW parity, NEW n, NEW r \in Failures(from, f, parity, n)
    PROVE  /\ \A s \in r.added : \/ s \in from.added
                                 \/ s \notin from.pit /\ s.frame = f /\ s.parity = parity
           /\ \A s \in from.pit \cap Segments :
                 s.frame # f \/ s.parity # parity => s \in r.pit
           /\ ~SendThrows => r = from
<1>1. CASE r = from
    BY <1>1
<1>2. ASSUME SendThrows, NEW i \in 0..(n - 1), r = PublishUpTo(from, f, parity, i)
      PROVE  /\ \A s \in r.added : \/ s \in from.added
                                   \/ s \notin from.pit /\ s.frame = f /\ s.parity = parity
             /\ \A s \in from.pit \cap Segments :
                   s.frame # f \/ s.parity # parity => s \in r.pit
    <2> DEFINE segments == FirstSegments(f, parity, i)
               next == FirstSegments(f, parity, i + 1)
    <2>1. /\ \A s \in segments : s.frame = f /\ s.parity = parity
          /\ \A s \in next : s.frame = f /\ s.parity = parity
        BY DEF FirstSegments, SegmentsOf
    <2>2. \A s \in segments \ Hits(from.pit, segments) : s \notin from.pit
        BY DEF Hits
    <2>3. \A s \in from.pit \cap Segments : s \notin next => s \in LookedUp(from.pit, next)
        BY RightmostNoSegment DEF LookedUp
    <2> HIDE DEF segments, next
    <2>4. /\ r.added = from.added \cup (segments \ Hits(from.pit, segments))
          /\ r.pit = LookedUp(from.pit, next)
        BY <1>2 DEF PublishUpTo, segments, next
    <2>5. QED
        BY <2>1, <2>2, <2>3, <2>4
<1>3. QED
    BY <1>1, <1>2, OptionsAssumption DEF Failures

(* What a publication of a frame not begun before does to those who wait: it
   puts nothing into the cache that the PIT knew to be asked for.            *)
LEMMA EffectOverlooksNobody ==
    ASSUME AwaitedInPit, OnlyDeltaDataOverlooked, NEW f, NEW r, Effect(r),
           f.no >= IF f.kind = "key" THEN keyFrameNo + 1 ELSE deltaFrameNo,
           r.added \subseteq Segments,
           \A s \in r.added : s.frame = f /\ s \notin pit
    PROVE  wanted' \subseteq wanted /\ OnlyDeltaDataOverlooked'
<1>1. wanted' \subseteq wanted
    BY DEF Effect
<1>2. \A c \in Cleanups : c \subseteq cache
    BY DEF Cleanups
<1>3. cache' \subseteq cache \cup [segment : r.added, packet : {packetNo}]
    BY <1>2 DEF Effect
<1>4. Cached' \subseteq Cached \cup r.added
    BY <1>3 DEF Cached
<1>5. ASSUME NEW s \in wanted, s \in r.added, SafeFromFailure(s)
      PROVE  FALSE
    BY <1>5 DEF AwaitedInPit
<1>6. QED
    BY <1>1, <1>4, <1>5 DEF OnlyDeltaDataOverlooked, SafeFromFailure

(* What a publication leaves behind has the right type.                      *)
LEMMA EffectTyped ==
    ASSUME TypeOK, NEW r, r.added \subseteq Segments, Effect(r)
    PROVE  /\ pit' = r.pit
           /\ cache' \subseteq [segment : Segments, packet : 0..packetNo]
           /\ wanted' \subseteq Names
<1>1. \A c \in Cleanups : c \subseteq cache
    BY DEF Cleanups
<1>2. [segment : r.added, packet : {packetNo}] \subseteq [segment : Segments, packet : 0..packetNo]
    BY DEF TypeOK
<1>3. cache' \subseteq cache \cup [segment : r.added, packet : {packetNo}]
    BY <1>1 DEF Effect
<1>4. QED
    BY <1>2, <1>3 DEF Effect, TypeOK

-----------------------------------------------------------------------------
(* The initial state satisfies the inductive invariant: nothing has been
   published and nobody has asked for anything.                              *)
LEMMA InitIInv == Init => IInv
BY DEF Init, IInv, TypeOK, CountersPast, NumbersAgree, PitForgets,
       AwaitedInPit, OnlyDeltaDataOverlooked

(* Taking in an Interest only touches PIT, cache and network: what it puts
   into the PIT is a frame that has not been published.                      *)
LEMMA OnInterestIInv ==
    ASSUME IInv, NEW name \in Names, OnInterest(name)
    PROVE  IInv'
<1>1. /\ pit' \subseteq pit \cup {name}
      /\ name \in pit' => name \in pit \/ IsNew(name)
    BY DEF OnInterest
<1>2. cache' \subseteq cache /\ wanted' \subseteq Names
    BY DEF OnInterest, Cleanups, IInv, TypeOK
<1>3. UNCHANGED <<keyFrameNo, deltaFrameNo, packetNo, published>>
    BY DEF OnInterest, counters
<1>4. TypeOK'
    BY <1>1, <1>2, <1>3 DEF IInv, TypeOK
<1>5. PitForgets'
    <2> SUFFICES ASSUME NEW e \in published, NEW m \in pit',
                        e.frame.kind = "delta", m.frame = e.frame
                 PROVE  m.parity
        BY <1>3 DEF PitForgets
    <2>1. CASE m \in pit
        BY <2>1 DEF IInv, PitForgets
    <2>2. CASE m = name /\ IsNew(name)
        <3>1. name # Rightmost
            BY <2>2 DEF Rightmost
        <3>2. e.frame.no >= deltaFrameNo
            BY <2>2, <3>1 DEF IsNew
        <3>3. e.frame.no < deltaFrameNo /\ e.frame.no \in Int /\ deltaFrameNo \in Int
            BY DEF IInv, CountersPast, TypeOK, Frames
        <3>4. QED
            BY <3>2, <3>3
    <2>3. QED
        BY <1>1, <2>1, <2>2
<1>6. AwaitedInPit'
    <2>1. /\ wanted' \subseteq wanted \cup {name}
          /\ pit \subseteq pit'
          /\ name \in wanted' /\ IsNew(name) => name \in wanted \/ name \in pit'
        BY DEF OnInterest
    <2> SUFFICES ASSUME NEW s \in wanted' \cap Segments, SafeFromFailure(s),
                        s.frame.no >= IF s.frame.kind = "key" THEN keyFrameNo + 1 ELSE deltaFrameNo
                 PROVE  s \in pit'
        BY <1>3 DEF AwaitedInPit, SafeFromFailure
    <2>2. CASE s \in wanted
        BY <2>1, <2>2 DEF IInv, AwaitedInPit
    <2>3. CASE s = name
        <3>1. s.frame \in Frames /\ keyFrameNo \in Int
            BY RightmostNoSegment DEF IInv, TypeOK
        <3>2. s.frame.no \in Int
            BY <3>1 DEF Frames
        <3>3. IsNew(name)
            BY <2>3, <3>1, <3>2 DEF IsNew
        <3>4. QED
            BY <2>1, <2>2, <2>3, <3>3
    <2>4. QED
        BY <2>1, <2>2, <2>3
<1>7. OnlyDeltaDataOverlooked'
    <2>1. Cached' \subseteq Cached
        BY <1>2 DEF Cached
    <2>2. \/ wanted' = wanted
          \/ wanted' = wanted \cup {name} /\ (name = Rightmost \/ ~\E s \in Cached' : Matches(name, s))
        BY DEF OnInterest, Cached
    <2>3. \A s \in Cached' : s \in Segments
        BY <1>4 DEF TypeOK, Cached
    <2>4. \A s \in Cached' : s \in wanted' => s \in wanted
        BY <2>2, <2>3, RightmostNoSegment DEF Matches
    <2>5. QED
        BY <2>1, <2>4 DEF IInv, OnlyDeltaDataOverlooked, SafeFromFailure
<1>8. QED
    BY <1>3, <1>4, <1>5, <1>6, <1>7 DEF IInv, CountersPast, NumbersAgree

(* A publication that fails, whatever it leaves behind, uses up the number of
   a key frame and no other.                                                 *)
LEMMA FailFrameIInv ==
    ASSUME IInv, NEW kind \in {"key", "delta"}, NEW nData \in 1..MaxData,
           FailFrame(kind, nData)
    PROVE  IInv'
<1> DEFINE f == Begun(kind)
<1>1. f \in Frames
    BY DEF FailFrame
<1>2. PICK r \in Failures(Nothing, f, FALSE, nData) : Effect(r)
    BY DEF FailFrame
<1>3. r.pit \subseteq pit /\ r.added \subseteq Segments
    <2>1. Nothing.pit = pit /\ Nothing.added = {}
        BY DEF Nothing
    <2>2. r.pit \subseteq Nothing.pit /\ r.added \subseteq Nothing.added \cup SegmentsOf(f)
        BY <1>2, FailuresAdd
    <2>3. SegmentsOf(f) \subseteq Segments
        BY <1>1 DEF Segments
    <2>4. QED
        BY <2>1, <2>2, <2>3
<1>4. /\ pit' \subseteq pit
      /\ cache' \subseteq [segment : Segments, packet : 0..packetNo]
      /\ wanted' \subseteq Names
    BY <1>2, <1>3, EffectTyped DEF IInv
<1>5. /\ keyFrameNo' \in -1..MaxKey
      /\ keyFrameNo <= keyFrameNo'
      /\ UNCHANGED <<deltaFrameNo, packetNo, published>>
    <2>1. kind = "key" => f.no = keyFrameNo + 1 /\ f.no \in 0..MaxKey
        BY <1>1 DEF Begun, Frames
    <2>2. QED
        BY <2>1 DEF FailFrame, IInv, TypeOK
<1>6. TypeOK'
    BY <1>4, <1>5 DEF IInv, TypeOK
<1>7. CountersPast'
    <2>1. keyFrameNo \in Int /\ keyFrameNo' \in Int /\ deltaFrameNo \in Int /\ packetNo \in Int
        BY <1>5 DEF IInv, TypeOK
    <2>2. \A e \in published : e.frame.no \in Int /\ e.paired \in Int
        BY DEF IInv, TypeOK, Frames
    <2>3. QED
        BY <1>5, <2>1, <2>2 DEF IInv, CountersPast
<1>8. NumbersAgree' /\ PitForgets'
    BY <1>4, <1>5 DEF IInv, NumbersAgree, PitForgets
<1>9. /\ \A s \in r.added : s \notin pit /\ s.frame = f
      /\ \A s \in pit \cap Segments : s.frame # f \/ s.parity => s \in pit'
      /\ ~SendThrows => pit' = pit
    <2>1. Nothing.pit = pit /\ Nothing.added = {}
        BY DEF Nothing
    <2>2. pit' = r.pit
        BY <1>2 DEF Effect
    <2>3. QED
        <3>1. PICK half : half = FALSE
            OBVIOUS
        <3>2. r \in Failures(Nothing, f, half, nData)
            BY <1>2, <3>1
        <3> HIDE DEF f
        <3>3. /\ \A s \in r.added : \/ s \in Nothing.added
                                    \/ s \notin Nothing.pit /\ s.frame = f /\ s.parity = half
              /\ \A s \in Nothing.pit \cap Segments :
                    s.frame # f \/ s.parity # half => s \in r.pit
              /\ ~SendThrows => r = Nothing
            BY <3>2, FailuresSpare
        <3>4. QED
            BY <2>1, <2>2, <3>1, <3>3
<1>10. /\ f.kind = kind
       /\ f.no = IF kind = "key" THEN keyFrameNo + 1 ELSE deltaFrameNo
       /\ keyFrameNo' = IF kind = "key" THEN f.no ELSE keyFrameNo
    BY DEF FailFrame, Begun
<1>11. keyFrameNo \in Int /\ deltaFrameNo \in Int
    BY DEF IInv, TypeOK
<1>12. wanted' \subseteq wanted /\ OnlyDeltaDataOverlooked'
    <2>1. AwaitedInPit /\ OnlyDeltaDataOverlooked
        BY DEF IInv
    <2> HIDE DEF f
    <2>2. f.no >= IF f.kind = "key" THEN keyFrameNo + 1 ELSE deltaFrameNo
        BY <1>10, <1>11
    <2>3. QED
        BY <1>2, <1>3, <1>9, <2>1, <2>2, EffectOverlooksNobody
<1>13. AwaitedInPit'
    <2> HIDE DEF f
    <2> SUFFICES ASSUME NEW s \in wanted \cap Segments, SafeFromFailure(s),
                        s.frame.no >= IF s.frame.kind = "key" THEN keyFrameNo' + 1 ELSE deltaFrameNo
                 PROVE  s \in pit'
        BY <1>5, <1>12 DEF AwaitedInPit, SafeFromFailure
    <2>1. s.frame \in Frames
        BY RightmostNoSegment
    <2>2. s.frame.no \in Int /\ s.frame.kind \in {"key", "delta"}
        BY <2>1 DEF Frames
    <2>3. s \in pit
        BY <1>5, <1>11, <2>2 DEF IInv, TypeOK, AwaitedInPit
    <2>4. CASE s.frame # f \/ s.parity \/ ~SendThrows
        BY <1>9, <2>3, <2>4
    <2>5. CASE s.frame = f /\ s.frame.kind = "key"
        BY <1>10, <1>11, <2>2, <2>5
    <2>6. QED
        BY <2>4, <2>5 DEF SafeFromFailure
<1>14. QED
    BY <1>6, <1>7, <1>8, <1>12, <1>13 DEF IInv

(* A published frame takes its data names out of the PIT for good, and its
   numbers are beyond all those given before.                                *)
LEMMA PublishFrameIInv ==
    ASSUME IInv, NEW kind \in {"key", "delta"}, NEW nData \in 1..MaxData,
           NEW nParity, PublishFrame(kind, nData, nParity)
    PROVE  IInv'
<1> DEFINE f == Begun(kind)
           data == PublishAll(Nothing, f, FALSE, nData)
           new == [frame |-> f, data |-> nData, packet |-> packetNo,
                   paired |-> PairedSequenceNo(f)]
<1>1. f \in Frames /\ f.kind = kind
    BY DEF PublishFrame, Begun
<1>2. PICK r : /\ r = data \/ r = PublishAll(data, f, TRUE, nParity)
                           \/ r \in Failures(data, f, TRUE, nParity)
               /\ Effect(r)
    BY DEF PublishFrame
<1>3. /\ data.pit \subseteq pit
      /\ data.added \subseteq SegmentsOf(f)
      /\ \A name \in data.pit : name = Rightmost \/ name.frame # f \/ name.parity # FALSE
    <2>1. Nothing.pit = pit /\ Nothing.added = {}
        BY DEF Nothing
    <2>2. QED
        BY <2>1, PublishAllAdds
<1>4. r.pit \subseteq data.pit /\ r.added \subseteq data.added \cup SegmentsOf(f)
    <2>1. CASE r = data
        BY <2>1
    <2>2. CASE r = PublishAll(data, f, TRUE, nParity)
        BY <2>2, PublishAllAdds
    <2>3. CASE r \in Failures(data, f, TRUE, nParity)
        BY <2>3, FailuresAdd
    <2>4. QED
        BY <1>2, <2>1, <2>2, <2>3
<1>5. /\ pit' \subseteq data.pit
      /\ cache' \subseteq [segment : Segments, packet : 0..packetNo]
      /\ wanted' \subseteq Names
    <2>1. r.added \subseteq Segments
        BY <1>1, <1>3, <1>4 DEF Segments
    <2>2. TypeOK /\ Effect(r)
        BY <1>2 DEF IInv
    <2>3. /\ pit' = r.pit
          /\ cache' \subseteq [segment : Segments, packet : 0..packetNo]
          /\ wanted' \subseteq Names
        BY <2>1, <2>2, EffectTyped
    <2>4. QED
        BY <1>4, <2>3
<1>6. /\ packetNo' = packetNo + 1
      /\ published' = published \cup {new}
      /\ kind = "key" => /\ f.no = keyFrameNo + 1 /\ f.no \in 0..MaxKey
                         /\ keyFrameNo' = f.no /\ deltaFrameNo' = deltaFrameNo
                         /\ new.paired = deltaFrameNo
      /\ kind = "delta" => /\ f.no = deltaFrameNo /\ f.no \in 0..MaxDelta
                           /\ deltaFrameNo' = f.no + 1 /\ keyFrameNo' = keyFrameNo
                           /\ new.paired = keyFrameNo
    BY <1>1 DEF PublishFrame, Begun, PairedSequenceNo, Frames
<1>7. /\ new.frame = f
      /\ new.packet = packetNo
    OBVIOUS
<1>8. /\ keyFrameNo \in -1..MaxKey
      /\ deltaFrameNo \in 0..(MaxDelta + 1)
      /\ packetNo \in 0..(MaxKey + MaxDelta + 2)
      /\ packetNo <= keyFrameNo + 1 + deltaFrameNo
    BY DEF IInv, TypeOK, CountersPast
<1>9. \A e \in published : /\ e.frame \in Frames
                           /\ e.packet \in 0..(packetNo - 1)
                           /\ e.paired \in Int
    BY DEF IInv, TypeOK
<1>10. \A e \in published : e.frame.no \in Int /\ e.frame.kind \in {"key", "delta"}
    BY <1>9 DEF Frames
<1>11. TypeOK'
    <2>1. new \in [frame : Frames, data : 1..MaxData, packet : 0..(packetNo' - 1),
                   paired : -1..(MaxKey + MaxDelta + 1)]
        <3>1. new.paired \in -1..(MaxKey + MaxDelta + 1)
            BY <1>6, <1>8
        <3>2. packetNo \in 0..(packetNo' - 1)
            BY <1>6, <1>8
        <3>3. QED
            BY <1>1, <3>1, <3>2
    <2>2. published \subseteq [frame : Frames, data : 1..MaxData, packet : 0..(packetNo' - 1),
                              paired : -1..(MaxKey + MaxDelta + 1)]
        BY <1>6, <1>8 DEF IInv, TypeOK
    <2>3. /\ keyFrameNo' \in -1..MaxKey
          /\ deltaFrameNo' \in 0..(MaxDelta + 1)
          /\ packetNo' \in 0..(MaxKey + MaxDelta + 2)
        BY <1>6, <1>8
    <2>4. cache' \subseteq [segment : Segments, packet : 0..packetNo']
        BY <1>5, <1>6, <1>8
    <2>5. pit' \subseteq Names
        BY <1>3, <1>5 DEF IInv, TypeOK
    <2> HIDE DEF new
    <2>6. QED
        BY <1>5, <1>6, <2>1, <2>2, <2>3, <2>4, <2>5 DEF TypeOK
<1> HIDE DEF new, data, f
<1>12. CountersPast'
    <2>1. packetNo' <= keyFrameNo' + 1 + deltaFrameNo'
        BY <1>6, <1>8
    <2>2. \A e \in published :
              IF e.frame.kind = "key"
              THEN e.frame.no <= keyFrameNo' /\ e.paired <= deltaFrameNo'
              ELSE e.frame.no < deltaFrameNo' /\ e.paired <= keyFrameNo'
        BY <1>6, <1>8, <1>9, <1>10 DEF IInv, CountersPast
    <2>3. IF new.frame.kind = "key"
          THEN new.frame.no <= keyFrameNo' /\ new.paired <= deltaFrameNo'
          ELSE new.frame.no < deltaFrameNo' /\ new.paired <= keyFrameNo'
        BY <1>1, <1>6, <1>7, <1>8
    <2>4. QED
        BY <1>6, <2>1, <2>2, <2>3 DEF CountersPast
<1>13. NumbersAgree'
    <2>1. \A e \in published : /\ e.packet < packetNo
                               /\ IF e.frame.kind = "key"
                                  THEN e.frame.no <= keyFrameNo /\ e.paired <= deltaFrameNo
                                  ELSE e.frame.no < deltaFrameNo /\ e.paired <= keyFrameNo
        BY <1>8, <1>9 DEF IInv, CountersPast
    <2> SUFFICES ASSUME NEW e \in published', NEW g \in published'
                 PROVE  /\ e = g \/ (e.frame # g.frame /\ e.packet # g.packet)
                        /\ e.frame.kind = g.frame.kind =>
                              (e.frame.no < g.frame.no <=> e.packet < g.packet)
                        /\ e.frame.kind = "key" /\ g.frame.kind = "delta" =>
                              /\ e.packet < g.packet <=> e.frame.no <= g.paired
                              /\ e.packet < g.packet <=> e.paired <= g.frame.no
        BY DEF NumbersAgree
    <2>2. CASE e \in published /\ g \in published
        BY <2>2 DEF IInv, NumbersAgree
    <2>3. CASE e = new /\ g \in published
        BY <2>3, <2>1, <1>1, <1>6, <1>7, <1>8, <1>9, <1>10
    <2>4. CASE e \in published /\ g = new
        BY <2>4, <2>1, <1>1, <1>6, <1>7, <1>8, <1>9, <1>10
    <2>5. CASE e = new /\ g = new
        BY <2>5, <1>1, <1>6, <1>7, <1>8
    <2>6. QED
        BY <1>6, <2>2, <2>3, <2>4, <2>5
<1>14. PitForgets'
    <2> SUFFICES ASSUME NEW e \in published', NEW name \in pit',
                        e.frame.kind = "delta", name.frame = e.frame, ~name.parity
                 PROVE  FALSE
        BY DEF PitForgets
    <2>1. CASE e \in published
        BY <2>1, <1>3, <1>5 DEF IInv, PitForgets
    <2>2. CASE e = new
        <3>1. name # Rightmost
            BY <2>2 DEF Rightmost
        <3>2. name.parity \in BOOLEAN
            <4>1. name \in Segments
                BY <3>1, <1>3, <1>5 DEF IInv, TypeOK, Names
            <4>2. PICK g \in Frames : name \in SegmentsOf(g)
                BY <4>1 DEF Segments
            <4>3. QED
                BY <4>2 DEF SegmentsOf
        <3>3. QED
            BY <2>2, <3>1, <3>2, <1>3, <1>5, <1>7
    <2>3. QED
        BY <1>6, <2>1, <2>2
<1>15. /\ \A s \in r.added : s \notin pit /\ s.frame = f /\ s \in Segments
       /\ \A s \in pit \cap Segments : s.frame # f => s \in pit'
    <2>1. Nothing.pit = pit /\ Nothing.added = {}
        BY DEF Nothing
    <2>2. /\ \A s \in data.added : s \notin pit /\ s.frame = f /\ s.parity = FALSE
          /\ \A s \in pit \cap Segments : s.frame # f \/ s.parity # FALSE => s \in data.pit
        <3>1. PICK half : half = FALSE
            OBVIOUS
        <3>2. data = PublishAll(Nothing, f, half, nData)
            BY <3>1 DEF data
        <3>3. /\ \A s \in data.added : \/ s \in Nothing.added
                                       \/ s \notin Nothing.pit /\ s.frame = f /\ s.parity = half
              /\ \A s \in Nothing.pit \cap Segments :
                    s.frame # f \/ s.parity # half => s \in data.pit
            BY <3>2, PublishAllSpares
        <3>4. QED
            BY <2>1, <3>1, <3>3
    <2>3. /\ \A s \in r.added : \/ s \in data.added
                                \/ s \notin data.pit /\ s.frame = f /\ s.parity = TRUE
          /\ \A s \in data.pit \cap Segments : s.frame # f => s \in r.pit
        <3>1. CASE r = data
            BY <3>1
        <3>2. CASE r = PublishAll(data, f, TRUE, nParity)
            BY <3>2, PublishAllSpares
        <3>3. CASE r \in Failures(data, f, TRUE, nParity)
            <4>1. PICK half : half = TRUE
                OBVIOUS
            <4>2. r \in Failures(data, f, half, nParity)
                BY <3>3, <4>1
            <4>3. /\ \A s \in r.added : \/ s \in data.added
                                        \/ s \notin data.pit /\ s.frame = f /\ s.parity = half
                  /\ \A s \in data.pit \cap Segments :
                        s.frame # f \/ s.parity # half => s \in r.pit
                BY <4>2, FailuresSpare
            <4>4. QED
                BY <4>1, <4>3
        <3>4. QED
            BY <1>2, <3>1, <3>2, <3>3
    <2>4. r.added \subseteq Segments
        BY <1>1, <1>3, <1>4 DEF Segments
    <2>5. pit' = r.pit
        BY <1>2 DEF Effect
    <2>6. QED
        BY <2>2, <2>3, <2>4, <2>5
<1>16. wanted' \subseteq wanted /\ OnlyDeltaDataOverlooked'
    <2>1. AwaitedInPit /\ OnlyDeltaDataOverlooked
        BY DEF IInv
    <2>2. f.no >= IF f.kind = "key" THEN keyFrameNo + 1 ELSE deltaFrameNo
        BY <1>1, <1>6, <1>8
    <2>3. QED
        BY <1>2, <1>15, <2>1, <2>2, EffectOverlooksNobody
<1>17. AwaitedInPit'
    <2> SUFFICES ASSUME NEW s \in wanted \cap Segments, SafeFromFailure(s),
                        s.frame.no >= IF s.frame.kind = "key" THEN keyFrameNo' + 1 ELSE deltaFrameNo'
                 PROVE  s \in pit'
        BY <1>16 DEF AwaitedInPit, SafeFromFailure
    <2>1. s.frame \in Frames
        BY RightmostNoSegment
    <2>2. s.frame.no \in Int /\ s.frame.kind \in {"key", "delta"}
        BY <2>1 DEF Frames
    <2>3. s.frame # f
        BY <1>1, <1>6, <1>8, <2>2
    <2>4. s.frame.no >= IF s.frame.kind = "key" THEN keyFrameNo + 1 ELSE deltaFrameNo
        BY <1>6, <1>8, <2>2
    <2>5. s \in pit
        BY <2>4 DEF IInv, AwaitedInPit
    <2>6. QED
        BY <1>15, <2>3, <2>5
<1>18. QED
    BY <1>11, <1>12, <1>13, <1>14, <1>16, <1>17 DEF IInv

-----------------------------------------------------------------------------
(* Every step keeps the inductive invariant.                                 *)
LEMMA NextIInv == IInv /\ [Next]_vars => IInv'
<1> SUFFICES ASSUME IInv, [Next]_vars
             PROVE  IInv'
    OBVIOUS
<1>1. ASSUME NEW name \in Names, OnInterest(name)
      PROVE  IInv'
    BY <1>1, OnInterestIInv
<1>2. ASSUME NEW name \in Names, Expire(name)
      PROVE  IInv'
    <2>1. wanted' \subseteq wanted /\ UNCHANGED <<counters, pit, cache, published>>
        BY <1>2 DEF Expire
    <2>2. TypeOK' /\ CountersPast' /\ NumbersAgree' /\ PitForgets'
        BY <2>1 DEF counters, IInv, TypeOK, CountersPast, NumbersAgree, PitForgets
    <2>3. AwaitedInPit' /\ OnlyDeltaDataOverlooked'
        BY <2>1 DEF counters, IInv, AwaitedInPit, OnlyDeltaDataOverlooked, Cached, SafeFromFailure
    <2>4. QED
        BY <2>2, <2>3 DEF IInv
<1>3. ASSUME NEW kind \in {"key", "delta"}, NEW nData \in 1..MaxData,
             NEW nParity \in ParityNumbers, PublishFrame(kind, nData, nParity)
      PROVE  IInv'
    BY <1>3, PublishFrameIInv
<1>4. ASSUME NEW kind \in {"key", "delta"}, NEW nData \in 1..MaxData,
             FailFrame(kind, nData)
      PROVE  IInv'
    BY <1>4, FailFrameIInv
<1>5. CASE UNCHANGED vars
    BY <1>5 DEF vars, counters, IInv, TypeOK, CountersPast, NumbersAgree, PitForgets,
                AwaitedInPit, OnlyDeltaDataOverlooked, Cached, SafeFromFailure
<1>6. QED
    BY <1>1, <1>2, <1>3, <1>4, <1>5 DEF Next

LEMMA IInvAlways == Spec => []IInv
BY InitIInv, NextIInv, PTL DEF Spec

(* The counters of VideoThread stay within their bounds, every entry of the
   PIT and of the cache names a segment of a frame, and no segment in the
   cache is of a packet that has not been begun.                             *)
THEOREM TypeCorrect == Spec => []TypeOK
<1>1. IInv => TypeOK
    BY DEF IInv
<1>2. QED
    BY <1>1, IInvAlways, PTL

(* The sequence numbers, the packet numbers and the paired numbers that
   onEncodedFrameDelivered gives tell the same story of the order of frames,
   wherever publishing fails and for any number of frames.                   *)
THEOREM NumbersConsistent == Spec => []NumbersAgree
<1>1. IInv => NumbersAgree
    BY DEF IInv
<1>2. QED
    BY <1>1, IInvAlways, PTL

(* The PIT that MediaThread keeps beside the network's holds no data entry of
   a published delta frame: cleanPitForFrame and the test of onInterest
   together leave nothing behind, and nothing comes back.                    *)
THEOREM PitKeepsNothing == Spec => []PitForgets
<1>1. IInv => PitForgets
    BY DEF IInv
<1>2. QED
    BY <1>1, IInvAlways, PTL

(* Where publishing does not throw, no Interest waits for a segment that lies
   in the cache, however Interests, frames, expiries and clean-ups of the
   cache are interleaved: what addToPit, publishPacket and cleanPitForFrame
   do to the PIT and the cache loses nobody.                                 *)
THEOREM NobodyForgotten ==
    ASSUME ~SendThrows
    PROVE  Spec => []NobodyOverlooked
<1>1. IInv => NobodyOverlooked
    BY DEF IInv, OnlyDeltaDataOverlooked, SafeFromFailure, NobodyOverlooked
<1>2. QED
    BY <1>1, IInvAlways, PTL

(* Where it throws, in the middle of a frame, only Interests for data of delta
   frames can be lost: a key frame that fails uses up its number, and parity
   data keeps its entries in the PIT.                                        *)
THEOREM OnlyDeltaDataForgotten == Spec => []OnlyDeltaDataOverlooked
<1>1. IInv => OnlyDeltaDataOverlooked
    BY DEF IInv
<1>2. QED
    BY <1>1, IInvAlways, PTL
=============================================================================
