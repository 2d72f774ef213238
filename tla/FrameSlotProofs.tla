--------------------------- MODULE FrameSlotProofs ---------------------------
(***************************************************************************)
(* Proofs about FrameSlot, for frames of any number of data and parity       *)
(* segments, asked for by any estimate of these, with and without FEC.       *)
(***************************************************************************)
EXTENDS FrameSlot, FiniteSetTheorems, TLAPS

First == [parity |-> FALSE, no |-> 0]

-----------------------------------------------------------------------------
(* The segments of one kind are as many as they are counted.                  *)
LEMMA Numbered ==
    ASSUME NEW kind, NEW n \in Nat
    PROVE  /\ IsFiniteSet([parity : {kind}, no : 0..(n - 1)])
           /\ Cardinality([parity : {kind}, no : 0..(n - 1)]) = n
<1> DEFINE S == [parity : {kind}, no : 0..(n - 1)]
           f == [i \in 0..(n - 1) |-> [parity |-> kind, no |-> i]]
<1>1. f \in Injection(0..(n - 1), S)
  <2>1. f \in [0..(n - 1) -> S]
    OBVIOUS
  <2>2. \A i \in 0..(n - 1) : f[i].no = i
    OBVIOUS
  <2> HIDE DEF f, S
  <2>3. \A i, j \in 0..(n - 1) : f[i] = f[j] => i = j
    BY <2>2
  <2> QED
    BY <2>1, <2>3 DEF Injection, IsInjective
<1>2. f \in Surjection(0..(n - 1), S)
  <2>1. \A x \in S : \E i \in 0..(n - 1) : f[i] = x
    OBVIOUS
  <2> QED
    BY <2>1 DEF Surjection
<1>3. ExistsBijection(0..(n - 1), S)
  BY <1>1, <1>2 DEF ExistsBijection, Bijection
<1>4. IsFiniteSet(0..(n - 1)) /\ Cardinality(0..(n - 1)) = n
  BY FS_Interval
<1> QED
  BY <1>3, <1>4, FS_Bijection

LEMMA SegmentsFinite == IsFiniteSet(Segments)
<1>1. IsFiniteSet(DataSegments) /\ IsFiniteSet(ParitySegments)
  BY SegmentsAssumption, Numbered DEF DataSegments, ParitySegments
<1> QED
  BY <1>1, FS_Union DEF Segments

LEMMA SegmentFields ==
    /\ \A r \in DataSegments : r.parity = FALSE /\ r.no \in Nat
    /\ \A r \in ParitySegments : r.parity = TRUE /\ r.no \in Nat
<1>1. ASSUME NEW r \in DataSegments PROVE r.parity \in {FALSE} /\ r.no \in 0..(MaxData - 1)
  BY DEF DataSegments
<1>2. ASSUME NEW r \in ParitySegments PROVE r.parity \in {TRUE} /\ r.no \in 0..(MaxParity - 1)
  BY DEF ParitySegments
<1>3. ASSUME NEW r \in DataSegments PROVE r.no \in Nat
  <2>1. r.no \in 0..(MaxData - 1)
    BY <1>1
  <2> QED
    BY <2>1, SegmentsAssumption
<1>4. ASSUME NEW r \in ParitySegments PROVE r.no \in Nat
  <2>1. r.no \in 0..(MaxParity - 1)
    BY <1>2
  <2> QED
    BY <2>1, SegmentsAssumption
<1>5. ASSUME NEW r \in DataSegments PROVE r.parity = FALSE
  BY <1>1, Zenon
<1>6. ASSUME NEW r \in ParitySegments PROVE r.parity = TRUE
  BY <1>2, Zenon
<1> QED
  BY <1>3, <1>4, <1>5, <1>6, Zenon

LEMMA FrameTyped ==
    ASSUME TypeOK
    PROVE  /\ FrameData \subseteq Segments /\ FrameParity \subseteq Segments
           /\ FrameSegments \subseteq Segments
           /\ FrameSegments \cap DataSegments = FrameData
           /\ FrameData \subseteq Wanted /\ Wanted \subseteq FrameSegments
           /\ First \in FrameData
           /\ frame.data = 1 => FrameData = {First}
           /\ IsFiniteSet(FrameData) /\ Cardinality(FrameData) = frame.data
           /\ frame.data \in Nat \ {0}
<1>1. frame.data \in Nat \ {0} /\ frame.data <= MaxData /\ MaxData \in Nat
  BY SegmentsAssumption DEF TypeOK
<1>2. FrameData = [parity : {FALSE}, no : 0..(frame.data - 1)]
  <2> DEFINE S == [parity : {FALSE}, no : 0..(frame.data - 1)]
  <2>1. ASSUME NEW x \in FrameData PROVE x \in S
    <3>1. x \in DataSegments /\ x.no < frame.data
      BY DEF FrameData
    <3>2. x.no \in 0..(frame.data - 1)
      BY <1>1, <3>1, SegmentFields
    <3> QED
      BY <3>1, <3>2 DEF DataSegments
  <2>2. ASSUME NEW x \in S PROVE x \in FrameData
    <3>1. x.no \in 0..(frame.data - 1)
      OBVIOUS
    <3>2. x.no \in 0..(MaxData - 1) /\ x.no < frame.data
      BY <1>1, <3>1
    <3> QED
      BY <3>2 DEF FrameData, DataSegments
  <2> QED
    BY <2>1, <2>2
<1>3. IsFiniteSet(FrameData) /\ Cardinality(FrameData) = frame.data
  BY <1>1, <1>2, Numbered
<1>4. First \in FrameData
  BY <1>1, <1>2 DEF First
<1>5. frame.data = 1 => FrameData = {First}
  <2> SUFFICES ASSUME frame.data = 1 PROVE FrameData = {First}
    OBVIOUS
  <2>1. 0..(frame.data - 1) = {0}
    OBVIOUS
  <2>2. FrameData = [parity : {FALSE}, no : {0}]
    BY <1>2, <2>1
  <2>3. First \in [parity : {FALSE}, no : {0}]
    BY DEF First
  <2>4. ASSUME NEW x \in [parity : {FALSE}, no : {0}] PROVE x = First
    BY DEF First
  <2> QED
    BY <2>2, <2>3, <2>4
<1>6. FrameSegments \cap DataSegments = FrameData
  BY DEF FrameSegments, FrameData, FrameParity, DataSegments, ParitySegments
<1>7. FrameData \subseteq Wanted /\ Wanted \subseteq FrameSegments
  BY DEF Wanted, FrameSegments
<1> QED
  BY <1>1, <1>3, <1>4, <1>5, <1>6, <1>7
     DEF FrameSegments, FrameData, FrameParity, Segments

(* Every set of segments is finite.                                           *)
LEMMA InFinite ==
    /\ \A S \in SUBSET Segments : IsFiniteSet(S) /\ Cardinality(S) \in Nat
    /\ \A S, T \in SUBSET Segments : S \subseteq T => Cardinality(S) <= Cardinality(T)
<1>1. ASSUME NEW S \in SUBSET Segments PROVE IsFiniteSet(S) /\ Cardinality(S) \in Nat
  BY SegmentsFinite, FS_Subset, FS_CardinalityType
<1>2. ASSUME NEW S \in SUBSET Segments, NEW T \in SUBSET Segments, S \subseteq T
      PROVE  Cardinality(S) <= Cardinality(T)
  BY <1>1, <1>2, FS_Subset
<1> QED
  BY <1>1, <1>2

-----------------------------------------------------------------------------
(* What the first segment tells: no segment that the frame has and the consumer
   wants is left neither waited for, nor fetched, nor known to be missing; what
   is missing is counted, and so is still what came unsolicited; and nothing that exists and is waited for is dropped.             *)
LEMMA Met ==
    ASSUME IInv, state \in {"New", "Assembling"}
    PROVE  LET segments == WithMeta.segments
               missing  == {r \in Segments : segments[r] = "missing"}
           IN  /\ segments \in [Segments -> SegmentStates]
               /\ \A r \in Segments : segments[r] = "fetched" <=> r \in In("fetched")
               /\ \A r \in Segments : segments[r] = "pending" => r \in In("pending")
               /\ \A r \in FrameSegments \cap In("pending") : segments[r] = "pending"
               /\ WithMeta.missing = Cardinality(missing) + Cardinality(Unsolicited)
               /\ \A r \in Wanted : segments[r] # "not used"
               /\ hasMeta => \A r \in FrameData : segments[r] # "missing"
<1> DEFINE segments == WithMeta.segments
           missing  == {r \in Segments : segments[r] = "missing"}
<1>1. /\ TypeOK /\ NothingForgotten /\ ReadyIsComplete /\ FetchedIsKnown
      /\ activeSegments \in [Segments -> SegmentStates]
  BY DEF IInv, TypeOK
<1>2. CASE hasMeta
  <2>1. segments = activeSegments /\ WithMeta.missing = nSegmentsMissing
    BY <1>2 DEF WithMeta
  <2>2. missing = In("missing")
    BY <2>1 DEF In
  <2>3. FrameData \subseteq In("pending") \cup In("fetched")
    BY <1>1, <1>2 DEF NothingForgotten
  <2>4. WithMeta.missing = Cardinality(missing) + Cardinality(Unsolicited)
    BY <1>1, <2>1, <2>2 DEF ReadyIsComplete
  <2> HIDE DEF segments, missing
  <2>5. \A r \in FrameData : segments[r] # "missing"
    BY <2>1, <2>3 DEF In
  <2>7. \A r \in Wanted : segments[r] # "not used"
    <3>1. Wanted \cap In("not used") = {} /\ Wanted \subseteq Segments
      BY <1>1, <1>2, FrameTyped DEF FetchedIsKnown
    <3> QED
      BY <2>1, <3>1 DEF In
  <2>6. /\ segments \in [Segments -> SegmentStates]
        /\ \A r \in Segments : segments[r] = "fetched" <=> r \in In("fetched")
        /\ \A r \in Segments : segments[r] = "pending" => r \in In("pending")
        /\ \A r \in FrameSegments \cap In("pending") : segments[r] = "pending"
    BY <1>1, <2>1 DEF In
  <2> QED
    BY <2>4, <2>5, <2>6, <2>7 DEF segments, missing
<1>3. CASE ~hasMeta
  <2>1. /\ segments = [r \in Segments |-> CASE r \in Refined -> "not used"
                                             [] r \in Unasked -> "missing"
                                             [] OTHER -> activeSegments[r]]
        /\ WithMeta.missing = nSegmentsMissing + Cardinality(Unasked)
    BY <1>3 DEF WithMeta
  <2>2. \A r \in Refined : r \in Segments /\ activeSegments[r] # "not used"
                           /\ r \notin FrameSegments
    <3>1. Refined \subseteq Superfluous
      BY DEF Refined
    <3>2. ASSUME NEW r \in Superfluous
          PROVE  r \in Segments /\ activeSegments[r] # "not used" /\ r \notin FrameSegments
      <4>1. r \in Segments /\ activeSegments[r] # "not used"
        BY DEF Superfluous, Used, In
      <4>2. /\ r.parity = TRUE => r.no >= frame.parity
            /\ r.parity = FALSE => r.no >= frame.data
        BY DEF Superfluous
      <4>3. frame.data \in Nat /\ frame.parity \in Nat
        BY <1>1, SegmentsAssumption DEF TypeOK
      <4>4. CASE r \in FrameData
        <5>1. r.no < frame.data /\ r.parity = FALSE /\ r.no \in Nat
          BY <4>4, SegmentFields DEF FrameData
        <5>2. r.no >= frame.data
          BY <4>2, <5>1, Zenon
        <5>3. r.no < frame.data /\ r.no \in Nat /\ frame.data \in Nat
          BY <4>3, <5>1, Zenon
        <5>4. \A n, m \in Nat : n < m => ~(n >= m)
          OBVIOUS
        <5> QED
          BY <5>2, <5>3, <5>4, Zenon
      <4>5. CASE r \in FrameParity
        <5>1. r.no < frame.parity /\ r.parity = TRUE /\ r.no \in Nat
          BY <4>5, SegmentFields DEF FrameParity
        <5>2. r.no >= frame.parity
          BY <4>2, <5>1, Zenon
        <5>3. r.no < frame.parity /\ r.no \in Nat /\ frame.parity \in Nat
          BY <4>3, <5>1, Zenon
        <5>4. \A n, m \in Nat : n < m => ~(n >= m)
          OBVIOUS
        <5> QED
          BY <5>2, <5>3, <5>4, Zenon
      <4> QED
        BY <4>1, <4>4, <4>5 DEF FrameSegments
    <3> QED
      BY <3>1, <3>2
  <2>3. \A r \in Unasked : r \in Segments /\ activeSegments[r] = "not used"
    BY <1>1, FrameTyped DEF Unasked, Wanted
  <2>4. In("fetched") = {} /\ In("missing") = {}
    BY <1>1, <1>3 DEF FetchedIsKnown
  <2>5. \A r \in Segments : activeSegments[r] \in {"not used", "pending"}
    BY <1>1, <2>4 DEF In, SegmentStates
  <2> HIDE DEF segments
  <2>6. missing = Unasked
    BY <2>1, <2>2, <2>3, <2>5
  <2>7. nSegmentsMissing = 0 /\ Cardinality(Unsolicited) = 0
    <3>1. Unsolicited = {}
      BY <2>4 DEF Unsolicited
    <3> QED
      BY <1>1, <2>4, <3>1, FS_EmptySet DEF ReadyIsComplete
  <2>8. WithMeta.missing = Cardinality(missing) + Cardinality(Unsolicited)
    <3>1. Cardinality(Unasked) \in Nat
      BY <2>3, InFinite
    <3>2. WithMeta.missing = 0 + Cardinality(Unasked)
      BY <2>1, <2>7
    <3>3. Cardinality(missing) = Cardinality(Unasked)
      BY <2>6
    <3> QED
      BY <2>7, <3>1, <3>2, <3>3
  <2>9. segments \in [Segments -> SegmentStates]
    BY <1>1, <2>1 DEF SegmentStates
  <2>10. \A r \in Segments : /\ segments[r] # "fetched"
                             /\ segments[r] = "pending" => r \in In("pending")
    BY <2>1, <2>5 DEF In
  <2>11. \A r \in FrameSegments \cap In("pending") : segments[r] = "pending"
    BY <2>1, <2>2, <2>3 DEF In
  <2>12. \A r \in Wanted : segments[r] # "not used"
    <3> SUFFICES ASSUME NEW r \in Wanted PROVE segments[r] # "not used"
      OBVIOUS
    <3>1. r \in Segments /\ r \in FrameSegments /\ r \notin Refined
      BY <1>1, <2>2, FrameTyped
    <3>2. CASE activeSegments[r] = "not used"
      BY <2>1, <3>1, <3>2 DEF Unasked
    <3>3. CASE activeSegments[r] # "not used"
      BY <2>1, <2>3, <3>1, <3>3
    <3> QED
      BY <3>2, <3>3
  <2> HIDE DEF missing
  <2> QED
    BY <1>3, <2>4, <2>8, <2>9, <2>10, <2>11, <2>12 DEF segments, missing
<1> QED
  BY <1>2, <1>3

-----------------------------------------------------------------------------
(* One leaves a set, others join what is left.                                *)
LEMMA CountMoved ==
    ASSUME NEW P, NEW L, NEW A, NEW s \in P, IsFiniteSet(P), IsFiniteSet(A),
           L \subseteq P \ {s}
    PROVE  /\ Cardinality(L \cup A) \in Nat
           /\ Cardinality(L \cup A) <= (Cardinality(P) - 1) + Cardinality(A)
<1>1. /\ IsFiniteSet(P \ {s}) /\ Cardinality(P \ {s}) = Cardinality(P) - 1
      /\ Cardinality(P) \in Nat /\ Cardinality(A) \in Nat
  BY FS_RemoveElement, FS_CardinalityType
<1>2. /\ IsFiniteSet(L) /\ Cardinality(L) \in Nat
      /\ Cardinality(L) <= Cardinality(P \ {s})
  BY <1>1, FS_Subset, FS_CardinalityType
<1>3. /\ IsFiniteSet(L \cap A) /\ Cardinality(L \cap A) \in Nat
      /\ IsFiniteSet(L \cup A) /\ Cardinality(L \cup A) \in Nat
      /\ Cardinality(L \cup A) = Cardinality(L) + Cardinality(A) - Cardinality(L \cap A)
  BY <1>2, FS_Union, FS_Intersection, FS_CardinalityType
<1> QED
  BY <1>1, <1>2, <1>3

LEMMA InitHolds == Init => IInv
<1> SUFFICES ASSUME Init PROVE IInv
  OBVIOUS
<1>1. activeSegments \in [Segments -> SegmentStates]
      /\ \A s \in Segments : activeSegments[s] = "not used"
  BY DEF Init, SegmentStates
<1>2. TypeOK
  <2>1. frame \in [data : 1..MaxData, parity : 0..MaxParity]
    <3>1. 1 \in 1..MaxData /\ 0 \in 0..MaxParity
      BY SegmentsAssumption
    <3>2. frame = [data |-> 1, parity |-> 0]
      BY DEF Init
    <3> QED
      BY <3>1, <3>2
  <2> QED
    BY <1>1, <2>1 DEF Init, TypeOK, SlotStates
<1>3. In("pending") = {} /\ In("fetched") = {} /\ In("missing") = {}
  BY <1>1 DEF In
<1>4. PendingCovers /\ ReadyIsComplete
  <2>1. In("fetched") \cap DataSegments = {} /\ Unsolicited = {}
    BY <1>3 DEF Unsolicited
  <2>2. /\ Cardinality(In("pending")) = 0 /\ Cardinality(In("missing")) = 0
        /\ Cardinality(In("fetched") \cap DataSegments) = 0
        /\ Cardinality(Unsolicited) = 0
    BY <1>3, <2>1, FS_EmptySet
  <2>3. nSegmentsPending = 0 /\ nSegmentsMissing = 0 /\ nSegmentsReady = 0 /\ state = "Free"
    BY DEF Init
  <2>4. PendingCovers
    BY <2>2, <2>3 DEF PendingCovers
  <2> QED
    BY <2>2, <2>3, <2>4 DEF ReadyIsComplete
<1> QED
  BY <1>2, <1>3, <1>4 DEF Init, IInv, NothingForgotten, AskedIsWaitedFor, FetchedIsKnown,
                          RecoveredIsDone

LEMMA PrefetchKeeps ==
    ASSUME IInv, NEW data \in 1..MaxData, NEW prefetchSize \in 1..MaxData,
           NEW parity \in 0..MaxParity, NEW parityPrefetchSize \in 0..MaxParity,
           PrefetchFrame(data, parity, prefetchSize, parityPrefetchSize)
    PROVE  IInv'
<1> DEFINE range == {s \in DataSegments : s.no < prefetchSize}
                    \cup {s \in ParitySegments : useFec /\ s.no < parityPrefetchSize}
<1>1. /\ state = "Free"
      /\ frame' = [data |-> data, parity |-> parity]
      /\ asked' = range
      /\ state' = "New"
      /\ activeSegments' = [s \in Segments |-> IF s \in range THEN "pending" ELSE "not used"]
      /\ nSegmentsPending' = Cardinality(range)
      /\ UNCHANGED <<hasMeta, fecSegmentList, nSegmentsReady, nSegmentsMissing,
                     nSegmentsParityReady, isRecovered, nRtx>>
  BY DEF PrefetchFrame
<1>2. range \subseteq Segments
  BY DEF Segments
<1>3. First \in range
  <2>1. First \in DataSegments /\ First.no < prefetchSize
    BY SegmentsAssumption DEF First, DataSegments
  <2> QED
    BY <2>1
<1> HIDE DEF range
<1>4. Cardinality(range) \in Nat
  BY <1>2, InFinite
<1>5. /\ TypeOK /\ ReadyIsComplete /\ FetchedIsKnown
      /\ ~hasMeta /\ ~isRecovered /\ In("fetched") = {} /\ In("missing") = {}
  BY <1>1 DEF IInv, FetchedIsKnown
<1>6. nSegmentsMissing = 0 /\ nSegmentsReady = 0
  <2>1. In("fetched") \cap DataSegments = {} /\ Unsolicited = {}
    BY <1>5 DEF Unsolicited
  <2> QED
    BY <1>5, <2>1, FS_EmptySet DEF ReadyIsComplete
<1>7. TypeOK'
  <2>1. frame' \in [data : 1..MaxData, parity : 0..MaxParity]
    BY <1>1
  <2>2. activeSegments' \in [Segments -> SegmentStates]
    BY <1>1 DEF SegmentStates
  <2> QED
    BY <1>1, <1>2, <1>4, <1>5, <2>1, <2>2 DEF TypeOK, SlotStates
<1>8. In("pending")' = range /\ In("fetched")' = {} /\ In("missing")' = {}
  <2>1. \A r \in Segments : /\ r \in range => activeSegments'[r] = "pending"
                            /\ r \notin range => activeSegments'[r] = "not used"
    BY <1>1
  <2>2. In("pending")' = range
    BY <1>2, <2>1 DEF In
  <2>3. In("fetched")' = {} /\ In("missing")' = {}
    BY <2>1 DEF In
  <2> QED
    BY <2>2, <2>3
<1>9. PendingCovers'
  <2> HIDE DEF range
  <2>1. /\ nSegmentsPending' = Cardinality(range)
        /\ Cardinality(In("pending")') = Cardinality(range)
        /\ Cardinality(Unsolicited') = 0
    BY <1>1, <1>8, FS_EmptySet DEF Unsolicited
  <2>2. \A n \in Nat : n + 0 >= n
    OBVIOUS
  <2> QED
    BY <1>4, <2>1, <2>2 DEF PendingCovers
<1>10. ReadyIsComplete'
  <2>1. (In("fetched") \cap DataSegments)' = {} /\ Unsolicited' = {}
    BY <1>8 DEF Unsolicited
  <2>2. /\ Cardinality((In("fetched") \cap DataSegments)') = 0
        /\ Cardinality(Unsolicited') = 0 /\ Cardinality(In("missing")') = 0
    BY <1>8, <2>1, FS_EmptySet
  <2>3. nSegmentsReady' = 0 /\ nSegmentsMissing' = 0 /\ state' # "Ready"
    BY <1>1, <1>6
  <2> QED
    BY <2>2, <2>3 DEF ReadyIsComplete
<1>11. AskedIsWaitedFor'
  BY <1>1, <1>3, <1>8 DEF AskedIsWaitedFor, First
<1>12. FetchedIsKnown' /\ NothingForgotten' /\ RecoveredIsDone'
  BY <1>1, <1>5, <1>8 DEF FetchedIsKnown, NothingForgotten, RecoveredIsDone
<1> QED
  BY <1>7, <1>9, <1>10, <1>11, <1>12 DEF IInv

(* What appendData makes of the state of the slot.                            *)
LEMMA NewState ==
    ASSUME NEW s, NEW segments
    PROVE  LET ready   == nSegmentsReady + IF s.parity THEN 0 ELSE 1
               fetched == Cardinality({r \in Segments : segments[r] = "fetched"} \cup {s})
               st      == StateWith(s, segments)
           IN  \/ st = "Ready" /\ ready = frame.data
               \/ st = "Assembling" /\ fetched < frame.data
               \/ st = state /\ ready # frame.data /\ ~(fetched < frame.data)
<1> DEFINE ready   == nSegmentsReady + IF s.parity THEN 0 ELSE 1
           fetched == Cardinality({r \in Segments : segments[r] = "fetched"} \cup {s})
<1>1. StateWith(s, segments) = CASE ready = frame.data -> "Ready"
                                 [] ready # frame.data /\ fetched < frame.data -> "Assembling"
                                 [] OTHER -> state
  BY DEF StateWith
<1> HIDE DEF ready, fetched
<1>2. \/ StateWith(s, segments) = "Ready" /\ ready = frame.data
      \/ StateWith(s, segments) = "Assembling" /\ fetched < frame.data
      \/ StateWith(s, segments) = state /\ ready # frame.data /\ ~(fetched < frame.data)
  BY <1>1
<1> QED
  BY <1>2 DEF ready, fetched

LEMMA AppendDataKeeps ==
    ASSUME IInv, NEW s \in Segments, AppendData(s)
    PROVE  IInv' /\ (hasMeta /\ state = "New" => state' # "Assembling")
<1> DEFINE segments == WithMeta.segments
           missing  == {r \in Segments : segments[r] = "missing"}
           newState == StateWith(s, segments)
           again    == IF state = "New" /\ newState = "Assembling"
                       THEN {r \in Segments \ {s} : segments[r] = "missing"} ELSE {}
<1>1. /\ s \in Wanted
      /\ state \in {"New", "Assembling"}
      /\ nSegmentsPending # 0
      /\ ~(hasMeta /\ s \in fecSegmentList)
      /\ hasMeta' = TRUE
      /\ state' = newState
      /\ fecSegmentList' = fecSegmentList \cup {s}
      /\ activeSegments' = [r \in Segments |-> CASE r = s -> "fetched"
                                                 [] r \in again -> "pending"
                                                 [] OTHER -> segments[r]]
      /\ asked' = asked \cup again
      /\ nSegmentsPending' = nSegmentsPending - 1 + Cardinality(again)
      /\ nSegmentsMissing' = WithMeta.missing - Cardinality(again)
      /\ nSegmentsReady' = nSegmentsReady + IF s.parity THEN 0 ELSE 1
      /\ nSegmentsParityReady' = nSegmentsParityReady + IF s.parity THEN 1 ELSE 0
      /\ UNCHANGED <<frame, isRecovered, nRtx>>
  BY DEF AppendData, Dropped
<1>2. /\ TypeOK /\ PendingCovers /\ NothingForgotten /\ ReadyIsComplete
      /\ AskedIsWaitedFor /\ FetchedIsKnown /\ RecoveredIsDone
  BY DEF IInv
<1>3. ~isRecovered
  <2>1. s \in FrameSegments
    BY <1>1, <1>2, FrameTyped
  <2>2. isRecovered => hasMeta /\ FrameSegments \subseteq fecSegmentList
    BY <1>2 DEF FetchedIsKnown, RecoveredIsDone
  <2> QED
    BY <1>1, <2>1, <2>2
<1>4. /\ s \in FrameSegments /\ s \notin In("fetched")
      /\ s \in asked => s \in In("pending")
  BY <1>1, <1>2, FrameTyped DEF AskedIsWaitedFor, FetchedIsKnown
<1>5. /\ segments \in [Segments -> SegmentStates]
      /\ \A r \in Segments : segments[r] = "fetched" <=> r \in In("fetched")
      /\ \A r \in Segments : segments[r] = "pending" => r \in In("pending")
      /\ \A r \in FrameSegments \cap In("pending") : segments[r] = "pending"
      /\ WithMeta.missing = Cardinality(missing) + Cardinality(Unsolicited)
      /\ \A r \in Wanted : segments[r] # "not used"
      /\ hasMeta => \A r \in FrameData : segments[r] # "missing"
  BY <1>1, Met
<1> HIDE DEF segments
<1>6. /\ s \in asked => segments[s] = "pending" /\ s \notin missing
      /\ s \notin asked => segments[s] = "missing" /\ s \in missing /\ s \notin In("pending")
      /\ missing \subseteq Segments
  <2>1. CASE s \in asked
    BY <1>4, <1>5, <2>1
  <2>2. CASE s \notin asked
    <3>1. s \notin In("pending")
      BY <1>2, <2>2 DEF AskedIsWaitedFor
    <3>2. segments[s] \notin {"pending", "fetched", "not used"} /\ segments[s] \in SegmentStates
      BY <1>1, <1>4, <1>5, <3>1
    <3> QED
      BY <2>2, <3>1, <3>2 DEF SegmentStates
  <2> QED
    BY <2>1, <2>2
<1>7. again = (IF state = "New" /\ newState = "Assembling" THEN missing \ {s} ELSE {})
  BY <1>6
<1>8. In("fetched") \subseteq Segments /\ In("pending") \subseteq Segments
  BY DEF In
<1>9. {r \in Segments : segments[r] = "fetched"} = In("fetched")
  BY <1>5, <1>8
<1>10. \/ newState = "Ready"
          /\ nSegmentsReady + (IF s.parity THEN 0 ELSE 1) = frame.data
       \/ newState = "Assembling" /\ Cardinality(In("fetched") \cup {s}) < frame.data
       \/ newState = state /\ ~(Cardinality(In("fetched") \cup {s}) < frame.data)
  <2>1. LET ready   == nSegmentsReady + IF s.parity THEN 0 ELSE 1
            fetched == Cardinality({r \in Segments : segments[r] = "fetched"} \cup {s})
            st      == StateWith(s, segments)
        IN  \/ st = "Ready" /\ ready = frame.data
            \/ st = "Assembling" /\ fetched < frame.data
            \/ st = state /\ ready # frame.data /\ ~(fetched < frame.data)
    BY NewState
  <2> QED
    BY <1>9, <2>1
<1> HIDE DEF newState, missing, again
<1>11. newState \in {"New", "Assembling", "Ready"}
  BY <1>1, <1>10
<1>12. again \subseteq missing \ {s}
  BY <1>7
<1>13. /\ In("fetched")' = In("fetched") \cup {s}
       /\ In("missing")' = (missing \ {s}) \ again
       /\ In("pending")' = ({r \in Segments : segments[r] = "pending"} \ {s}) \cup again
  <2>0. s \notin again
    BY <1>6, <1>12
  <2>1. \A r \in Segments : /\ r = s => activeSegments'[r] = "fetched"
                            /\ r # s /\ r \in again => activeSegments'[r] = "pending"
                            /\ r # s /\ r \notin again => activeSegments'[r] = segments[r]
    BY <1>1, <2>0
  <2>2. \A r \in again : r \in Segments /\ segments[r] = "missing" /\ r # s
    BY <1>6, <1>12 DEF missing
  <2>3. In("fetched")' = In("fetched") \cup {s}
    BY <1>5, <1>8, <2>1, <2>2 DEF In
  <2>4. In("missing")' = (missing \ {s}) \ again
    BY <2>1, <2>2 DEF In, missing
  <2>5. In("pending")' = ({r \in Segments : segments[r] = "pending"} \ {s}) \cup again
    BY <2>1, <2>2 DEF In
  <2> QED
    BY <2>3, <2>4, <2>5
<1>14. /\ frame' = frame /\ FrameData' = FrameData /\ FrameSegments' = FrameSegments
       /\ Wanted' = Wanted /\ isRecovered' = isRecovered
  BY <1>1 DEF FrameData, FrameParity, FrameSegments, Wanted
<1>15. again \subseteq Segments /\ Cardinality(again) \in Nat /\ Cardinality(missing) \in Nat
       /\ Cardinality(again) <= Cardinality(missing)
  BY <1>6, <1>12, InFinite
<1>25. /\ Cardinality(Unsolicited) \in Nat /\ Cardinality(Unsolicited') \in Nat
       /\ s \in asked => Cardinality(Unsolicited') = Cardinality(Unsolicited)
       /\ s \notin asked => Cardinality(Unsolicited') = Cardinality(Unsolicited) + 1
  <2>1. In("fetched") \cap again = {}
    BY <1>5, <1>8, <1>12 DEF missing
  <2>2. Unsolicited' = (In("fetched") \cup {s}) \ (asked \cup again)
    BY <1>1, <1>13 DEF Unsolicited
  <2>3. s \in asked => Unsolicited' = Unsolicited
    BY <2>1, <2>2 DEF Unsolicited
  <2>4. s \notin asked => Unsolicited' = Unsolicited \cup {s}
    BY <1>12, <2>1, <2>2 DEF Unsolicited
  <2>5. IsFiniteSet(Unsolicited) /\ Cardinality(Unsolicited) \in Nat /\ s \notin Unsolicited
    <3>1. Unsolicited \subseteq Segments
      BY <1>8 DEF Unsolicited
    <3> QED
      BY <1>4, <3>1, InFinite DEF Unsolicited
  <2>6. Cardinality(Unsolicited \cup {s}) = Cardinality(Unsolicited) + 1
    BY <2>5, FS_AddElement
  <2> QED
    BY <2>3, <2>4, <2>5, <2>6
<1>16. nSegmentsPending \in Nat /\ nSegmentsPending >= 1 /\ nSegmentsReady \in Nat
       /\ nSegmentsParityReady \in Nat
  BY <1>1, <1>2 DEF TypeOK
<1>17. TypeOK'
  <2>1. activeSegments' \in [Segments -> SegmentStates]
    <3>1. s \notin again
      BY <1>6, <1>12
    <3>2. ASSUME NEW r \in Segments
          PROVE  (CASE r = s -> "fetched" [] r \in again -> "pending" [] OTHER -> segments[r])
                    \in SegmentStates
      BY <1>5, <3>1 DEF SegmentStates
    <3> QED
      BY <1>1, <3>2
  <2>2. nSegmentsPending' \in Nat
    BY <1>1, <1>15, <1>16
  <2>3. nSegmentsMissing' \in Nat
    <3>1. WithMeta.missing = Cardinality(missing) + Cardinality(Unsolicited)
      BY <1>5
    <3> QED
      BY <1>1, <1>15, <1>25, <3>1
  <2>4. nSegmentsReady' \in Nat /\ nSegmentsParityReady' \in Nat
    BY <1>1, <1>16
  <2> QED
    BY <1>1, <1>2, <1>11, <1>15, <2>1, <2>2, <2>3, <2>4 DEF TypeOK, SlotStates
<1>18. PendingCovers'
  <2> DEFINE left == {r \in Segments : segments[r] = "pending"} \ {s}
  <2>1. left \subseteq In("pending") \ {s}
    BY <1>5, <1>8
  <2>2. IsFiniteSet(In("pending")) /\ Cardinality(In("pending")) \in Nat /\ IsFiniteSet(again)
    BY <1>8, <1>15, InFinite
  <2>3. In("pending")' = left \cup again
    BY <1>13
  <2>4. CASE s \in asked
    <3>1. /\ Cardinality(left \cup again) \in Nat
          /\ Cardinality(left \cup again) <= (Cardinality(In("pending")) - 1) + Cardinality(again)
      <4> HIDE DEF left, again
      <4> QED
        BY <1>4, <2>1, <2>2, <2>4, CountMoved
    <3>2. nSegmentsPending + Cardinality(Unsolicited) >= Cardinality(In("pending"))
      BY <1>2 DEF PendingCovers
    <3>3. nSegmentsPending' + Cardinality(Unsolicited') >= Cardinality(left \cup again)
      BY <1>1, <1>15, <1>16, <1>25, <2>2, <2>4, <3>1, <3>2
    <3> QED
      BY <2>3, <3>3 DEF PendingCovers
  <2>5. CASE s \notin asked
    <3>1. left \cup again \subseteq Segments /\ left \subseteq In("pending")
      BY <1>8, <1>15, <2>1
    <3>2. /\ IsFiniteSet(left) /\ Cardinality(left) \in Nat
          /\ Cardinality(left) <= Cardinality(In("pending"))
      BY <2>2, <3>1, FS_Subset, FS_CardinalityType
    <3>3. /\ Cardinality(left \cup again) \in Nat
          /\ Cardinality(left \cup again) <= Cardinality(left) + Cardinality(again)
      <4>1. /\ Cardinality(left \cup again)
                  = Cardinality(left) + Cardinality(again) - Cardinality(left \cap again)
            /\ Cardinality(left \cap again) \in Nat
        BY <2>2, <3>2, FS_Union, FS_Intersection, FS_CardinalityType
      <4> QED
        BY <1>15, <3>1, <3>2, <4>1, InFinite
    <3>4. nSegmentsPending + Cardinality(Unsolicited) >= Cardinality(In("pending"))
      BY <1>2 DEF PendingCovers
    <3>5. nSegmentsPending' + Cardinality(Unsolicited') >= Cardinality(left \cup again)
      BY <1>1, <1>15, <1>16, <1>25, <2>2, <2>5, <3>2, <3>3, <3>4
    <3> QED
      BY <2>3, <3>5 DEF PendingCovers
  <2> QED
    BY <2>4, <2>5
<1>19. FetchedIsKnown'
  <2>1. In("fetched")' \subseteq FrameSegments' \cap fecSegmentList'
    BY <1>1, <1>2, <1>4, <1>13, <1>14 DEF FetchedIsKnown
  <2>3. Wanted' \cap In("not used")' = {}
    <3>1. \A r \in Wanted : r \in Segments /\ activeSegments'[r] # "not used"
      BY <1>1, <1>2, <1>5, FrameTyped
    <3> QED
      BY <1>14, <3>1 DEF In
  <2>2. newState = "New" => frame.data = 1
    <3> SUFFICES ASSUME newState = "New" PROVE frame.data = 1
      OBVIOUS
    <3>1. state = "New" /\ ~(Cardinality(In("fetched") \cup {s}) < frame.data)
      BY <1>10
    <3>2. CASE hasMeta
      BY <1>2, <3>1, <3>2 DEF FetchedIsKnown
    <3>3. CASE ~hasMeta
      <4>1. In("fetched") \cup {s} = {s}
        BY <1>2, <3>3 DEF FetchedIsKnown
      <4>2. Cardinality({s}) = 1
        BY FS_Singleton
      <4>3. frame.data \in Nat \ {0}
        BY <1>2, FrameTyped
      <4> QED
        BY <3>1, <4>1, <4>2, <4>3
    <3> QED
      BY <3>2, <3>3
  <2> QED
    BY <1>1, <1>11, <1>14, <2>1, <2>2, <2>3 DEF FetchedIsKnown
<1>20. ReadyIsComplete'
  <2>1. In("fetched")' \cap DataSegments
           = IF s.parity THEN In("fetched") \cap DataSegments
             ELSE (In("fetched") \cap DataSegments) \cup {s}
    <3>1. \/ s \in DataSegments /\ s.parity = FALSE
          \/ s \notin DataSegments /\ s.parity = TRUE
      BY SegmentFields DEF Segments
    <3> QED
      BY <1>13, <3>1
  <2>2. IsFiniteSet(In("fetched") \cap DataSegments)
        /\ Cardinality(In("fetched") \cap DataSegments) \in Nat
    <3>1. In("fetched") \cap DataSegments \subseteq Segments
      BY <1>8
    <3> QED
      BY <3>1, InFinite
  <2>3. Cardinality((In("fetched") \cap DataSegments) \cup {s})
           = Cardinality(In("fetched") \cap DataSegments) + 1
    BY <1>4, <2>2, FS_AddElement
  <2>4. nSegmentsReady = Cardinality(In("fetched") \cap DataSegments)
    BY <1>2, <1>3 DEF ReadyIsComplete
  <2>5. nSegmentsReady' = Cardinality(In("fetched")' \cap DataSegments)
    <3>1. CASE s.parity = TRUE
      <4>1. nSegmentsReady' = nSegmentsReady + 0
        BY <1>1, <3>1
      <4>2. In("fetched")' \cap DataSegments = In("fetched") \cap DataSegments
        BY <2>1, <3>1
      <4> QED
        BY <2>2, <2>4, <4>1, <4>2
    <3>2. CASE s.parity = FALSE
      <4>1. nSegmentsReady' = nSegmentsReady + 1
        BY <1>1, <3>2
      <4>2. In("fetched")' \cap DataSegments = (In("fetched") \cap DataSegments) \cup {s}
        BY <2>1, <3>2
      <4> QED
        BY <2>3, <2>4, <4>1, <4>2
    <3> QED
      BY <3>1, <3>2, SegmentFields DEF Segments
  <2>6. state' = "Ready" => FrameData' \subseteq In("fetched")'
    <3> SUFFICES ASSUME newState = "Ready" PROVE FrameData \subseteq In("fetched")'
      BY <1>1, <1>14
    <3>1. nSegmentsReady' = frame.data
      BY <1>1, <1>10
    <3>2. In("fetched")' \cap DataSegments \subseteq FrameData
      BY <1>2, <1>14, <1>19, FrameTyped DEF FetchedIsKnown
    <3>3. Cardinality(In("fetched")' \cap DataSegments) = Cardinality(FrameData)
          /\ IsFiniteSet(FrameData)
      BY <1>2, <2>5, <3>1, FrameTyped
    <3>4. In("fetched")' \cap DataSegments = FrameData
      BY <3>2, <3>3, FS_Subset
    <3> QED
      BY <3>4
  <2>7. nSegmentsMissing' = Cardinality(In("missing")') + Cardinality(Unsolicited')
    <3> DEFINE others == missing \ {s}
    <3>1. nSegmentsMissing'
             = (Cardinality(missing) + Cardinality(Unsolicited)) - Cardinality(again)
      BY <1>1, <1>5
    <3>2. /\ Cardinality(others) \in Nat
          /\ s \in asked => Cardinality(others) = Cardinality(missing)
          /\ s \notin asked => Cardinality(others) = Cardinality(missing) - 1
      <4>1. s \in asked => others = missing
        BY <1>6
      <4>2. s \notin asked => Cardinality(others) = Cardinality(missing) - 1
        BY <1>6, InFinite, FS_RemoveElement
      <4>3. others \subseteq Segments
        BY <1>6
      <4> QED
        BY <4>1, <4>2, <4>3, InFinite
    <3>3. Cardinality(others) + Cardinality(Unsolicited')
             = Cardinality(missing) + Cardinality(Unsolicited)
      BY <1>15, <1>25, <3>2
    <3>4. Cardinality(In("missing")') = Cardinality(others) - Cardinality(again)
      <4>1. CASE again = {}
        <5>1. Cardinality(again) = 0 /\ In("missing")' = others
          BY <1>13, <4>1, FS_EmptySet
        <5> HIDE DEF others
        <5> QED
          BY <3>2, <5>1
      <4>2. CASE again = others
        <5>1. In("missing")' = {} /\ Cardinality({}) = 0
          BY <1>13, <4>2, FS_EmptySet
        <5> HIDE DEF others
        <5> QED
          BY <3>2, <4>2, <5>1
      <4> QED
        BY <1>7, <4>1, <4>2
    <3> HIDE DEF others
    <3> QED
      BY <1>15, <1>25, <3>1, <3>2, <3>3, <3>4
  <2> QED
    BY <2>5, <2>6, <2>7 DEF ReadyIsComplete
<1>21. \A r \in FrameSegments \cap In("pending") : r \in In("pending")' \cup In("fetched")'
  BY <1>5, <1>8, <1>13
<1>22. AskedIsWaitedFor'
  <2>1. asked' \cap FrameSegments \subseteq In("pending")' \cup In("fetched")'
    BY <1>1, <1>2, <1>13, <1>21 DEF AskedIsWaitedFor
  <2>2. First \in asked'
    BY <1>1, <1>2 DEF AskedIsWaitedFor, First
  <2>3. In("pending")' \subseteq asked'
    BY <1>1, <1>2, <1>5, <1>13 DEF AskedIsWaitedFor
  <2> QED
    BY <1>14, <2>1, <2>2, <2>3 DEF AskedIsWaitedFor, First
<1>23. NothingForgotten'
  <2> SUFFICES ASSUME newState \in {"New", "Assembling"}, NEW r \in FrameData
               PROVE  r \in In("pending")' \cup In("fetched")'
    BY <1>1, <1>14 DEF NothingForgotten
  <2>1. r \in Segments /\ r \in FrameSegments
    BY <1>2, FrameTyped DEF FrameSegments
  <2>0. r \in Wanted
    BY <1>2, FrameTyped
  <2>2. CASE segments[r] = "pending" \/ segments[r] = "fetched"
    BY <1>5, <1>13, <2>1, <2>2
  <2>3. CASE segments[r] = "missing"
    <3>1. ~hasMeta /\ state = "New" /\ r \in missing
      BY <1>1, <1>2, <1>5, <2>1, <2>3 DEF FetchedIsKnown, missing
    <3>2. CASE newState = "Assembling"
      <4>1. r = s \/ r \in again
        BY <1>7, <3>1, <3>2
      <4> QED
        BY <1>13, <4>1
    <3>3. CASE newState = "New"
      <4>1. frame.data = 1
        BY <1>1, <1>14, <1>19, <3>3 DEF FetchedIsKnown
      <4>2. r = First
        BY <1>2, <4>1, FrameTyped
      <4>3. r \in asked \cap FrameSegments
        BY <1>1, <1>2, <2>1, <4>2 DEF AskedIsWaitedFor, First
      <4>4. r \in In("pending")
        BY <1>2, <3>1, <4>3 DEF AskedIsWaitedFor, FetchedIsKnown
      <4> QED
        BY <1>21, <2>1, <4>4
    <3> QED
      BY <3>2, <3>3
  <2> QED
    BY <1>5, <2>0, <2>1, <2>2, <2>3 DEF SegmentStates
<1>24. RecoveredIsDone'
  BY <1>3, <1>14 DEF RecoveredIsDone
<1>26. hasMeta /\ state = "New" => state' # "Assembling"
  <2> SUFFICES ASSUME hasMeta, state = "New", newState = "Assembling" PROVE FALSE
    BY <1>1
  <2>1. frame.data = 1
    BY <1>2 DEF FetchedIsKnown
  <2>2. Cardinality(In("fetched") \cup {s}) < 1
    BY <1>10, <2>1
  <2>3. In("fetched") \cup {s} \subseteq Segments /\ {s} \subseteq In("fetched") \cup {s}
    BY <1>8
  <2>4. Cardinality({s}) <= Cardinality(In("fetched") \cup {s}) /\ Cardinality({s}) = 1
        /\ Cardinality(In("fetched") \cup {s}) \in Nat
    BY <2>3, InFinite, FS_Singleton
  <2> QED
    BY <2>2, <2>4
<1> QED
  BY <1>17, <1>18, <1>19, <1>20, <1>22, <1>23, <1>24, <1>26 DEF IInv

LEMMA RecoverKeeps == ASSUME IInv, Recover PROVE IInv'
<1>1. /\ state \in {"New", "Assembling"} /\ hasMeta /\ isRecovered' = TRUE
      /\ nSegmentsReady' = frame.data /\ fecSegmentList' = FrameSegments
      /\ UNCHANGED <<frame, asked, state, hasMeta, activeSegments, nSegmentsPending,
                     nSegmentsMissing, nSegmentsParityReady, nRtx>>
  BY DEF Recover, FrameSegments
<1>2. /\ TypeOK /\ PendingCovers /\ NothingForgotten /\ ReadyIsComplete
      /\ AskedIsWaitedFor /\ FetchedIsKnown
  BY DEF IInv
<1>3. /\ \A st : In(st)' = In(st)
      /\ FrameData' = FrameData /\ FrameSegments' = FrameSegments /\ Wanted' = Wanted
      /\ Unsolicited' = Unsolicited
  BY <1>1 DEF In, FrameData, FrameParity, FrameSegments, Wanted, Unsolicited
<1>4. TypeOK'
  BY <1>1, <1>2, FrameTyped DEF TypeOK
<1>5. PendingCovers' /\ NothingForgotten' /\ AskedIsWaitedFor'
  BY <1>1, <1>2, <1>3 DEF PendingCovers, NothingForgotten, AskedIsWaitedFor
<1>6. ReadyIsComplete'
  BY <1>1, <1>2, <1>3 DEF ReadyIsComplete
<1>7. FetchedIsKnown'
  BY <1>1, <1>2, <1>3 DEF FetchedIsKnown
<1>8. RecoveredIsDone'
  BY <1>1, <1>3 DEF RecoveredIsDone
<1> QED
  BY <1>4, <1>5, <1>6, <1>7, <1>8 DEF IInv

(* A retransmission moves nRtx_ only.                                         *)
LEMMA RetransmitKeeps ==
    ASSUME IInv, nRtx' \in Nat,
           UNCHANGED <<frame, asked, state, hasMeta, activeSegments, fecSegmentList,
                       counters, isRecovered>>
    PROVE  IInv'
<1>1. /\ \A st : In(st)' = In(st)
      /\ FrameData' = FrameData /\ FrameSegments' = FrameSegments /\ Wanted' = Wanted
      /\ Unsolicited' = Unsolicited
  BY DEF In, FrameData, FrameParity, FrameSegments, Wanted, Unsolicited
<1>2. TypeOK'
  BY DEF IInv, TypeOK, counters
<1> QED
  BY <1>1, <1>2 DEF IInv, PendingCovers, NothingForgotten, ReadyIsComplete, AskedIsWaitedFor,
                    FetchedIsKnown, RecoveredIsDone, counters

LEMMA ResetKeeps == ASSUME IInv, Reset PROVE IInv'
<1>1. activeSegments' \in [Segments -> SegmentStates]
      /\ \A s \in Segments : activeSegments'[s] = "not used"
  BY DEF Reset, SegmentStates
<1>2. TypeOK'
  BY <1>1 DEF Reset, IInv, TypeOK, SlotStates
<1>3. In("pending")' = {} /\ In("fetched")' = {} /\ In("missing")' = {}
  BY <1>1 DEF In
<1>4. PendingCovers' /\ ReadyIsComplete'
  <2>1. In("fetched")' \cap DataSegments = {} /\ Unsolicited' = {}
    BY <1>3 DEF Unsolicited
  <2>2. /\ Cardinality(In("pending")') = 0 /\ Cardinality(In("missing")') = 0
        /\ Cardinality(In("fetched")' \cap DataSegments) = 0
        /\ Cardinality(Unsolicited') = 0
    BY <1>3, <2>1, FS_EmptySet
  <2>3. /\ nSegmentsPending' = 0 /\ nSegmentsMissing' = 0 /\ nSegmentsReady' = 0
        /\ state' = "Free"
    BY DEF Reset
  <2>4. PendingCovers'
    BY <2>2, <2>3 DEF PendingCovers
  <2> QED
    BY <2>2, <2>3, <2>4 DEF ReadyIsComplete
<1> QED
  BY <1>2, <1>3, <1>4 DEF Reset, IInv, NothingForgotten, AskedIsWaitedFor, FetchedIsKnown,
                          RecoveredIsDone

LEMMA NextKeeps == ASSUME IInv, [Next]_vars PROVE IInv'
<1>1. CASE Retransmit
  <2>1. nRtx' \in Nat
    BY <1>1 DEF Retransmit
  <2> QED
    BY <1>1, <2>1, RetransmitKeeps DEF Retransmit
<1>2. CASE UNCHANGED vars
  <2>1. nRtx' \in Nat
    BY <1>2 DEF vars, IInv, TypeOK
  <2> QED
    BY <1>2, <2>1, RetransmitKeeps DEF vars
<1> QED
  BY <1>1, <1>2, PrefetchKeeps, AppendDataKeeps, RecoverKeeps, ResetKeeps DEF Next

LEMMA IInvAlways == Spec => []IInv
  BY InitHolds, NextKeeps, PTL DEF Spec

-----------------------------------------------------------------------------
(* Type correctness: no counter ever goes below 0.                            *)
THEOREM TypeCorrect == Spec => []TypeOK
<1>1. IInv => TypeOK
  BY DEF IInv
<1> QED
  BY <1>1, IInvAlways, PTL

(* nSegmentsPending_ falls below what is waited for by no more than the data
   that came unsolicited: without such data appendData never drops a segment
   that is waited for.                                                        *)
THEOREM PendingCounted == Spec => []PendingCovers
<1>1. IInv => PendingCovers
  BY DEF IInv
<1> QED
  BY <1>1, IInvAlways, PTL

(* A frame that has begun to assemble can be completed, whatever the estimate
   of its segments was.                                                       *)
THEOREM AllAskedFor == Spec => []NothingForgotten
<1>1. IInv => NothingForgotten
  BY DEF IInv
<1> QED
  BY <1>1, IInvAlways, PTL

(* A Ready slot has all its data, and the counters agree with the map, but for
   the unsolicited segments, each counted missing once.                       *)
THEOREM ReadyHasAll == Spec => []ReadyIsComplete
<1>1. IInv => ReadyIsComplete
  BY DEF IInv
<1> QED
  BY <1>1, IInvAlways, PTL

(* Data takes a slot where PlaybackBuffer says that it may.                    *)
THEOREM AppendsWherePromised == Spec => AppendsAsPromised
<1> DEFINE Promised ==
              \/ SlotState' = SlotState
              \/ SlotState = "free" /\ SlotState' = "new"
              \/ SlotState' = "free"
              \/ SlotState \in Buffer!Unfinished /\ SlotState' \in Buffer!Appended(SlotState)
<1>1. ASSUME IInv, [Next]_vars PROVE Promised
  <2>1. /\ state \in SlotStates /\ state' \in SlotStates /\ hasMeta \in BOOLEAN
        /\ state = "Free" => ~hasMeta
        /\ state \in {"Assembling", "Ready"} => hasMeta
    BY <1>1, NextKeeps DEF IInv, TypeOK, FetchedIsKnown
  <2>2. CASE \E data, prefetchSize \in 1..MaxData, parity, parityPrefetchSize \in 0..MaxParity :
                PrefetchFrame(data, parity, prefetchSize, parityPrefetchSize)
    <3>1. state = "Free" /\ state' = "New" /\ hasMeta' = hasMeta
      BY <2>2 DEF PrefetchFrame
    <3> QED
      BY <2>1, <3>1 DEF SlotState
  <2>3. ASSUME NEW s \in Segments, AppendData(s) PROVE Promised
    <3>1. /\ state \in {"New", "Assembling"} /\ hasMeta' = TRUE
          /\ state' \in {"Ready", "Assembling", state}
      BY <2>3, NewState DEF AppendData, Dropped
    <3>2. hasMeta /\ state = "New" => state' # "Assembling"
      BY <1>1, <2>3, AppendDataKeeps
    <3> QED
      BY <2>1, <3>1, <3>2 DEF SlotState, Buffer!Unfinished, Buffer!Appended
  <2>4. CASE Recover \/ Retransmit \/ UNCHANGED vars
    <3>1. state' = state /\ hasMeta' = hasMeta
      BY <2>4 DEF Recover, Retransmit, vars
    <3> QED
      BY <3>1 DEF SlotState
  <2>5. CASE Reset
    BY <2>5 DEF Reset, SlotState
  <2> QED
    BY <1>1, <2>2, <2>3, <2>4, <2>5 DEF Next
<1>2. IInv /\ [Next]_vars => [Promised]_vars
  BY <1>1
<1> HIDE DEF Promised
<1>3. Spec => [][Promised]_vars
  BY <1>2, IInvAlways, PTL DEF Spec
<1> QED
  BY <1>3 DEF AppendsAsPromised, Promised
=============================================================================
