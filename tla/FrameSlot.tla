------------------------------ MODULE FrameSlot ------------------------------
(***************************************************************************)
(* A slot of FrameBuffer: the segments of one frame, from the first Interest *)
(* to the release of the slot.  The frame is cut into `frame.data' data      *)
(* segments and `frame.parity' parity segments; the consumer knows neither   *)
(* number before the first segment has come and asks for an estimate, so it  *)
(* may ask for segments that do not exist and miss some that do.             *)
(*                                                                         *)
(* The slot counts its segments by their state in nSegments... and keeps    *)
(* the states themselves in activeSegments_: two views that every operation  *)
(* updates by hand.  appendData goes by the counters.                        *)
(*                                                                         *)
(* Data comes for what has been asked for in this run of the slot, or for    *)
(* what was asked for in an earlier one: its Interests are not withdrawn     *)
(* when the slot is reset, and a slot that is reserved again for the frame   *)
(* takes what they bring.                                                    *)
(*                                                                         *)
(* Data that is no segment (segmentDataFromRaw fails) changes nothing once a *)
(* segment has come.  As the first of a slot it ends the program: newData    *)
(* logs the number of a recentSegment_ that is null.  There is no state to   *)
(* go on from, and no action for it.                                         *)
(***************************************************************************)
EXTENDS Integers, FiniteSets

CONSTANTS
    MaxData,      \* bound: data segments of a frame, and of an estimate
    MaxParity,    \* bound: parity segments of a frame, and of an estimate
    useFec,
    useRtx

ASSUME SegmentsAssumption == MaxData \in Nat \ {0} /\ MaxParity \in Nat
ASSUME OptionsAssumption == useFec \in BOOLEAN /\ useRtx \in BOOLEAN

DataSegments   == [parity : {FALSE}, no : 0..(MaxData - 1)]
ParitySegments == [parity : {TRUE}, no : 0..(MaxParity - 1)]
Segments == DataSegments \cup ParitySegments

(* "not used": there is no entry in activeSegments_.                        *)
SegmentStates == {"not used", "pending", "missing", "fetched"}
SlotStates == {"Free", "New", "Assembling", "Ready"}

VARIABLES
    frame,                \* what the producer made of the frame
    asked,                \* history: what this run of the slot has sent Interests for
    state,
    hasMeta,              \* consistency_ & PrefixMeta
    activeSegments,
    fecSegmentList,       \* what is READY or REPAIRED in it
    nSegmentsReady, nSegmentsPending, nSegmentsMissing, nSegmentsParityReady,
    isRecovered,
    nRtx

counters == <<nSegmentsReady, nSegmentsPending, nSegmentsMissing, nSegmentsParityReady>>
vars == <<frame, asked, state, hasMeta, activeSegments, fecSegmentList,
          counters, isRecovered, nRtx>>

FrameData   == {s \in DataSegments : s.no < frame.data}
FrameParity == {s \in ParitySegments : s.no < frame.parity}
Wanted      == FrameData \cup (IF useFec THEN FrameParity ELSE {})
In(st) == {s \in Segments : activeSegments[s] = st}

Init ==
    /\ frame = [data |-> 1, parity |-> 0]
    /\ asked = {}
    /\ state = "Free"
    /\ hasMeta = FALSE
    /\ activeSegments = [s \in Segments |-> "not used"]
    /\ fecSegmentList = {}
    /\ nSegmentsReady = 0
    /\ nSegmentsPending = 0
    /\ nSegmentsMissing = 0
    /\ nSegmentsParityReady = 0
    /\ isRecovered = FALSE
    /\ nRtx = 0

-----------------------------------------------------------------------------
(* prefetchFrame -> interestRangeIssued -> reserveSlot, addInterest: the slot
   is taken for a frame and a range of data and parity segments is asked for. *)
PrefetchFrame(data, parity, prefetchSize, parityPrefetchSize) ==
    LET range == {s \in DataSegments : s.no < prefetchSize}
                 \cup {s \in ParitySegments : useFec /\ s.no < parityPrefetchSize}
    IN  /\ state = "Free"
        /\ frame' = [data |-> data, parity |-> parity]
        /\ asked' = range
        /\ state' = "New"
        /\ activeSegments' = [s \in Segments |-> IF s \in range THEN "pending" ELSE "not used"]
        /\ nSegmentsPending' = Cardinality(range)
        /\ UNCHANGED <<hasMeta, fecSegmentList, nSegmentsReady, nSegmentsMissing,
                       nSegmentsParityReady, isRecovered, nRtx>>

(* refineActiveSegments drops entries for segments the frame does not have,
   in the order of the map (parity segments, the last first, then data
   segments), until there are no more entries than the frame has segments.
   The counters stay.                                                       *)
MapIndex(s) == IF s.parity THEN -(s.no + 1) ELSE s.no
Used == Segments \ In("not used")
Superfluous == {s \in Used : s.no >= IF s.parity THEN frame.parity ELSE frame.data}
Excess == Cardinality(Used) - (frame.data + frame.parity)
Refined == {s \in Superfluous :
              Cardinality({r \in Superfluous : MapIndex(r) < MapIndex(s)}) < Excess}

(* Mutant: off by one, the last segment is never found missing.             *)
UnaskedButLast == {s \in Wanted : activeSegments[s] = "not used" /\ s.no < frame.data - 1}

(* initMissingSegments and initMissingParitySegments.                       *)
Unasked == {s \in Wanted : activeSegments[s] = "not used"}

(* Mutant: what is found missing is not counted.                            *)
WithMetaUncounted ==
    [segments |-> IF hasMeta THEN activeSegments
                  ELSE [s \in Segments |-> CASE s \in Refined -> "not used"
                                              [] s \in Unasked -> "missing"
                                              [] OTHER -> activeSegments[s]],
     missing  |-> nSegmentsMissing]

(* What the first segment tells of the frame.                               *)
WithMeta ==
    IF hasMeta THEN [segments |-> activeSegments, missing |-> nSegmentsMissing]
    ELSE [segments |-> [s \in Segments |-> CASE s \in Refined -> "not used"
                                             [] s \in Unasked -> "missing"
                                             [] OTHER -> activeSegments[s]],
          missing  |-> nSegmentsMissing + Cardinality(Unasked)]

(* Mutant: a duplicate is taken like any other segment.                     *)
DroppedUnlessDuplicate(s) ==
    \/ state \notin {"New", "Assembling"}
    \/ nSegmentsPending = 0

(* What appendData returns early on.                                        *)
Dropped(s) ==
    \/ state \notin {"New", "Assembling"}
    \/ nSegmentsPending = 0
    \/ hasMeta /\ s \in fecSegmentList        \* a duplicate

(* Mutant: parity segments count like data segments.                        *)
StateWithAny(s, segments) ==
    LET fetched == Cardinality({r \in Segments : segments[r] = "fetched"} \cup {s})
    IN  IF fetched >= frame.data THEN "Ready" ELSE "Assembling"

(* Mutant: a slot that has enough segments but not all the data is new.     *)
StateWithNew(s, segments) ==
    LET ready   == nSegmentsReady + IF s.parity THEN 0 ELSE 1
        fetched == Cardinality({r \in Segments : segments[r] = "fetched"} \cup {s})
    IN  CASE ready = frame.data -> "Ready"
          [] ready # frame.data /\ fetched < frame.data -> "Assembling"
          [] OTHER -> "New"

(* appendData decides the state of the slot: complete when all the data has
   been received; a slot that has got parity segments only, as many as the
   frame has data segments, stays as it was.                                *)
StateWith(s, segments) ==
    LET ready   == nSegmentsReady + IF s.parity THEN 0 ELSE 1
        fetched == Cardinality({r \in Segments : segments[r] = "fetched"} \cup {s})
    IN  CASE ready = frame.data -> "Ready"
          [] ready # frame.data /\ fetched < frame.data -> "Assembling"
          [] OTHER -> state

(* FrameBuffer::newData -> appendData for a segment of the frame, asked for in
   this run of the slot or in an earlier one, and after the first one
   requestMissing -> express -> interestIssued -> addInterest: every missing
   segment is asked for and is pending again.                               *)
AppendData(s) ==
    LET met      == WithMeta
        newState == StateWith(s, met.segments)
        again    == IF state = "New" /\ newState = "Assembling"
                    THEN {r \in Segments \ {s} : met.segments[r] = "missing"} ELSE {}
    IN  /\ s \in Wanted
        /\ ~Dropped(s)
        /\ hasMeta' = TRUE
        /\ state' = newState
        /\ fecSegmentList' = fecSegmentList \cup {s}
        /\ activeSegments' = [r \in Segments |-> CASE r = s -> "fetched"
                                                   [] r \in again -> "pending"
                                                   [] OTHER -> met.segments[r]]
        /\ asked' = asked \cup again
        /\ nSegmentsPending' = nSegmentsPending - 1 + Cardinality(again)
        /\ nSegmentsMissing' = met.missing - Cardinality(again)
        /\ nSegmentsReady' = nSegmentsReady + IF s.parity THEN 0 ELSE 1
        /\ nSegmentsParityReady' = nSegmentsParityReady + IF s.parity THEN 1 ELSE 0
        /\ UNCHANGED <<frame, isRecovered, nRtx>>

(* recover: FEC restores the frame from as many segments as it has data
   segments.  It needs a part of the data, repairs every segment that is
   missing, parity segments too, and says nothing to the slot's state.      *)
Recoverable ==
    /\ 0 < nSegmentsReady /\ nSegmentsReady < frame.data
    /\ frame.parity > 0
    /\ Cardinality(fecSegmentList) >= frame.data

(* checkRetransmissions for this slot: what cannot be recovered is asked for
   again, once.                                                             *)
Recover ==
    /\ useRtx
    /\ state \in {"New", "Assembling"}
    /\ hasMeta
    /\ Recoverable
    /\ isRecovered' = TRUE
    /\ nSegmentsReady' = frame.data
    /\ fecSegmentList' = FrameData \cup FrameParity
    /\ UNCHANGED <<frame, asked, state, hasMeta, activeSegments, nSegmentsPending,
                   nSegmentsMissing, nSegmentsParityReady, nRtx>>

(* onRetransmissionNeeded marks every pending segment missing and expresses
   an Interest for it, which makes it pending again: only nRtx_ moves.      *)
Retransmit ==
    /\ useRtx
    /\ state \in {"New", "Assembling"}
    /\ ~Recoverable
    /\ ~isRecovered
    /\ nRtx = 0
    /\ In("pending") # {}
    /\ nRtx' = 1
    /\ UNCHANGED <<frame, asked, state, hasMeta, activeSegments, fecSegmentList,
                   counters, isRecovered>>

(* The slot has been played, cleaned or flushed: Slot::reset.               *)
Reset ==
    /\ state # "Free"
    /\ asked' = {}
    /\ state' = "Free"
    /\ hasMeta' = FALSE
    /\ activeSegments' = [s \in Segments |-> "not used"]
    /\ fecSegmentList' = {}
    /\ nSegmentsReady' = 0
    /\ nSegmentsPending' = 0
    /\ nSegmentsMissing' = 0
    /\ nSegmentsParityReady' = 0
    /\ isRecovered' = FALSE
    /\ nRtx' = 0
    /\ UNCHANGED frame

Next ==
    \/ \E data, prefetchSize \in 1..MaxData, parity, parityPrefetchSize \in 0..MaxParity :
          PrefetchFrame(data, parity, prefetchSize, parityPrefetchSize)
    \/ \E s \in Segments : AppendData(s)
    \/ Recover
    \/ Retransmit
    \/ Reset

Spec == Init /\ [][Next]_vars

-----------------------------------------------------------------------------
(* Type invariant; no counter ever goes below 0.                            *)
TypeOK ==
    /\ frame \in [data : 1..MaxData, parity : 0..MaxParity]
    /\ asked \subseteq Segments
    /\ state \in SlotStates
    /\ hasMeta \in BOOLEAN
    /\ activeSegments \in [Segments -> SegmentStates]
    /\ fecSegmentList \subseteq Segments
    /\ nSegmentsReady \in Nat
    /\ nSegmentsPending \in Nat
    /\ nSegmentsMissing \in Nat
    /\ nSegmentsParityReady \in Nat
    /\ isRecovered \in BOOLEAN
    /\ nRtx \in Nat

(* What an Interest of an earlier run has brought, that this run has not asked
   for: taken off nSegmentsPending_, that never counted it.                 *)
Unsolicited == In("fetched") \ asked

(* appendData drops everything while nSegmentsPending_ is 0, so the counter
   must not fall below the number of segments that are waited for.  It may
   exceed it: refineActiveSegments does not count what it drops.  It falls
   below it by no more than the data that came unsolicited: without such data
   nothing that is waited for is ever dropped, with it, as much of it may be. *)
PendingCovers ==
    nSegmentsPending + Cardinality(Unsolicited) >= Cardinality(In("pending"))

(* Every data segment that a frame turns out to have has come or is being
   waited for, whatever the estimate it was asked for by and whatever came
   first.                                                                   *)
NothingForgotten ==
    hasMeta /\ state \in {"New", "Assembling"} =>
        FrameData \subseteq In("pending") \cup In("fetched")

(* A slot is Ready when all its data, and not just enough segments, has come,
   and the counters agree with the map, but for the unsolicited segments:
   initMissingSegments counts them missing, and nothing takes that back.    *)
ReadyIsComplete ==
    /\ state = "Ready" => FrameData \subseteq In("fetched")
    /\ ~isRecovered => nSegmentsReady = Cardinality(In("fetched") \cap DataSegments)
    /\ nSegmentsMissing = Cardinality(In("missing")) + Cardinality(Unsolicited)

(* What the other modules take the slot for.                                *)
Buffer == INSTANCE PlaybackBuffer WITH GOP <- 1, MaxKey <- 0, MaxDelta <- 0, Slots <- 1

SlotState == CASE state = "Free" -> "free"
               [] state = "New" -> IF hasMeta THEN "met" ELSE "new"
               [] state = "Assembling" -> "assembling"
               [] state = "Ready" -> "ready"

(* Data takes a slot where PlaybackBuffer says it may, and nothing else but a
   reset ever takes it anywhere.                                            *)
AppendsAsPromised ==
    [][\/ SlotState' = SlotState
       \/ SlotState = "free" /\ SlotState' = "new"
       \/ SlotState' = "free"
       \/ SlotState \in Buffer!Unfinished /\ SlotState' \in Buffer!Appended(SlotState)]_vars

-----------------------------------------------------------------------------
(* The strengthening that makes them inductive.                              *)
FrameSegments == FrameData \cup FrameParity

(* What is asked for and exists is waited for or has come, the first data
   segment of a slot in use at least, and nothing else is waited for.        *)
AskedIsWaitedFor ==
    /\ In("pending") \subseteq asked
    /\ asked \cap FrameSegments \subseteq In("pending") \cup In("fetched")
    /\ state # "Free" => [parity |-> FALSE, no |-> 0] \in asked

(* What has come is a segment of the frame, that comes to nothing if it comes
   again; before the first one nothing is known, after it every segment is.  *)
FetchedIsKnown ==
    /\ In("fetched") \subseteq FrameSegments \cap fecSegmentList
    /\ ~hasMeta => In("fetched") = {} /\ In("missing") = {} /\ ~isRecovered
    /\ hasMeta => Wanted \cap In("not used") = {}
    /\ state = "Free" => ~hasMeta
    /\ state \in {"Assembling", "Ready"} => hasMeta
    /\ hasMeta /\ state = "New" => frame.data = 1

(* Nothing comes to a frame that has been recovered.                         *)
RecoveredIsDone ==
    isRecovered => FrameSegments \subseteq fecSegmentList /\ state \in {"New", "Assembling"}

IInv ==
    /\ TypeOK /\ PendingCovers /\ NothingForgotten /\ ReadyIsComplete
    /\ AskedIsWaitedFor /\ FetchedIsKnown /\ RecoveredIsDone
=============================================================================
