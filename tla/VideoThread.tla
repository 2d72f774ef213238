----------------------------- MODULE VideoThread -----------------------------
(***************************************************************************)
(* The producer of one video thread: VideoThread numbers the frames that     *)
(* the encoder delivers and publishes their segments; MediaThread keeps a    *)
(* PIT of its own for Interests that came before their data; what no entry  *)
(* of the PIT waits for goes into a MemoryContentCache, which answers the   *)
(* Interests that come later.                                               *)
(*                                                                         *)
(* The encoder's thread publishes a frame, and the background thread takes   *)
(* in an Interest, holding the face's mutex: each is one action.             *)
(***************************************************************************)
EXTENDS Integers, FiniteSets

CONSTANTS
    MaxKey, MaxDelta,      \* bound: the newest frames published
    MaxData, MaxParity,    \* bound: segments of a frame
    SendThrows,            \* publishing may throw between two segments
    useFec

ASSUME NumbersAssumption == MaxKey \in Nat /\ MaxDelta \in Nat
ASSUME SegmentsAssumption == MaxData \in Nat \ {0} /\ MaxParity \in Nat
ASSUME OptionsAssumption == useFec \in BOOLEAN /\ SendThrows \in BOOLEAN
ASSUME ParityAssumption == useFec => MaxParity > 0

Frames == [kind : {"key"}, no : 0..MaxKey] \cup [kind : {"delta"}, no : 0..MaxDelta]
SegmentsOf(f) == [frame : {f}, parity : {FALSE}, seg : 0..(MaxData - 1)]
                 \cup [frame : {f}, parity : {TRUE}, seg : 0..(MaxParity - 1)]
Segments == UNION {SegmentsOf(f) : f \in Frames}

(* The Interest for the newest key frame there is: the prefix of all keys.   *)
Rightmost == [frame |-> [kind |-> "key", no |-> -1], parity |-> FALSE, seg |-> -1]
Names == Segments \cup {Rightmost}

VARIABLES
    keyFrameNo,     \* the last key frame that was begun
    deltaFrameNo,   \* the next delta frame
    packetNo,       \* the next frame of either kind
    pit,            \* pit_: the names of the Interests in it
    cache,          \* the segments in memCache_, with the packet they are of
    wanted,         \* Interests the network has outstanding here
    published       \* history: the frames published completely

counters == <<keyFrameNo, deltaFrameNo, packetNo>>
vars == <<counters, pit, cache, wanted, published>>

Init ==
    /\ keyFrameNo = -1
    /\ deltaFrameNo = 0
    /\ packetNo = 0
    /\ pit = {}
    /\ cache = {}
    /\ wanted = {}
    /\ published = {}

Cached == {c.segment : c \in cache}
Matches(name, s) == name = s \/ (name = Rightmost /\ s.frame.kind = "key")

-----------------------------------------------------------------------------
(* MemoryContentCache::doCleanup: nothing, or what is older than some packet. *)
Cleanups == {{c \in cache : c.packet >= n} : n \in 0..packetNo}

(* Mutant: the test of MediaThread::onInterest, which VideoThread overrides:
   all frames are counted together.                                         *)
IsNewByPacket(name) == name = Rightmost \/ name.frame.no >= packetNo

(* Whether VideoThread::onInterest puts the Interest into the PIT.           *)
IsNew(name) ==
    \/ name = Rightmost
    \/ name.frame.no >= IF name.frame.kind = "key" THEN keyFrameNo ELSE deltaFrameNo

(* An Interest arrives: MemoryContentCache::operator(), onInterest, addToPit.
   The request for the rightmost key may exclude those in the cache.         *)
OnInterest(name) ==
    /\ name \notin wanted
    /\ cache' \in Cleanups
    /\ LET answers == {s \in {c.segment : c \in cache'} : Matches(name, s)}
       IN  \/ answers # {} /\ UNCHANGED <<pit, wanted>>
           \/ /\ answers = {} \/ name = Rightmost
              /\ wanted' = wanted \cup {name}
              /\ pit' = IF IsNew(name) THEN pit \cup {name} ELSE pit
    /\ UNCHANGED <<counters, published>>

(* The lifetime of an Interest ends: the network forgets it, the PIT of the
   thread does not.                                                         *)
Expire(name) ==
    /\ name \in wanted
    /\ wanted' = wanted \ {name}
    /\ UNCHANGED <<counters, pit, cache, published>>

-----------------------------------------------------------------------------
(* The PIT entries that lookupPrefixInPit finds for the first n data, or
   parity, segments of a frame: each its own and otherwise, once, the request
   for the rightmost key.                                                   *)
FirstSegments(f, parity, n) == {s \in SegmentsOf(f) : s.parity = parity /\ s.seg < n}

Hits(p, segments) ==
    LET others == {s \in segments \ p : s.frame.kind = "key" /\ Rightmost \in p}
    IN  (segments \cap p) \cup {s \in others : \A r \in others : s.seg <= r.seg}

LookedUp(p, segments) ==
    p \ (segments \cup (IF Hits(p, segments) \subseteq p THEN {} ELSE {Rightmost}))

(* Mutant: nothing is purged.                                               *)
CleanPitNever(p, f, parity) == p

(* cleanPitForFrame: what the frame turned out not to have; and the request
   for the rightmost key, whose name is shorter than the prefix, which
   isPrefix takes for a match.                                              *)
CleanPitForFrame(p, f, parity) ==
    {name \in p : name # Rightmost /\ ~(name.frame = f /\ name.parity = parity)}

(* publishPacket for n segments: a record of the PIT, the segments that were
   added to the cache and those that were sent to the network.  When it fails
   at segment i, its PIT entry is gone and it is not sent, those before it
   are out, and the PIT is not cleaned.                                     *)
Nothing == [pit |-> pit, added |-> {}, sent |-> {}]

PublishAll(from, f, parity, n) ==
    LET segments == FirstSegments(f, parity, n)
        hits == Hits(from.pit, segments)
    IN  [pit   |-> CleanPitForFrame(LookedUp(from.pit, segments), f, parity),
         added |-> from.added \cup (segments \ hits),
         sent  |-> from.sent \cup hits]

PublishUpTo(from, f, parity, i) ==
    LET segments == FirstSegments(f, parity, i)
        hits == Hits(from.pit, segments)
    IN  [pit   |-> LookedUp(from.pit, FirstSegments(f, parity, i + 1)),
         added |-> from.added \cup (segments \ hits),
         sent  |-> from.sent \cup hits]

(* It fails before the first segment when the transport is not connected or
   the packet cannot be cut, and at any segment when the library throws.     *)
Failures(from, f, parity, n) ==
    {from} \cup (IF SendThrows THEN {PublishUpTo(from, f, parity, i) : i \in 0..(n - 1)}
                               ELSE {})

(* What is added to the cache cleans it; what is sent satisfies the Interests
   that are outstanding.                                                    *)
Effect(result) ==
    /\ pit' = result.pit
    /\ cache' \in IF result.added = {} THEN {cache}
                  ELSE {c \cup [segment : result.added, packet : {packetNo}] : c \in Cleanups}
    /\ wanted' = {name \in wanted : ~\E s \in result.sent : Matches(name, s)}

(* The encoder begins with a key frame.                                     *)
Begins(kind) == kind = "key" \/ keyFrameNo >= 0

Begun(kind) == [kind |-> kind, no |-> IF kind = "key" THEN keyFrameNo + 1 ELSE deltaFrameNo]

(* Mutant: the key frame is paired with the delta frame before it.           *)
PairedSequenceNoBefore(f) == IF f.kind = "key" THEN deltaFrameNo - 1 ELSE keyFrameNo

PairedSequenceNo(f) == IF f.kind = "key" THEN deltaFrameNo ELSE keyFrameNo

(* Mutant: key frames have no packet number of their own.                    *)
PublishFrameKeyUncounted(kind, nData, nParity) ==
    LET f    == Begun(kind)
        data == PublishAll(Nothing, f, FALSE, nData)
    IN  /\ Begins(kind)
        /\ f \in Frames
        /\ \E result \in IF ~useFec THEN {data}
                         ELSE {PublishAll(data, f, TRUE, nParity)}
                              \cup Failures(data, f, TRUE, nParity) : Effect(result)
        /\ keyFrameNo' = IF kind = "key" THEN f.no ELSE keyFrameNo
        /\ deltaFrameNo' = IF kind = "delta" THEN f.no + 1 ELSE deltaFrameNo
        /\ packetNo' = IF kind = "key" THEN packetNo ELSE packetNo + 1
        /\ published' = published \cup {[frame |-> f, data |-> nData, packet |-> packetNo,
                                         paired |-> PairedSequenceNo(f)]}

(* onEncodedFrameDelivered, when the data is published, and the parity data
   or a part of it: whether that fails makes no difference to the numbers.   *)
PublishFrame(kind, nData, nParity) ==
    LET f    == Begun(kind)
        data == PublishAll(Nothing, f, FALSE, nData)
    IN  /\ Begins(kind)
        /\ f \in Frames
        /\ \E result \in IF ~useFec THEN {data}
                         ELSE {PublishAll(data, f, TRUE, nParity)}
                              \cup Failures(data, f, TRUE, nParity) : Effect(result)
        /\ keyFrameNo' = IF kind = "key" THEN f.no ELSE keyFrameNo
        /\ deltaFrameNo' = IF kind = "delta" THEN f.no + 1 ELSE deltaFrameNo
        /\ packetNo' = packetNo + 1
        /\ published' = published \cup {[frame |-> f, data |-> nData, packet |-> packetNo,
                                         paired |-> PairedSequenceNo(f)]}

(* Mutant: a key frame that fails gives its number again, as a delta does.   *)
FailFrameUncounted(kind, nData) ==
    LET f == Begun(kind)
    IN  /\ Begins(kind)
        /\ f \in Frames
        /\ \E result \in Failures(Nothing, f, FALSE, nData) : Effect(result)
        /\ UNCHANGED <<counters, published>>

(* onEncodedFrameDelivered, when publishing the data fails: only a key frame
   uses up its number.                                                      *)
FailFrame(kind, nData) ==
    LET f == Begun(kind)
    IN  /\ Begins(kind)
        /\ f \in Frames
        /\ \E result \in Failures(Nothing, f, FALSE, nData) : Effect(result)
        /\ keyFrameNo' = IF kind = "key" THEN f.no ELSE keyFrameNo
        /\ UNCHANGED <<deltaFrameNo, packetNo, published>>

(* getParitySegmentsNum rounds up: with FEC there is a parity segment.        *)
ParityNumbers == IF useFec THEN 1..MaxParity ELSE {0}

Next ==
    \/ \E name \in Names : OnInterest(name) \/ Expire(name)
    \/ \E kind \in {"key", "delta"}, nData \in 1..MaxData :
          \/ \E nParity \in ParityNumbers : PublishFrame(kind, nData, nParity)
          \/ FailFrame(kind, nData)

Spec == Init /\ [][Next]_vars

-----------------------------------------------------------------------------
(* Type invariant.                                                          *)
TypeOK ==
    /\ keyFrameNo \in -1..MaxKey
    /\ deltaFrameNo \in 0..(MaxDelta + 1)
    /\ packetNo \in 0..(MaxKey + MaxDelta + 2)
    /\ pit \subseteq Names
    /\ cache \subseteq [segment : Segments, packet : 0..packetNo]
    /\ wanted \subseteq Names
    /\ published \subseteq [frame : Frames, data : 1..MaxData, packet : 0..(packetNo - 1),
                            paired : -1..(MaxKey + MaxDelta + 1)]

(* Nobody waits for what there is: a segment that an Interest is outstanding
   for never lies in the cache, whichever of the two came first.             *)
NobodyOverlooked == wanted \cap Cached = {}

(* Where publishing throws, the number of a delta frame is given again, and
   the entries for its data are gone when it is.                             *)
SafeFromFailure(s) == s.frame.kind = "key" \/ s.parity \/ ~SendThrows

(* What NobodyOverlooked leaves true where publishing throws between two
   segments of a frame: nobody waits for key segments, parity segments or, if
   nothing throws, any segments that lie in the cache.                       *)
OnlyDeltaDataOverlooked == \A s \in wanted \cap Cached : ~SafeFromFailure(s)

(* The PIT forgets: of a delta frame that has been published it keeps no
   entry for data, not even for segments the frame did not have.             *)
PitForgets ==
    \A e \in published : \A name \in pit :
        e.frame.kind = "delta" => ~(name.frame = e.frame /\ ~name.parity)

(* The numbers of the frames, those the consumer orders and pairs them by,
   agree with each other whatever fails in between: no two frames share a
   name or a packet number, and the frames of a key are those between it and
   the next key.                                                            *)
NumbersAgree ==
    \A e, g \in published :
        /\ e = g \/ (e.frame # g.frame /\ e.packet # g.packet)
        /\ e.frame.kind = g.frame.kind => (e.frame.no < g.frame.no <=> e.packet < g.packet)
        /\ e.frame.kind = "key" /\ g.frame.kind = "delta" =>
              /\ e.packet < g.packet <=> e.frame.no <= g.paired
              /\ e.packet < g.packet <=> e.paired <= g.frame.no

-----------------------------------------------------------------------------
(* The strengthening that makes the invariants of the numbers inductive.      *)

(* The counters are past the frames that have been published: those that
   failed may have used up more key numbers, never less.                     *)
CountersPast ==
    /\ packetNo <= keyFrameNo + 1 + deltaFrameNo
    /\ \A e \in published :
          IF e.frame.kind = "key"
          THEN e.frame.no <= keyFrameNo /\ e.paired <= deltaFrameNo
          ELSE e.frame.no < deltaFrameNo /\ e.paired <= keyFrameNo

(* An Interest that came before its frame is in the PIT until the frame is
   begun.                                                                   *)
AwaitedInPit ==
    \A s \in wanted \cap Segments :
        /\ SafeFromFailure(s)
        /\ s.frame.no >= IF s.frame.kind = "key" THEN keyFrameNo + 1 ELSE deltaFrameNo
        => s \in pit

IInv == /\ TypeOK /\ CountersPast /\ NumbersAgree /\ PitForgets
        /\ AwaitedInPit /\ OnlyDeltaDataOverlooked

-----------------------------------------------------------------------------
(* What lookupPrefixInPit says: "check for rightmost prefixes".  A request
   for the rightmost key that is outstanding is answered by the next one.    *)
RightmostAnswered ==
    [][\A e \in published' \ published :
          e.frame.kind = "key" => Rightmost \notin wanted']_vars
=============================================================================
