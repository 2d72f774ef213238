-------------------------- MODULE Pipeliner2Proofs --------------------------
(***************************************************************************)
(* Proofs about Pipeliner2, for any stream, window, number of slots and     *)
(* bounds.  The inductive invariant is IInv: lemmas first for the operators *)
(* that the handlers are built from (the numbering, the buffer, the         *)
(* window), then for the handlers, then for the actions.                    *)
(***************************************************************************)
EXTENDS Pipeliner2, FiniteSetTheorems, WellFoundedInduction, TLAPS

BufferType == [slots : [Frames -> SlotStates], lastKey : Int, nextKey : Int]

-----------------------------------------------------------------------------
(* The numbering of frames.                                                 *)

(* Sequence, paired and playback numbers are natural numbers.                *)
LEMMA FrameNumbers ==
    ASSUME NEW f \in Frames
    PROVE  /\ f.no \in Nat
           /\ f.kind \in {"key", "delta"}
           /\ f.kind = "delta" <=> f \in Deltas
           /\ f.kind = "key" <=> f \in Keys
           /\ Paired(f) \in Nat
           /\ PlaybackNo(f) \in Nat
<1>1. f.no \in Nat /\ f.kind \in {"key", "delta"} /\ (f.kind = "delta" <=> f \in Deltas)
                   /\ (f.kind = "key" <=> f \in Keys)
    BY PacketsAssumption DEF Frames, Keys, Deltas
<1>2. ASSUME NEW n \in Nat PROVE n * GOP \in Nat /\ n * (GOP + 1) \in Nat
    BY GOPAssumption
<1>3. ASSUME NEW n \in Nat PROVE n \div GOP \in Nat
    BY GOPAssumption
<1>4. QED
    BY <1>1, <1>2, <1>3 DEF Paired, PlaybackNo

(* The bounds leave finitely many frames to speak of.                       *)
LEMMA FramesFinite == IsFiniteSet(Frames)
<1>1. ASSUME NEW kind, NEW m \in Int
      PROVE  IsFiniteSet([kind : {kind}, no : 0..m])
    <2> DEFINE S == [kind : {kind}, no : 0..m]
               f == [n \in 0..m |-> [kind |-> kind, no |-> n]]
    <2>1. f \in [0..m -> S]
        OBVIOUS
    <2>2. ASSUME NEW s \in S PROVE \E n \in 0..m : f[n] = s
        OBVIOUS
    <2>3. f \in Surjection(0..m, S)
        BY <2>1, <2>2 DEF Surjection
    <2>4. IsFiniteSet(0..m)
        BY FS_Interval
    <2>5. QED
        BY <2>3, <2>4, FS_Surjection
<1>2. IsFiniteSet(Keys)
    <2>1. MaxKey + 1 \in Int
        BY PacketsAssumption
    <2>2. QED
        BY <2>1, <1>1 DEF Keys
<1>3. IsFiniteSet(Deltas)
    <2>1. MaxDelta \in Int
        BY PacketsAssumption
    <2>2. QED
        BY <2>1, <1>1 DEF Deltas
<1>4. QED
    BY <1>2, <1>3, FS_Union DEF Frames

-----------------------------------------------------------------------------
(* The buffer.  Key bookkeeping changes no delta frame's slot; only an
   answer to a request (NewData) gives a delta frame data.                  *)

(* Division by a positive number keeps the order.                           *)
LEMMA DivMonotone ==
    ASSUME NEW n \in Nat, NEW m \in Nat, NEW g \in Nat \ {0}, n <= m
    PROVE  n \div g <= m \div g
<1> DEFINE p == n \div g
           q == m \div g
<1>1. p \in Nat /\ q \in Nat /\ p * g <= n /\ m < q * g + g
    OBVIOUS
<1>2. ASSUME q < p PROVE q * g + g <= p * g
    <2>1. PICK e \in Nat : p = q + 1 + e
        <3>1. p - q - 1 \in Nat /\ p = q + 1 + (p - q - 1)
            BY <1>1, <1>2
        <3>2. QED
            BY <3>1
    <2> HIDE DEF p, q
    <2>2. p * g = q * g + g + e * g
        BY <1>1, <2>1
    <2>3. e * g \in Nat /\ q * g \in Nat
        BY <1>1, <2>1
    <2>4. QED
        BY <2>2, <2>3
<1>3. p * g \in Int /\ q * g \in Int
    BY <1>1
<1> HIDE DEF p, q
<1>4. p <= q
    BY <1>1, <1>2, <1>3
<1>5. QED
    BY <1>4 DEF p, q

(* The key of a delta frame is one of the keys that are spoken of.          *)
LEMMA PairedKey ==
    ASSUME NEW f \in Deltas
    PROVE  Paired(f) \in 0..(MaxKey + 1)
<1>1. f.kind = "delta" /\ f.no \in Nat /\ f.no <= MaxDelta
    BY PacketsAssumption DEF Deltas
<1>2. f.no \div GOP <= MaxDelta \div GOP
    BY <1>1, DivMonotone, GOPAssumption, PacketsAssumption
<1>3. f.no \div GOP \in Nat /\ MaxDelta \div GOP \in Nat
    BY <1>1, GOPAssumption, PacketsAssumption
<1>4. QED
    BY <1>1, <1>2, <1>3, PacketsAssumption DEF Paired

(* KeyCounted, of a buffer and the newest key that found no slot.           *)
KeysCounted(b, r) ==
    /\ b.lastKey < b.nextKey
    /\ b.nextKey - 1 <= b.lastKey \/ b.nextKey - 1 <= r
    /\ \A f \in Keys : b.slots[f] # "free" => f.no <= b.lastKey
    /\ \A f \in Keys : b.slots[f] \in HasMeta => Produced(f)
DeltasCounted(b) ==
    \A f \in Deltas : b.slots[f] \in {"assembling", "ready"} => Paired(f) < b.nextKey
Counted(b, r) == KeysCounted(b, r) /\ DeltasCounted(b)

(* Giving key k a slot changes no other slot.                               *)
LEMMA KeySlot ==
    ASSUME NEW b \in BufferType, NEW k \in 0..(MaxKey + 1)
    PROVE  LET p == [b EXCEPT !.slots[Key(k)] = "new", !.lastKey = k]
           IN  /\ p \in BufferType /\ p.lastKey = k /\ p.nextKey = b.nextKey
               /\ \A f \in Frames : p.slots[f] = IF f = Key(k) THEN "new" ELSE b.slots[f]
               /\ \A f \in Deltas : p.slots[f] = b.slots[f]
               /\ \A f \in Keys : f = Key(k) <=> f.no = k
<1> DEFINE p == [b EXCEPT !.slots[Key(k)] = "new", !.lastKey = k]
<1>0. k \in Int
    BY PacketsAssumption
<1>1. p \in BufferType /\ p.lastKey = k /\ p.nextKey = b.nextKey
    BY <1>0 DEF BufferType, SlotStates
<1>2. \A f \in Frames : p.slots[f] = IF f = Key(k) THEN "new" ELSE b.slots[f]
    BY DEF BufferType
<1>3. \A f \in Deltas : f # Key(k) /\ f \in Frames
    BY DEF Deltas, Key, Frames
<1>4. \A f \in Keys : f = Key(k) <=> f.no = k
    BY DEF Keys, Key
<1> HIDE DEF p
<1>5. \A f \in Deltas : p.slots[f] = b.slots[f]
    BY <1>2, <1>3
<1>6. QED
    BY <1>1, <1>2, <1>4, <1>5 DEF p

(* onKeyNeeded leaves the key counter past the key that was needed, which has
   got a slot or is the newest that found none.                             *)
LEMMA OnKeyNeededBuffer ==
    ASSUME NEW b \in BufferType, NEW r \in Int, NEW k \in 0..(MaxKey + 1),
           KeysCounted(b, r)
    PROVE  LET c == OnKeyNeeded(b, k)
               t == TurnedAway(b, c, r)
           IN  /\ c \in BufferType
               /\ \A f \in Deltas : c.slots[f] = b.slots[f]
               /\ c.nextKey > k
               /\ c.nextKey >= b.nextKey
               /\ t \in Int
               /\ KeysCounted(c, t)
<1> DEFINE c == OnKeyNeeded(b, k)
           t == TurnedAway(b, c, r)
<1>1. b.lastKey \in Int /\ b.nextKey \in Int /\ k \in Int
    BY PacketsAssumption DEF BufferType
<1>2. CASE ~(b.nextKey <= k)
    <2>1. c = b /\ t = r
        BY <1>2 DEF OnKeyNeeded, TurnedAway
    <2>2. QED
        BY <1>1, <1>2, <2>1
<1>3. CASE b.nextKey <= k /\ ~(FreeSlots(b) > 0)
    <2>1. PrefetchKey(b, k) = b
        BY <1>3 DEF PrefetchKey
    <2>2. c = [b EXCEPT !.nextKey = k + 1]
        BY <1>3, <2>1 DEF OnKeyNeeded, RequestNextKey
    <2>3. /\ c \in BufferType /\ c.slots = b.slots /\ c.lastKey = b.lastKey
          /\ c.nextKey = k + 1
        BY <1>1, <2>2 DEF BufferType
    <2> HIDE DEF c
    <2>4. t = k
        BY <1>1, <1>3, <2>3 DEF TurnedAway
    <2> HIDE DEF t
    <2>5. KeysCounted(c, t)
        BY <1>1, <1>3, <2>3, <2>4 DEF KeysCounted
    <2>6. /\ c \in BufferType /\ \A f \in Deltas : c.slots[f] = b.slots[f]
          /\ c.nextKey > k /\ c.nextKey >= b.nextKey /\ t \in Int /\ KeysCounted(c, t)
        BY <1>1, <1>3, <2>3, <2>4, <2>5
    <2>7. QED
        BY <2>6 DEF c, t
<1>4. CASE b.nextKey <= k /\ FreeSlots(b) > 0
    <2> DEFINE p == [b EXCEPT !.slots[Key(k)] = "new", !.lastKey = k]
    <2>1. Key(k) \in Keys /\ Key(k).no = k
        BY DEF Key, Keys
    <2>2. b.slots[Key(k)] = "free"
        BY <1>1, <1>4, <2>1 DEF KeysCounted
    <2>3. PrefetchKey(b, k) = p
        BY <1>4, <2>2 DEF PrefetchKey
    <2>4. /\ p \in BufferType /\ p.lastKey = k /\ p.nextKey = b.nextKey
          /\ \A f \in Frames : p.slots[f] = IF f = Key(k) THEN "new" ELSE b.slots[f]
          /\ \A f \in Deltas : p.slots[f] = b.slots[f]
          /\ \A f \in Keys : f = Key(k) <=> f.no = k
        BY KeySlot
    <2>5. c = [p EXCEPT !.nextKey = k + 1]
        BY <1>4, <2>3 DEF OnKeyNeeded, RequestNextKey
    <2> HIDE DEF p
    <2>6. c \in BufferType /\ c.slots = p.slots /\ c.lastKey = k /\ c.nextKey = k + 1
        BY <1>1, <2>4, <2>5 DEF BufferType
    <2> HIDE DEF c
    <2>7. t = r
        BY <1>4 DEF TurnedAway
    <2> HIDE DEF t
    <2>8. KeysCounted(c, t)
        <3>1. ASSUME NEW f \in Keys
              PROVE  /\ c.slots[f] # "free" => f.no <= c.lastKey
                     /\ c.slots[f] \in HasMeta => Produced(f)
            <4>1. f \in Frames /\ f.no \in Int
                BY DEF Frames, Keys
            <4>2. CASE f = Key(k)
                BY <1>1, <2>4, <2>6, <4>1, <4>2 DEF HasMeta
            <4>3. CASE f # Key(k)
                BY <1>1, <1>4, <2>4, <2>6, <4>1, <4>3 DEF KeysCounted
            <4>4. QED
                BY <4>2, <4>3
        <3>2. c.lastKey < c.nextKey /\ c.nextKey - 1 <= c.lastKey
            BY <1>1, <2>6
        <3>3. QED
            BY <3>1, <3>2 DEF KeysCounted
    <2>9. /\ c \in BufferType /\ \A f \in Deltas : c.slots[f] = b.slots[f]
          /\ c.nextKey > k /\ c.nextKey >= b.nextKey /\ t \in Int /\ KeysCounted(c, t)
        BY <1>1, <1>4, <2>4, <2>6, <2>7, <2>8
    <2>10. QED
        BY <2>9 DEF c, t
<1>5. QED
    BY <1>2, <1>3, <1>4

(* newData keeps the key bookkeeping, whatever frame the data is for.       *)
LEMMA NewDataBuffer ==
    ASSUME NEW b \in BufferType, NEW r \in Int, NEW f \in Frames,
           NEW s \in {"met", "assembling", "ready"},
           b.slots[f] # "free", Produced(f), Counted(b, r)
    PROVE  LET c == NewData(b, f, s)
               t == TurnedAway(b, c, r)
           IN  c \in BufferType /\ t \in Int /\ Counted(c, t)
<1> DEFINE a == [b EXCEPT !.slots[f] = s]
           c == NewData(b, f, s)
           t == TurnedAway(b, c, r)
<1>1. a \in BufferType /\ a.lastKey = b.lastKey /\ a.nextKey = b.nextKey
    BY DEF BufferType, SlotStates
<1>2. a.slots[f] = s /\ \A g \in Frames : g # f => a.slots[g] = b.slots[g]
    BY DEF BufferType
<1>3. b.lastKey \in Int /\ b.nextKey \in Int
    BY DEF BufferType
<1>4. \A g \in Frames : Paired(g) \in Int
    BY FrameNumbers
<1>5. Deltas \subseteq Frames /\ Keys \subseteq Frames
    BY DEF Frames
<1> HIDE DEF a
<1>6. FreeSlots(a) = FreeSlots(b)
    <2>1. Active(a) = Active(b)
        BY <1>2 DEF Active
    <2>2. QED
        BY <2>1 DEF FreeSlots
<1>7. KeysCounted(a, r)
    <2>1. \A g \in Keys : /\ a.slots[g] # "free" => g.no <= a.lastKey
                          /\ a.slots[g] \in HasMeta => Produced(g)
        BY <1>1, <1>2, <1>5 DEF Counted, KeysCounted
    <2>2. QED
        BY <1>1, <2>1 DEF Counted, KeysCounted
<1>8. CASE s # "met" /\ f.kind = "delta" /\ b.lastKey < Paired(f)
    <2>1. c = OnKeyNeeded(a, Paired(f))
        BY <1>8 DEF NewData, a
    <2>2. Paired(f) \in 0..(MaxKey + 1)
        BY <1>8, FrameNumbers, PairedKey
    <2> DEFINE ta == TurnedAway(a, c, r)
    <2>3. /\ c \in BufferType
          /\ \A g \in Deltas : c.slots[g] = a.slots[g]
          /\ c.nextKey > Paired(f)
          /\ c.nextKey >= a.nextKey
          /\ ta \in Int
          /\ KeysCounted(c, ta)
        BY <1>1, <1>7, <2>1, <2>2, OnKeyNeededBuffer
    <2>4. ta = t
        BY <1>1, <1>6 DEF TurnedAway
    <2> HIDE DEF ta, c, t
    <2>5. c.nextKey \in Int
        BY <2>3 DEF BufferType
    <2>6. DeltasCounted(c)
        BY <1>1, <1>2, <1>3, <1>4, <1>5, <2>3, <2>5 DEF Counted, DeltasCounted
    <2>7. c \in BufferType /\ t \in Int /\ Counted(c, t)
        BY <2>3, <2>4, <2>6 DEF Counted
    <2>8. QED
        BY <2>7 DEF c, t
<1>9. CASE ~(s # "met" /\ f.kind = "delta" /\ b.lastKey < Paired(f))
    <2>1. c = a
        BY <1>9 DEF NewData, a
    <2>2. t = r
        BY <1>1, <2>1 DEF TurnedAway
    <2>3. f \in Deltas /\ s # "met" => Paired(f) < b.nextKey
        BY <1>9, <1>3, <1>4, FrameNumbers DEF Counted, KeysCounted
    <2>4. DeltasCounted(a)
        BY <1>1, <1>2, <1>5, <2>3 DEF Counted, DeltasCounted
    <2> HIDE DEF c, t
    <2>5. c \in BufferType /\ t \in Int /\ Counted(c, t)
        BY <1>1, <1>7, <2>1, <2>2, <2>4 DEF Counted
    <2>6. QED
        BY <2>5 DEF c, t
<1>10. QED
    BY <1>8, <1>9

(* Asking for delta frames gives slots to some of them and data to none.    *)
LEMMA PrefetchDeltasBuffer ==
    ASSUME NEW b \in BufferType, NEW r, NEW from, NEW n, Counted(b, r)
    PROVE  PrefetchDeltas(b, from, n) \in BufferType /\ Counted(PrefetchDeltas(b, from, n), r)
<1> DEFINE c == PrefetchDeltas(b, from, n)
<1>1. c \in BufferType /\ c.lastKey = b.lastKey /\ c.nextKey = b.nextKey
    BY DEF PrefetchDeltas, BufferType, SlotStates
<1>2. /\ \A f \in Keys : c.slots[f] = b.slots[f]
      /\ \A f \in Deltas : c.slots[f] \in {b.slots[f], "new"}
    BY DEF PrefetchDeltas, BufferType, Keys, Deltas, Frames
<1> HIDE DEF c
<1>3. c \in BufferType /\ Counted(c, r)
    BY <1>1, <1>2 DEF Counted, KeysCounted, DeltasCounted
<1>4. QED
    BY <1>3 DEF c

(* A set of natural numbers that is not empty has a least one.              *)
LEMMA LeastNatural ==
    ASSUME NEW T, T \subseteq Nat, T # {}
    PROVE  \E m \in T : \A n \in T : m <= n
<1>1. \E m \in T : \A n \in T : ~ (<<n, m>> \in OpToRel(<, Nat))
    BY NatLessThanWellFounded, WFMin
<1>2. \A m, n \in T : ~ (<<n, m>> \in OpToRel(<, Nat)) => m <= n
    BY DEF OpToRel
<1>3. QED
    BY <1>1, <1>2

(* The playback order has a first element: of the frames of the lowest rank
   present, the one with the least number.                                  *)
LEMMA HeadActive ==
    ASSUME NEW b, NEW late, Active(b) # {}
    PROVE  Head(b, late) \in Active(b)
<1> DEFINE Number(f) == IF Rank(b, late, f) = 0 THEN PlaybackNo(f) ELSE f.no
           ranks == {Rank(b, late, f) : f \in Active(b)}
<1>1. \A f \in Active(b) : Rank(b, late, f) \in Nat /\ Number(f) \in Nat
    BY FrameNumbers DEF Rank, Active
<1>2. PICK r \in ranks : \A q \in ranks : r <= q
    <2>1. ranks \subseteq Nat /\ ranks # {}
        BY <1>1
    <2> HIDE DEF ranks
    <2>2. QED
        BY <2>1, LeastNatural
<1> DEFINE lowest  == {f \in Active(b) : Rank(b, late, f) = r}
           numbers == {Number(f) : f \in lowest}
<1>3. PICK m \in numbers : \A n \in numbers : m <= n
    <2> HIDE DEF Number
    <2>1. numbers \subseteq Nat /\ numbers # {}
        BY <1>1, <1>2
    <2> HIDE DEF numbers
    <2>2. QED
        BY <2>1, LeastNatural
<1>4. PICK h \in lowest : Number(h) = m
    <2> HIDE DEF Number, lowest
    <2>1. QED BY <1>3
<1>5. ASSUME NEW g \in Active(b) PROVE Before(b, late, h, g)
    <2>1. Rank(b, late, h) = r /\ r <= Rank(b, late, g) /\ r \in Nat /\ Rank(b, late, g) \in Nat
        BY <1>1, <1>2, <1>4
    <2>2. CASE Rank(b, late, g) = r
        <3>1. Number(h) <= Number(g)
            <4> HIDE DEF Number
            <4>1. QED BY <1>3, <1>4, <2>2
        <3>2. QED
            BY <2>1, <2>2, <3>1 DEF Before
    <2>3. CASE Rank(b, late, g) # r
        BY <2>1, <2>3 DEF Before
    <2>4. QED
        BY <2>2, <2>3
<1>6. QED
    BY <1>4, <1>5 DEF Head

(* Freeing slots changes neither key number.                                *)
LEMMA FreeBuffer ==
    ASSUME NEW b \in BufferType, NEW fs
    PROVE  LET c == Free(b, fs)
           IN  /\ c \in BufferType /\ c.lastKey = b.lastKey /\ c.nextKey = b.nextKey
               /\ \A f \in Frames : c.slots[f] \in {b.slots[f], "free"}
BY DEF Free, BufferType, SlotStates, Frames

(* A playout keeps the key bookkeeping and gives no delta frame data.       *)
LEMMA PlaysBuffer ==
    ASSUME NEW b \in BufferType, NEW r \in Int, Counted(b, r), NEW c \in Plays(b)
    PROVE  LET t == TurnedAway(b, c, r)
           IN  /\ c \in BufferType
               /\ t \in Int
               /\ Counted(c, t)
               /\ \A f \in Deltas : c.slots[f] \in {b.slots[f], "free"}
<1> DEFINE t == TurnedAway(b, c, r)
<1>1. CASE Active(b) = {}
    <2>1. c = b /\ t = r
        BY <1>1 DEF Plays, TurnedAway
    <2>2. QED
        BY <2>1
<1>2. CASE Active(b) # {}
    <2>0. PICK late : c \in Play(b, Head(b, late))
        BY <1>2 DEF Plays
    <2> DEFINE h == Head(b, late)
               asked == IF h.kind = "key" /\ b.slots[h] \in HasMeta /\ b.lastKey <= h.no
                        THEN OnKeyNeeded(b, h.no + 1)
                        ELSE b
               ta == TurnedAway(b, asked, r)
    <2>1. \E fs : c = Free(asked, fs)
        BY <2>0 DEF Play
    <2>2. h \in Frames
        BY <1>2, HeadActive DEF Active
    <2>3. /\ asked \in BufferType
          /\ ta \in Int
          /\ Counted(asked, ta)
          /\ \A f \in Deltas : asked.slots[f] = b.slots[f]
        <3>1. CASE h.kind = "key" /\ b.slots[h] \in HasMeta /\ b.lastKey <= h.no
            <4>1. asked = OnKeyNeeded(b, h.no + 1)
                BY <3>1
            <4>2. h \in Keys
                BY <2>2, <3>1, FrameNumbers
            <4>3. h.no + 1 \in 0..(MaxKey + 1)
                <5>1. h.no \in Nat /\ h.no <= MaxKey
                    BY <2>2, <3>1, <4>2, FrameNumbers DEF Counted, KeysCounted, Produced
                <5> HIDE DEF h
                <5>2. QED BY <5>1, PacketsAssumption
            <4>4. b.nextKey \in Int /\ \A f \in Deltas : Paired(f) \in Int
                BY FrameNumbers DEF BufferType, Frames
            <4> HIDE DEF h, asked
            <4>5. /\ asked \in BufferType
                  /\ \A g \in Deltas : asked.slots[g] = b.slots[g]
                  /\ asked.nextKey >= b.nextKey
                  /\ ta \in Int
                  /\ KeysCounted(asked, ta)
                BY <4>1, <4>3, OnKeyNeededBuffer DEF Counted
            <4>6. asked.nextKey \in Int
                BY <4>5 DEF BufferType
            <4>7. DeltasCounted(asked)
                BY <4>4, <4>5, <4>6 DEF Counted, DeltasCounted
            <4>8. QED
                BY <4>5, <4>7 DEF Counted
        <3>2. CASE ~(h.kind = "key" /\ b.slots[h] \in HasMeta /\ b.lastKey <= h.no)
            <4>1. asked = b
                BY <3>2
            <4>2. ta = r
                BY <4>1 DEF TurnedAway
            <4> HIDE DEF h, asked, ta
            <4>3. QED
                BY <4>1, <4>2
        <3>3. QED
            BY <3>1, <3>2
    <2> HIDE DEF h, asked
    <2>4. /\ c \in BufferType /\ c.lastKey = asked.lastKey /\ c.nextKey = asked.nextKey
          /\ \A f \in Frames : c.slots[f] \in {asked.slots[f], "free"}
        BY <2>1, <2>3, FreeBuffer
    <2>5. t = ta
        BY <2>4 DEF TurnedAway
    <2> HIDE DEF t, ta
    <2>6. \A f \in Deltas : c.slots[f] \in {b.slots[f], "free"}
        BY <2>3, <2>4 DEF Frames
    <2>7. KeysCounted(c, t)
        BY <2>3, <2>4, <2>5 DEF Counted, KeysCounted, HasMeta, Frames
    <2>8. DeltasCounted(c)
        BY <2>3, <2>4 DEF Counted, DeltasCounted, Frames
    <2>9. c \in BufferType /\ t \in Int /\ Counted(c, t)
        BY <2>3, <2>4, <2>5, <2>7, <2>8 DEF Counted
    <2>10. QED
        BY <2>6, <2>9 DEF t
<1>3. QED
    BY <1>1, <1>2

-----------------------------------------------------------------------------
WindowType == [dw : Nat, w : Int, pool : SUBSET Nat]

-----------------------------------------------------------------------------
(* The window.                                                              *)

(* A window that adds up and whose pool stays below the number n.           *)
Balanced(win, n) ==
    /\ win \in WindowType
    /\ IsFiniteSet(win.pool)
    /\ win.w + Cardinality(win.pool) = win.dw
    /\ \A d \in win.pool : d < n

(* Crediting the window for a frame that was waited for keeps it balanced.  *)
LEMMA DataArrivedBalanced ==
    ASSUME NEW win, NEW n \in Int, NEW d \in Nat, Balanced(win, n)
    PROVE  Balanced(DataArrived(win, d), n) /\ DataArrived(win, d).dw = win.dw
<1>1. CASE d \in win.pool
    <2>1. /\ IsFiniteSet(win.pool \ {d})
          /\ Cardinality(win.pool \ {d}) = Cardinality(win.pool) - 1
        BY <1>1, FS_RemoveElement DEF Balanced
    <2>2. Cardinality(win.pool) \in Nat
        BY FS_CardinalityType DEF Balanced
    <2>3. win.w \in Int /\ win.dw \in Int /\ win.w + 1 \in Int /\ win.pool \ {d} \in SUBSET Nat
        BY DEF Balanced, WindowType
    <2> DEFINE v == DataArrived(win, d)
    <2>4. v = [win EXCEPT !.w = win.w + 1, !.pool = win.pool \ {d}]
        BY <1>1 DEF DataArrived
    <2>5. v.dw = win.dw /\ v.w = win.w + 1 /\ v.pool = win.pool \ {d} /\ v \in WindowType
        BY <2>3, <2>4 DEF Balanced, WindowType
    <2> HIDE DEF v
    <2>6. Balanced(v, n) /\ v.dw = win.dw
        BY <2>1, <2>2, <2>3, <2>5 DEF Balanced
    <2>7. QED
        BY <2>6 DEF v
<1>2. CASE d \notin win.pool
    BY <1>2 DEF DataArrived, Balanced
<1>3. QED
    BY <1>1, <1>2

(* Asking for n new frames keeps the window balanced.                       *)
LEMMA AskForBalanced ==
    ASSUME NEW win, NEW from \in Nat, NEW n \in Nat, Balanced(win, from)
    PROVE  Balanced(AskFor(win, from, n), from + n) /\ AskFor(win, from, n).dw = win.dw
<1> DEFINE asked == from..(from + n - 1)
<1>1. IsFiniteSet(asked) /\ Cardinality(asked) = n
    BY FS_Interval
<1>2. win.pool \cap asked = {}
    BY DEF Balanced, WindowType
<1>3. /\ IsFiniteSet(win.pool \cup asked)
      /\ Cardinality(win.pool \cup asked) = Cardinality(win.pool) + n
    <2>1. Cardinality(win.pool) \in Nat
        BY FS_CardinalityType DEF Balanced
    <2> HIDE DEF asked
    <2>2. QED
        BY <1>1, <1>2, <2>1, FS_Union, FS_EmptySet DEF Balanced
<1>4. Cardinality(win.pool) \in Nat
    BY FS_CardinalityType DEF Balanced
<1>5. asked \subseteq Nat /\ \A d \in asked : d < from + n
    OBVIOUS
<1>6. /\ win.w \in Int /\ win.dw \in Int /\ win.w - n \in Int
      /\ win.pool \cup asked \in SUBSET Nat
      /\ \A d \in win.pool : d \in Int /\ d < from + n
    BY <1>5 DEF Balanced, WindowType
<1> DEFINE v == AskFor(win, from, n)
<1>7. v = [win EXCEPT !.w = win.w - n, !.pool = win.pool \cup asked]
    BY DEF AskFor
<1> HIDE DEF asked, v
<1>8. v.dw = win.dw /\ v.w = win.w - n /\ v.pool = win.pool \cup asked /\ v \in WindowType
    BY <1>6, <1>7 DEF Balanced, WindowType
<1>9. Balanced(v, from + n) /\ v.dw = win.dw
    BY <1>3, <1>4, <1>5, <1>6, <1>8 DEF Balanced
<1>10. QED
    BY <1>9 DEF v

(* changeWindow changes dw_ and w_ alike and leaves the pool alone.         *)
SameUse(v, u) == v \in WindowType /\ v.pool = u.pool /\ v.w - v.dw = u.w - u.dw

(* A window of the same use is as balanced.                                 *)
LEMMA SameUseBalanced ==
    ASSUME NEW u, NEW v, NEW n \in Int, Balanced(u, n), SameUse(v, u)
    PROVE  Balanced(v, n)
<1>1. Cardinality(u.pool) \in Nat
    BY FS_CardinalityType DEF Balanced
<1>2. QED
    BY <1>1 DEF Balanced, SameUse, WindowType

(* Growing and shrinking keep the use of the window; dw_ stays positive.     *)
LEMMA ChangeWindow ==
    ASSUME NEW win \in WindowType, NEW n \in Nat, NEW outstanding \in Nat
    PROVE  /\ SameUse(Grow(win, n), win) /\ Grow(win, n).dw = win.dw + n
           /\ SameUse(Shrink(win, n, outstanding), win)
           /\ Shrink(win, n, outstanding).dw >= win.dw - n
<1>0. win.dw \in Nat /\ win.w \in Int
    BY DEF WindowType
<1>1. SameUse(Grow(win, n), win) /\ Grow(win, n).dw = win.dw + n
    <2>0. win.dw + n \in Nat /\ win.w + n \in Int
        BY <1>0
    <2>1. LET v == Grow(win, n)
          IN  v.dw = win.dw + n /\ v.w = win.w + n /\ v.pool = win.pool /\ v \in WindowType
        BY <2>0 DEF Grow, WindowType
    <2>2. QED
        BY <2>1, <1>0 DEF SameUse
<1>2. ASSUME NEW m \in Nat, m <= n, win.dw > m
      PROVE  LET v == [win EXCEPT !.dw = @ - m, !.w = @ - m]
             IN  SameUse(v, win) /\ v.dw >= win.dw - n
    <2> DEFINE v == [win EXCEPT !.dw = @ - m, !.w = @ - m]
    <2>0. win.dw - m \in Nat /\ win.w - m \in Int
        BY <1>0, <1>2
    <2>1. v.dw = win.dw - m /\ v.w = win.w - m /\ v.pool = win.pool /\ v \in WindowType
        BY <2>0 DEF WindowType
    <2> HIDE DEF v
    <2>2. SameUse(v, win) /\ v.dw >= win.dw - n
        BY <1>0, <1>2, <2>1 DEF SameUse
    <2>3. QED
        BY <2>2 DEF v
<1>3. SameUse(win, win) /\ win.dw >= win.dw - n
    BY DEF SameUse, WindowType
<1>4. QED
    <2> DEFINE m == IF outstanding > 1 /\ n >= outstanding THEN outstanding - 1 ELSE n
    <2>1. m \in Nat /\ m <= n
        OBVIOUS
    <2> HIDE DEF m
    <2>2. QED
        BY <1>1, <1>2, <1>3, <2>1 DEF Shrink, m

(* What every decision of the state machine respects.                       *)
Sound(o, win) ==
    /\ o.state \in {"Chasing", "Adjust", "Fetching"}
    /\ SameUse(o.window, win)
    /\ o.change \in BOOLEAN
    /\ o.stability \in BOOLEAN
    /\ o.failed \in Nat
    /\ DefaultMinWindow <= o.failed
    /\ o.failed < o.window.dw

(* Every decision of the state machine is sound.                            *)
LEMMA OutcomesSound ==
    ASSUME NEW win \in WindowType, NEW new \in Nat, Fetches,
           failedWindow \in Nat, DefaultMinWindow <= failedWindow, failedWindow < win.dw,
           waitForChange \in BOOLEAN, waitForStability \in BOOLEAN,
           NEW o \in Outcomes(win, new)
    PROVE  Sound(o, win)
<1>1. win.dw \in Nat /\ DefaultMinWindow \in Nat
    BY WindowAssumption DEF WindowType
<1>2. Half(win) \in Nat /\ Half(win) >= 1
    BY <1>1 DEF Half
<1>3. SameUse(win, win)
    BY DEF SameUse
<1>4. ASSUME NEW c \in BOOLEAN, NEW st \in BOOLEAN
      PROVE  Sound(Decrease(win, new, c, st), win)
    <2>1. CASE failedWindow >= win.dw - Half(win)
        BY <2>1, <1>3 DEF Decrease, Outcome, Sound
    <2>2. CASE ~(failedWindow >= win.dw - Half(win))
        <3> DEFINE v == Shrink(win, Half(win), new)
        <3>1. SameUse(v, win) /\ v.dw >= win.dw - Half(win) /\ v.dw \in Nat
            BY <1>2, ChangeWindow DEF SameUse, WindowType
        <3>2. Decrease(win, new, c, st) = Outcome("Adjust", v, c, st, failedWindow)
            BY <2>2 DEF Decrease
        <3> HIDE DEF v
        <3>3. QED
            BY <3>1, <3>2, <2>2, <1>1, <1>2 DEF Outcome, Sound
    <2>3. QED
        BY <2>1, <2>2
<1>5. ASSUME NEW n \in Nat, NEW st \in {"Chasing", "Adjust", "Fetching"},
             NEW c \in BOOLEAN, NEW sb \in BOOLEAN,
             NEW failed \in Nat, DefaultMinWindow <= failed, failed < win.dw + n
      PROVE  Sound(Outcome(st, Grow(win, n), c, sb, failed), win)
    <2>1. SameUse(Grow(win, n), win) /\ Grow(win, n).dw = win.dw + n
        BY ChangeWindow
    <2>2. QED
        BY <2>1, <1>5 DEF Outcome, Sound
<1>6. ASSUME NEW st \in {"Chasing", "Adjust", "Fetching"},
             NEW c \in BOOLEAN, NEW sb \in BOOLEAN
      PROVE  Sound(Outcome(st, win, c, sb, failedWindow), win)
    BY <1>3 DEF Outcome, Sound
<1>7. CASE o \in ChasingOutcomes(win)
    <2>1. failedWindow < win.dw + win.dw
        BY <1>1
    <2>2. QED
        BY <1>1, <1>5, <1>6, <1>7, <2>1 DEF ChasingOutcomes
<1>8. CASE o \in AdjustOutcomes(win, new)
    BY <1>4, <1>6, <1>8 DEF AdjustOutcomes
<1>9. CASE o \in UnstableOutcomes(win)
    <2>1. win.dw < win.dw + Half(win) /\ DefaultMinWindow <= win.dw
        BY <1>1, <1>2
    <2>2. QED
        BY <1>1, <1>2, <1>5, <1>9, <2>1 DEF UnstableOutcomes
<1>10. CASE o \in FetchingOutcomes(win)
    <2>1. failedWindow < win.dw + Half(win) /\ DefaultMinWindow < win.dw + Half(win)
        BY <1>1, <1>2
    <2>2. \A fw \in {failedWindow, DefaultMinWindow} :
             Sound(Outcome("Adjust", Grow(win, Half(win)), FALSE, TRUE, fw), win)
        <3>1. Sound(Outcome("Adjust", Grow(win, Half(win)), FALSE, TRUE, failedWindow), win)
            BY <1>2, <1>5, <2>1
        <3>2. Sound(Outcome("Adjust", Grow(win, Half(win)), FALSE, TRUE, DefaultMinWindow), win)
            <4>1. DefaultMinWindow <= DefaultMinWindow
                BY <1>1
            <4>2. QED
                BY <1>1, <1>2, <1>5, <2>1, <4>1
        <3>3. QED
            BY <3>1, <3>2
    <2>3. Sound(Outcome("Fetching", win, waitForChange, waitForStability, failedWindow), win)
        BY <1>6
    <2>4. QED
        BY <1>10, <2>2, <2>3 DEF FetchingOutcomes
<1>11. \/ o \in ChasingOutcomes(win) \/ o \in AdjustOutcomes(win, new)
       \/ o \in UnstableOutcomes(win) \/ o \in FetchingOutcomes(win)
    <2>1. CASE state = "Chasing"
        BY <2>1 DEF Outcomes
    <2>2. CASE state = "Adjust"
        BY <2>2 DEF Outcomes
    <2>3. CASE state = "Fetching"
        BY <2>3 DEF Outcomes
    <2>4. QED
        BY <2>1, <2>2, <2>3 DEF Fetches
<1>12. QED
    BY <1>7, <1>8, <1>9, <1>10, <1>11

-----------------------------------------------------------------------------
(* The handlers.  What Consume may change, and what it keeps of IInv.        *)

Handled ==
    /\ state \in {"Chasing", "Adjust", "Fetching"}
    /\ deltaFrameSeqNo \in Int
    /\ Balanced(window, deltaFrameSeqNo)
    /\ failedWindow \in Nat
    /\ DefaultMinWindow <= failedWindow
    /\ failedWindow < window.dw
    /\ waitForChange \in BOOLEAN
    /\ waitForStability \in BOOLEAN
    /\ buffer \in BufferType
    /\ refused \in Int
    /\ Counted(buffer, refused)
    /\ isRunning \in BOOLEAN
    /\ deltaFrameSeqNo < 0 =>
          /\ state = "Chasing"
          /\ window.pool = {}
          /\ \A f \in Deltas : buffer.slots[f] = "free"

(* The invariant of a pipeliner that fetches says that everything the
   handler of a frame's data relies on is in order.                         *)
LEMMA FetchingHandled ==
    IInv /\ Fetches => Handled
<1> SUFFICES ASSUME IInv, Fetches PROVE Handled
    OBVIOUS
<1>1. /\ state \in {"Chasing", "Adjust", "Fetching"}
      /\ deltaFrameSeqNo \in Int /\ failedWindow \in Nat
      /\ DefaultMinWindow <= failedWindow /\ failedWindow < window.dw
      /\ waitForChange \in BOOLEAN /\ waitForStability \in BOOLEAN
      /\ buffer \in BufferType /\ refused \in Int /\ isRunning \in BOOLEAN
    BY DEF IInv, TypeOK, Fetches, AboveFailedWindow, FailedSince, BufferType
<1>2. Balanced(window, deltaFrameSeqNo)
    BY DEF IInv, TypeOK, WindowBalance, Balanced, WindowType
<1>3. Counted(buffer, refused)
    BY DEF IInv, KeyCounted, Counted, KeysCounted, DeltasCounted
<1>4. deltaFrameSeqNo < 0 => /\ state = "Chasing"
                            /\ window.pool = {}
                            /\ \A f \in Deltas : buffer.slots[f] = "free"
    BY DEF IInv, NoDeltaYet
<1>5. QED
    BY <1>1, <1>2, <1>3, <1>4 DEF Handled

(* A handler that leaves everything in order restores the invariant.        *)
LEMMA HandledFetching ==
    /\ IInv /\ Fetches /\ Handled'
    /\ UNCHANGED <<isConsuming, thread, seedFrameNo, valid>>
    /\ stale' = stale
    /\ checkpoint' = TRUE
    /\ rightmosts' \in [RightmostInterests -> Nat]
    => IInv'
<1> SUFFICES ASSUME IInv, Fetches, Handled',
                    UNCHANGED <<isConsuming, thread, seedFrameNo, valid>>,
                    stale' = stale, checkpoint' = TRUE,
                    rightmosts' \in [RightmostInterests -> Nat]
             PROVE  IInv'
    OBVIOUS
<1>1. TypeOK'
    BY DEF IInv, TypeOK, Handled, Balanced, WindowType, BufferType, States
<1>2. IsFiniteSet(window'.pool) /\ WindowBalance' /\ AboveFailedWindow'
      /\ FailedSince'
    BY DEF Handled, Balanced, WindowBalance, AboveFailedWindow, FailedSince
<1>3. NoDeltaYet' /\ ValidFetches' /\ NeverWedged'
    BY DEF IInv, ValidFetches, NoDeltaYet, NeverWedged, Handled, Fetches
<1>4. BlindInWaitInitial'
    BY DEF BlindInWaitInitial
<1>5. KeyCounted' /\ KeysKeepUp'
    <2>1. Counted(buffer, refused)'
        BY DEF Handled
    <2>2. state' # "WaitInitial"
        BY DEF Handled
    <2>3. KeyCounted'
        BY <2>1, <2>2 DEF Counted, KeysCounted, DeltasCounted, KeyCounted
    <2>4. buffer'.lastKey \in Int /\ buffer'.nextKey \in Int /\ refused' \in Int
        BY DEF Handled, BufferType
    <2>5. \A f \in Deltas : Paired(f) \in Int
        BY FrameNumbers DEF Frames
    <2>6. QED
        BY <2>1, <2>3, <2>4, <2>5
        DEF Counted, KeysCounted, DeltasCounted, KeysKeepUp
<1>6. QED
    BY <1>1, <1>2, <1>3, <1>4, <1>5 DEF IInv

(* Data for a frame whose slot assembles: the window is credited and used up,
   the state machine decides, the buffer is filled.                         *)
LEMMA UseUpWindowHandled ==
    ASSUME NEW win, NEW o, NEW next \in Nat, NEW b \in BufferType,
           Balanced(win, next), Sound(o, win),
           refused' \in Int, Counted(b, refused'), isRunning' \in BOOLEAN,
           UseUpWindow(o, next, b)
    PROVE  Handled'
<1> DEFINE room == IF o.window.w < MaxDelta + 1 - next THEN o.window.w
                                                      ELSE MaxDelta + 1 - next
           n    == IF room > 0 THEN room ELSE 0
<1>1. n \in Nat
    BY PacketsAssumption DEF Sound, SameUse, WindowType
<1>2. /\ state' = o.state
      /\ waitForChange' = o.change
      /\ waitForStability' = o.stability
      /\ failedWindow' = o.failed
      /\ window' = AskFor(o.window, next, n)
      /\ deltaFrameSeqNo' = next + n
      /\ buffer' = PrefetchDeltas(b, next, n)
    BY Zenon DEF UseUpWindow
<1> HIDE DEF n
<1>3. Balanced(window', next + n) /\ window'.dw = o.window.dw
    <2>1. Balanced(o.window, next)
        BY SameUseBalanced DEF Sound
    <2>2. QED
        BY <1>1, <1>2, <2>1, AskForBalanced
<1>4. buffer' \in BufferType /\ Counted(buffer, refused)'
    <2>1. buffer' \in BufferType /\ Counted(buffer', refused')
        BY <1>2, PrefetchDeltasBuffer
    <2>2. QED
        BY <2>1 DEF Counted, KeysCounted, DeltasCounted
<1>5. deltaFrameSeqNo' \in Nat
    BY <1>1, <1>2
<1>6. QED
    BY <1>2, <1>3, <1>4, <1>5 DEF Handled, Sound

(* askForSubsequentData leaves everything in order.                         *)
LEMMA AskForSubsequentDataHandled ==
    ASSUME Handled, NEW f \in Frames, buffer.slots[f] \in Unfinished, Produced(f),
           NEW d \in Nat, deltaFrameSeqNo <= d,
           AskForSubsequentData(f, buffer, d)
    PROVE  Handled'
<1> SUFFICES ASSUME NEW s \in Appended(buffer.slots[f]), NEW ended \in BOOLEAN,
        LET stored   == NewData(buffer, f, s)
            credited == IF buffer.slots[f] # "assembling" /\ s # "met" /\ f.kind = "delta"
                        THEN DataArrived(window, f.no) ELSE window
            next     == IF s = "ready" /\ f.kind = "key" /\ d < Paired(f)
                        THEN Paired(f) ELSE d
        IN  \E o \in Outcomes(credited, Unserved(stored)),
               played \in IF ended /\ ~isRunning THEN Plays(stored) ELSE {stored} :
                /\ ended => o.state # "Chasing"
                /\ UseUpWindow(o, next, played)
                /\ isRunning' = (isRunning \/ ended)
                /\ refused' = TurnedAway(stored, played, TurnedAway(buffer, stored, refused))
     PROVE Handled'
    BY Zenon DEF AskForSubsequentData
<1> DEFINE stored   == NewData(buffer, f, s)
           credited == IF buffer.slots[f] # "assembling" /\ s # "met" /\ f.kind = "delta"
                       THEN DataArrived(window, f.no) ELSE window
           next     == IF s = "ready" /\ f.kind = "key" /\ d < Paired(f)
                       THEN Paired(f) ELSE d
<1>1. PICK o \in Outcomes(credited, Unserved(stored)),
           played \in IF ended /\ ~isRunning THEN Plays(stored) ELSE {stored} :
        /\ UseUpWindow(o, next, played)
        /\ isRunning' = (isRunning \/ ended)
        /\ refused' = TurnedAway(stored, played, TurnedAway(buffer, stored, refused))
    BY Zenon
<1>2. next \in Nat /\ deltaFrameSeqNo <= next
    BY FrameNumbers DEF Handled
<1> DEFINE away == TurnedAway(buffer, stored, refused)
<1>3. stored \in BufferType /\ away \in Int /\ Counted(stored, away)
    <2>1. s \in {"met", "assembling", "ready"} /\ buffer.slots[f] # "free"
        BY DEF Appended, Unfinished
    <2>2. buffer \in BufferType /\ refused \in Int /\ Counted(buffer, refused)
        BY DEF Handled
    <2>3. QED
        BY <2>1, <2>2, NewDataBuffer
<1>4. played \in BufferType /\ refused' \in Int /\ Counted(played, refused')
    <2> HIDE DEF stored, away
    <2>0. refused' = TurnedAway(stored, played, away)
        BY <1>1 DEF away
    <2>1. CASE played = stored
        <3>1. refused' = away
            BY <2>0, <2>1 DEF TurnedAway
        <3>2. QED
            BY <1>3, <2>1, <3>1
    <2>2. CASE played \in Plays(stored)
        BY <1>3, <2>0, <2>2, PlaysBuffer
    <2>3. QED
        BY <1>1, <2>1, <2>2
<1>5. Unserved(stored) \in Nat
    <2>1. {g \in Frames : stored.slots[g] \in {"new", "met"}} \in SUBSET Frames
        OBVIOUS
    <2>2. QED
        BY <2>1, FramesFinite, FS_Subset, FS_CardinalityType DEF Unserved
<1>6. Balanced(credited, next) /\ credited.dw = window.dw
    <2>1. deltaFrameSeqNo \in Int /\ Balanced(window, deltaFrameSeqNo)
        BY DEF Handled
    <2>2. Balanced(window, next)
        BY <1>2, <2>1 DEF Balanced, WindowType
    <2>3. f.no \in Nat
        BY FrameNumbers
    <2> HIDE DEF next
    <2>4. QED
        BY <1>2, <2>2, <2>3, DataArrivedBalanced
<1> HIDE DEF stored, credited, next, away
<1>7. Sound(o, credited)
    <2>1. credited \in WindowType /\ Fetches
        BY <1>6 DEF Balanced, Handled, Fetches
    <2>2. QED
        BY <1>5, <1>6, <2>1, OutcomesSound DEF Handled
<1>8. QED
    BY <1>1, <1>2, <1>4, <1>6, <1>7, UseUpWindowHandled DEF Handled

(* Data in a fetching state.  While the delta counter is not set, only a key
   frame can find a slot that assembles, and that sets it.                  *)
LEMMA StoreHandled ==
    ASSUME Handled, NEW t, NEW f \in Frames, Produced(f), NEW d \in Int,
           deltaFrameSeqNo <= d,
           Assembles(t, f) => d >= 0,
           d >= 0 \/ d = deltaFrameSeqNo,
           Store(t, f, d)
    PROVE  Handled'
<1>1. CASE Assembles(t, f) /\ AskForSubsequentData(f, buffer, d)
    BY <1>1, AskForSubsequentDataHandled DEF Assembles
<1>2. CASE /\ deltaFrameSeqNo' = d
           /\ UNCHANGED <<state, window, estimation, buffer, isRunning, refused>>
    <2>1. deltaFrameSeqNo \in Int
        BY DEF Handled
    <2>2. Balanced(window, d)
        BY <2>1 DEF Handled, Balanced, WindowType
    <2>3. QED
        BY <1>2, <2>1, <2>2
        DEF Handled, estimation, Balanced, Counted, KeysCounted, DeltasCounted
<1>3. QED
    BY <1>1, <1>2 DEF Store

(* onData keeps the invariant, whatever state the pipeliner is in.          *)
LEMMA ConsumeInv ==
    ASSUME IInv, NEW t, NEW f \in Frames, Produced(f), Consume(t, f),
           UNCHANGED <<isConsuming, thread, seedFrameNo, valid, stale>>,
           checkpoint' = TRUE,
           rightmosts' \in [RightmostInterests -> Nat]
    PROVE  IInv'
<1> DEFINE first == /\ state = "Chasing" /\ deltaFrameSeqNo < 0
                    /\ t = thread /\ f.kind = "key"
           d == IF first THEN Paired(f) ELSE deltaFrameSeqNo
<1>1. CASE Fetches /\ Store(t, f, d)
    <2>1. Handled
        BY <1>1, FetchingHandled
    <2>2. Paired(f) \in Nat /\ deltaFrameSeqNo \in Int /\ (f.kind = "key" \/ f \in Deltas)
        BY <2>1, FrameNumbers DEF Handled
    <2>3. d \in Int /\ deltaFrameSeqNo <= d /\ (d >= 0 \/ d = deltaFrameSeqNo)
        BY <2>2
    <2>4. Assembles(t, f) => d >= 0
        BY <2>1, <2>2 DEF Assembles, Unfinished, Handled
    <2> HIDE DEF d
    <2>5. Handled'
        BY <1>1, <2>1, <2>3, <2>4, StoreHandled
    <2>6. QED
        BY <1>1, <2>5, HandledFetching
<1>2. CASE Fetches /\ Ignore
    <2>1. Handled
        BY <1>2, FetchingHandled
    <2>2. Handled'
        BY <1>2, <2>1
        DEF Ignore, Handled, estimation, Balanced, Counted, KeysCounted, DeltasCounted
    <2>3. QED
        BY <1>2, <2>2, HandledFetching
<1>3. CASE ~Fetches /\ Ignore
    BY <1>3 DEF Ignore, estimation, IInv, TypeOK, NoDeltaYet, ValidFetches, WindowBalance,
       AboveFailedWindow, BlindInWaitInitial, NeverWedged, KeyCounted, KeysKeepUp,
       FailedSince, Fetches
<1>4. QED
    BY <1>1, <1>2, <1>3, Zenon DEF Consume

-----------------------------------------------------------------------------
(* The actions.                                                             *)

(* Rebuffering establishes the invariant of WaitInitial.                    *)
LEMMA RebufferInv ==
    ASSUME IInv, NEW t \in MediaThreads, NEW kept \in [RightmostInterests -> Nat],
           isConsuming' = isConsuming, thread' = t, window' = window,
           isRunning' = FALSE,
           Rebuffer(t, kept)
    PROVE  IInv'
<1> DEFINE earlier == [i \in RightmostInterests |->
                          IF i.stale THEN kept[i] + kept[[i EXCEPT !.stale = FALSE]] ELSE 0]
           e == ExcludeUpTo(buffer.nextKey)
           mine == Rightmost(t, e)
<1>1. buffer.nextKey \in Int
    BY DEF IInv, TypeOK
<1>2. e \in Excludes
    BY <1>1 DEF ExcludeUpTo, Excludes
<1>3. mine \in RightmostInterests /\ mine.thread = t /\ ~mine.stale
    BY <1>2 DEF Rightmost, RightmostInterests
<1>4. earlier \in [RightmostInterests -> Nat]
    <2>1. ASSUME NEW i \in RightmostInterests
          PROVE  [i EXCEPT !.stale = FALSE] \in RightmostInterests
        BY DEF RightmostInterests
    <2>2. QED
        BY <2>1
<1>5. rightmosts' = Plus(earlier, mine)
    BY DEF Rebuffer
<1> HIDE DEF earlier, mine
<1>6. rightmosts' \in [RightmostInterests -> Nat] /\ rightmosts'[mine] > 0
    BY <1>3, <1>4, <1>5 DEF Plus
<1>7. NeverWedged'
    BY <1>3, <1>6 DEF NeverWedged
<1>8. buffer' \in BufferType /\ buffer'.lastKey = -1
      /\ \A f \in Frames : buffer'.slots[f] = "free"
    <2> DEFINE empty == [f \in Frames |-> "free"]
    <2>1. buffer \in BufferType
        BY DEF IInv, TypeOK, BufferType
    <2>2. empty \in [Frames -> SlotStates] /\ \A f \in Frames : empty[f] = "free"
        BY DEF SlotStates
    <2>3. buffer' = [slots |-> empty, lastKey |-> -1, nextKey |-> -1]
        BY DEF Rebuffer, ResetBuffer, EmptyBuffer
    <2> HIDE DEF empty
    <2>4. -1 \in Int
        OBVIOUS
    <2>5. buffer'.slots = empty /\ buffer'.lastKey = -1 /\ buffer' \in BufferType
        BY <2>1, <2>2, <2>3, <2>4 DEF BufferType
    <2>6. QED
        BY <2>2, <2>5
<1>9. TypeOK'
    BY <1>6, <1>8, WindowAssumption DEF IInv, TypeOK, Rebuffer, States, BufferType
<1>10. ~Fetches' /\ NoDeltaYet' /\ ValidFetches' /\ WindowBalance'
    BY <1>8 DEF Rebuffer, Fetches, NoDeltaYet, ValidFetches, WindowBalance, Frames
<1>11. FailedSince' /\ AboveFailedWindow'
    <2>1. DefaultMinWindow <= failedWindow /\ failedWindow < window.dw
          /\ failedWindow \in Nat /\ window.dw \in Nat
        BY DEF IInv, AboveFailedWindow, FailedSince, TypeOK
    <2>2. QED
        BY <2>1, WindowAssumption DEF Rebuffer, AboveFailedWindow, FailedSince
<1>12. KeyCounted' /\ KeysKeepUp'
    BY <1>8, <1>10 DEF KeyCounted, KeysKeepUp, HasMeta, Frames
<1>13. BlindInWaitInitial'
    BY DEF Rebuffer, BlindInWaitInitial
<1>14. QED
    BY <1>7, <1>9, <1>10, <1>11, <1>12, <1>13 DEF IInv

(* The invariant holds when the Consumer is started.                        *)
LEMMA InitInv == Init => IInv
<1> SUFFICES ASSUME Init PROVE IInv
    OBVIOUS
<1> DEFINE mine == Rightmost(thread, "nothing")
<1>1. thread \in MediaThreads /\ rightmosts = [NoInterests EXCEPT ![mine] = 1]
    BY DEF Init
<1>2. mine \in RightmostInterests /\ mine.thread = thread /\ ~mine.stale
    BY <1>1 DEF Rightmost, RightmostInterests, Excludes
<1> HIDE DEF mine
<1>3. rightmosts \in [RightmostInterests -> Nat] /\ NeverWedged
    BY <1>1, <1>2 DEF NoInterests, NeverWedged
<1>4. buffer \in BufferType /\ buffer.lastKey = -1 /\ \A f \in Frames : buffer.slots[f] = "free"
    BY UninitializedAssumption DEF Init, EmptyBuffer, BufferType, SlotStates
<1>5. window = WindowInit /\ WindowInit \in WindowType /\ WindowInit.dw = DefaultWindow
      /\ WindowInit.pool = {}
    BY WindowAssumption DEF Init, WindowInit, WindowType
<1>6. TypeOK
    BY <1>3, <1>4, <1>5, WindowAssumption DEF Init, TypeOK, States, BufferType, WindowType
<1>7. ~Fetches /\ NoDeltaYet /\ ValidFetches /\ WindowBalance /\ KeyCounted /\ KeysKeepUp
    BY <1>4 DEF Init, Fetches, NoDeltaYet, ValidFetches, WindowBalance, KeyCounted,
       KeysKeepUp, HasMeta, Frames
<1>8. IsFiniteSet(window.pool) /\ FailedSince /\ AboveFailedWindow
    BY <1>5, FS_EmptySet, WindowAssumption DEF Init, AboveFailedWindow, FailedSince
<1>9. BlindInWaitInitial
    BY DEF Init, BlindInWaitInitial
<1>10. QED
    BY <1>3, <1>6, <1>7, <1>8, <1>9 DEF IInv

(* The answer to a request for the rightmost key keeps the invariant.       *)
LEMMA RightmostDataInv ==
    ASSUME IInv, NEW i \in RightmostInterests, NEW k \in 0..MaxKey, RightmostData(i, k)
    PROVE  IInv'
<1>1. rightmosts' \in [RightmostInterests -> Nat] /\ checkpoint' = TRUE
    BY DEF RightmostData, Minus, IInv, TypeOK
<1>2. Key(k) \in Frames /\ k \in Nat /\ k + 1 \in 0..(MaxKey + 1) /\ Produced(Key(k))
    BY PacketsAssumption DEF Key, Keys, Frames, Produced
<1>3. CASE ~(state = "WaitInitial" /\ i.thread = thread)
    BY <1>1, <1>2, <1>3, ConsumeInv DEF RightmostData
<1>4. CASE state = "WaitInitial" /\ i.thread = thread
    <2>1. /\ seedFrameNo' = PlaybackNo(Key(k))
          /\ window' = WindowInit
          /\ valid' = TRUE
          /\ buffer' = RequestNextKey(buffer, k + 1)
          /\ refused' = IF FreeSlots(buffer) > 0 THEN refused ELSE k + 1
          /\ state' = "Chasing"
          /\ UNCHANGED <<deltaFrameSeqNo, estimation, isRunning, isConsuming, thread, stale>>
        BY <1>4 DEF RightmostData
    <2>2. /\ buffer \in BufferType /\ buffer.lastKey = -1 /\ k + 1 \in Int /\ refused \in Int
          /\ \A f \in Frames : buffer.slots[f] = "free"
        BY <1>2, <1>4 DEF IInv, TypeOK, KeyCounted, BufferType
    <2>3. /\ buffer' \in BufferType
          /\ refused' \in Int
          /\ KeysCounted(buffer', refused')
          /\ \A f \in Deltas : buffer'.slots[f] = buffer.slots[f]
        <3>1. CASE FreeSlots(buffer) > 0
            <4> DEFINE p == [buffer EXCEPT !.slots[Key(k + 1)] = "new", !.lastKey = k + 1]
            <4>1. Key(k + 1) \in Keys /\ Key(k + 1) \in Frames
                BY <1>2 DEF Key, Keys, Frames
            <4>2. PrefetchKey(buffer, k + 1) = p
                BY <2>2, <3>1, <4>1 DEF PrefetchKey
            <4>3. buffer' = [p EXCEPT !.nextKey = k + 1 + 1]
                BY <2>1, <4>2 DEF RequestNextKey
            <4>4. /\ p \in BufferType /\ p.lastKey = k + 1
                  /\ \A f \in Frames : p.slots[f] = IF f = Key(k + 1) THEN "new"
                                                    ELSE buffer.slots[f]
                  /\ \A f \in Deltas : p.slots[f] = buffer.slots[f]
                  /\ \A f \in Keys : f = Key(k + 1) <=> f.no = k + 1
                BY <1>2, <2>2, KeySlot
            <4> HIDE DEF p
            <4>5. /\ buffer' \in BufferType /\ buffer'.slots = p.slots
                  /\ buffer'.lastKey = k + 1 /\ buffer'.nextKey = k + 1 + 1
                BY <2>2, <4>3, <4>4 DEF BufferType
            <4>6. \A f \in Keys : /\ buffer'.slots[f] # "free" => f.no <= buffer'.lastKey
                                  /\ buffer'.slots[f] \in HasMeta => Produced(f)
                BY <2>2, <4>4, <4>5 DEF HasMeta, Frames
            <4>7. KeysCounted(buffer', refused')
                BY <2>2, <4>5, <4>6 DEF KeysCounted
            <4>8. QED
                BY <2>1, <2>2, <3>1, <4>4, <4>5, <4>7
        <3>2. CASE ~(FreeSlots(buffer) > 0)
            <4>1. buffer' = [buffer EXCEPT !.nextKey = k + 1 + 1]
                BY <2>1, <3>2 DEF RequestNextKey, PrefetchKey
            <4>2. /\ buffer' \in BufferType /\ buffer'.slots = buffer.slots
                  /\ buffer'.lastKey = -1 /\ buffer'.nextKey = k + 1 + 1
                BY <2>2, <4>1 DEF BufferType
            <4>3. refused' = k + 1
                BY <2>1, <3>2
            <4>4. KeysCounted(buffer', refused')
                BY <1>2, <2>2, <4>2, <4>3 DEF KeysCounted, HasMeta, Frames
            <4>5. QED
                BY <2>2, <4>2, <4>3, <4>4
        <3>3. QED
            BY <3>1, <3>2
    <2>4. window' \in WindowType /\ window'.dw = DefaultWindow /\ window'.w = DefaultWindow
          /\ window'.pool = {}
        BY <2>1, WindowAssumption DEF WindowInit, WindowType
    <2>5. PlaybackNo(Key(k)) \in Int
        BY <1>2, FrameNumbers
    <2>6. TypeOK'
        BY <1>1, <2>1, <2>3, <2>4, <2>5
        DEF IInv, TypeOK, States, BufferType, WindowType, estimation
    <2>7. NoDeltaYet' /\ ValidFetches' /\ BlindInWaitInitial' /\ NeverWedged'
        BY <1>1, <1>4, <2>1, <2>3, <2>4
        DEF IInv, NoDeltaYet, ValidFetches, BlindInWaitInitial, NeverWedged, Fetches
    <2>8. IsFiniteSet(window'.pool) /\ WindowBalance'
        BY <2>4, FS_EmptySet, WindowAssumption DEF WindowBalance
    <2>9. FailedSince' /\ AboveFailedWindow'
        BY <1>4, <2>1, <2>4, WindowAssumption
        DEF IInv, AboveFailedWindow, FailedSince, estimation
    <2>10. KeyCounted' /\ KeysKeepUp'
        BY <1>4, <2>1, <2>2, <2>3
        DEF KeysCounted, KeyCounted, KeysKeepUp, Frames
    <2>11. QED
        BY <2>6, <2>7, <2>8, <2>9, <2>10 DEF IInv
<1>5. QED
    BY <1>3, <1>4

(* An answer that names no frame leaves the empty buffer empty, and a request
   outstanding.                                                             *)
LEMMA RightmostUnnamedInv ==
    ASSUME IInv, NEW i \in RightmostInterests, NEW k \in 0..MaxKey, RightmostUnnamed(i, k)
    PROVE  IInv'
<1> DEFINE again == Rightmost(thread, "nothing")
           empty == [f \in Frames |-> "free"]
<1>1. /\ rightmosts \in [RightmostInterests -> Nat] /\ rightmosts[i] > 0
      /\ again \in RightmostInterests /\ again.thread = thread /\ ~again.stale
    BY DEF RightmostUnnamed, Rightmost, RightmostInterests, Excludes, IInv, TypeOK
<1>2. Minus(rightmosts, i) \in [RightmostInterests -> Nat]
    BY <1>1 DEF Minus
<1>3. rightmosts' \in [RightmostInterests -> Nat]
    <2> HIDE DEF again
    <2>1. Plus(Minus(rightmosts, i), again) \in [RightmostInterests -> Nat]
        BY <1>1, <1>2 DEF Plus
    <2>2. QED
        BY <2>1 DEF RightmostUnnamed, again
<1>4. /\ buffer' \in BufferType /\ buffer'.lastKey = -1
      /\ \A f \in Frames : buffer'.slots[f] = "free"
    <2>1. buffer' = [slots |-> empty, lastKey |-> -1, nextKey |-> buffer.nextKey]
        BY DEF RightmostUnnamed, EmptyBuffer
    <2>2. empty \in [Frames -> SlotStates] /\ \A f \in Frames : empty[f] = "free"
        BY DEF SlotStates
    <2>3. buffer.nextKey \in Int /\ -1 \in Int
        BY DEF IInv, TypeOK
    <2> HIDE DEF empty
    <2>4. buffer'.slots = empty /\ buffer'.lastKey = -1 /\ buffer' \in BufferType
        BY <2>1, <2>2, <2>3 DEF BufferType
    <2>5. QED
        BY <2>2, <2>4
<1>5. PlaybackNo(Key(k)) \in Int
    <2>1. Key(k) \in Frames
        BY PacketsAssumption DEF Key, Keys, Frames
    <2>2. QED
        BY <2>1, FrameNumbers
<1>6. TypeOK'
    BY <1>3, <1>4, <1>5 DEF RightmostUnnamed, estimation, IInv, TypeOK, BufferType
<1>7. ~Fetches' /\ NoDeltaYet' /\ KeyCounted' /\ KeysKeepUp'
    BY <1>4 DEF RightmostUnnamed, Fetches, NoDeltaYet, KeyCounted, KeysKeepUp, HasMeta, Frames
<1>8. ~isRunning' /\ ValidFetches'
    BY <1>7 DEF RightmostUnnamed, IInv, ValidFetches, Fetches
<1>9. QED
    BY <1>6, <1>7, <1>8
    DEF RightmostUnnamed, estimation, IInv, WindowBalance, FailedSince, AboveFailedWindow,
        BlindInWaitInitial, NeverWedged

(* Every handler keeps the invariant.                                       *)
LEMMA NextInv == IInv /\ [Next]_vars => IInv'
<1> SUFFICES ASSUME IInv, [Next]_vars PROVE IInv'
    OBVIOUS
<1>1. CASE Stop
    BY <1>1 DEF Stop, estimation, IInv, TypeOK, States, NoDeltaYet, ValidFetches,
       WindowBalance, AboveFailedWindow, BlindInWaitInitial, NeverWedged, KeyCounted, KeysKeepUp,
       FailedSince, Fetches
<1>2. CASE TriggerRebuffering
    <2>1. PICK queued \in SUBSET {i \in RightmostInterests : rightmosts[i] > 0} :
             Rebuffer(thread, [i \in RightmostInterests |->
                         IF i \in queued THEN rightmosts[i] - 1 ELSE rightmosts[i]])
        BY <1>2 DEF TriggerRebuffering
    <2> DEFINE kept == [i \in RightmostInterests |->
                         IF i \in queued THEN rightmosts[i] - 1 ELSE rightmosts[i]]
    <2>2. rightmosts \in [RightmostInterests -> Nat] /\ thread \in MediaThreads
        BY DEF IInv, TypeOK
    <2>3. kept \in [RightmostInterests -> Nat]
        BY <2>2
    <2>4. Rebuffer(thread, kept)
        BY <2>1
    <2> HIDE DEF kept
    <2>5. QED
        BY <1>2, <2>2, <2>3, <2>4, RebufferInv DEF TriggerRebuffering
<1>3. ASSUME NEW t \in MediaThreads, SwitchThread(t) PROVE IInv'
    <2>1. rightmosts \in [RightmostInterests -> Nat]
        BY DEF IInv, TypeOK
    <2>2. QED
        BY <1>3, <2>1, RebufferInv DEF SwitchThread
<1>4. ASSUME NEW t \in MediaThreads, NEW f \in Frames, FrameData(t, f) PROVE IInv'
    <2>1. rightmosts \in [RightmostInterests -> Nat]
        BY DEF IInv, TypeOK
    <2>2. QED
        BY <1>4, <2>1, ConsumeInv, Zenon DEF FrameData
<1>5. ASSUME NEW i \in RightmostInterests, RightmostTimeout(i) PROVE IInv'
    <2> DEFINE again == Rightmost(thread, "nothing")
    <2>1. /\ rightmosts \in [RightmostInterests -> Nat] /\ rightmosts[i] > 0
          /\ again \in RightmostInterests /\ again.thread = thread /\ ~again.stale
        BY <1>5 DEF RightmostTimeout, Rightmost, RightmostInterests, Excludes, IInv, TypeOK
    <2>2. Minus(rightmosts, i) \in [RightmostInterests -> Nat]
        BY <2>1 DEF Minus
    <2>3. /\ Plus(Minus(rightmosts, i), again) \in [RightmostInterests -> Nat]
          /\ Plus(Minus(rightmosts, i), again)[again] > 0
        <3> HIDE DEF again
        <3>1. QED BY <2>1, <2>2 DEF Plus
    <2>4. rightmosts' \in [RightmostInterests -> Nat]
        BY <1>5, <2>2, <2>3 DEF RightmostTimeout
    <2>5. NeverWedged'
        <3>1. CASE state = "WaitInitial" /\ i.thread = thread
            BY <1>5, <2>1, <2>3, <3>1 DEF RightmostTimeout, NeverWedged
        <3>2. CASE isConsuming /\ ~checkpoint /\ ~(state = "WaitInitial" /\ i.thread = thread)
            <4>1. i.thread # thread
                BY <3>2 DEF IInv, BlindInWaitInitial
            <4>2. PICK j \in RightmostInterests :
                     j.thread = thread /\ ~j.stale /\ rightmosts[j] > 0
                BY <3>2 DEF IInv, NeverWedged
            <4>3. rightmosts'[j] = rightmosts[j] /\ UNCHANGED <<isConsuming, thread>>
                BY <1>5, <2>1, <3>2, <4>1, <4>2 DEF RightmostTimeout, Minus
            <4>4. QED
                BY <4>2, <4>3 DEF NeverWedged
        <3>3. CASE ~(isConsuming /\ ~checkpoint)
            BY <1>5, <3>3 DEF RightmostTimeout, NeverWedged
        <3>4. QED
            BY <3>1, <3>2, <3>3
    <2>6. QED
        BY <1>5, <2>4, <2>5
        DEF RightmostTimeout, estimation, IInv, TypeOK, NoDeltaYet, ValidFetches,
            WindowBalance, AboveFailedWindow, BlindInWaitInitial, KeyCounted, KeysKeepUp,
            FailedSince, Fetches
<1>6. CASE ProcessPlayout
    <2>1. Fetches
        BY <1>6 DEF ProcessPlayout, IInv, ValidFetches
    <2>2. Handled
        BY <2>1, FetchingHandled
    <2>3. buffer' \in BufferType /\ refused' \in Int /\ Counted(buffer', refused')
          /\ \A f \in Deltas : buffer'.slots[f] \in {buffer.slots[f], "free"}
        <3>1. /\ buffer' \in Plays(buffer)
              /\ refused' = TurnedAway(buffer, buffer', refused)
            BY <1>6 DEF ProcessPlayout
        <3>2. buffer \in BufferType /\ refused \in Int /\ Counted(buffer, refused)
            BY <2>2 DEF Handled
        <3>3. QED
            BY <3>1, <3>2, PlaysBuffer
    <2>4. TypeOK'
        BY <1>6, <2>3 DEF ProcessPlayout, estimation, IInv, TypeOK, BufferType
    <2>5. KeyCounted' /\ KeysKeepUp'
        <3>1. KeyCounted'
            BY <1>6, <2>1, <2>3
            DEF ProcessPlayout, Fetches, Counted, KeysCounted, DeltasCounted, KeyCounted
        <3>2. buffer'.lastKey \in Int /\ buffer'.nextKey \in Int
            BY <2>3 DEF BufferType
        <3>3. \A f \in Deltas : Paired(f) \in Int
            BY FrameNumbers DEF Frames
        <3>4. QED
            BY <2>3, <3>1, <3>2, <3>3
            DEF Counted, KeysCounted, DeltasCounted, KeysKeepUp
    <2>6. NoDeltaYet'
        BY <1>6, <2>3 DEF ProcessPlayout, Fetches, IInv, NoDeltaYet
    <2>7. QED
        BY <1>6, <2>4, <2>5, <2>6
        DEF ProcessPlayout, estimation, IInv, ValidFetches, WindowBalance, FailedSince,
            AboveFailedWindow, BlindInWaitInitial, NeverWedged, Fetches
<1>7. ASSUME NEW i \in RightmostInterests, NEW k \in 0..MaxKey, RightmostUnnamed(i, k)
      PROVE  IInv'
    BY <1>7, RightmostUnnamedInv
<1>8. CASE UNCHANGED vars
    BY <1>8 DEF vars, estimation, IInv, TypeOK, NoDeltaYet, ValidFetches, WindowBalance,
       AboveFailedWindow, BlindInWaitInitial, NeverWedged, KeyCounted, KeysKeepUp,
       FailedSince, Fetches
<1>9. QED
    BY <1>1, <1>2, <1>3, <1>4, <1>5, <1>6, <1>7, <1>8, RightmostDataInv DEF Next

(* The invariant holds in every reachable state.                            *)
LEMMA IInvAlways == Spec => []IInv
BY InitInv, NextInv, PTL DEF Spec

(* Type correctness; in particular the pool never holds a frame number below
   0, although the delta counter starts from -1.                            *)
THEOREM TypeCorrect == Spec => []TypeOK
<1>1. IInv => TypeOK
    BY DEF IInv
<1>2. QED
    BY <1>1, IInvAlways, PTL

(* Whatever arrives, in whatever order, and however dw_ is changed, the part
   of the window that is free and the part that is in flight make dw_.      *)
THEOREM WindowAlwaysBalanced == Spec => []WindowBalance
<1>1. IInv => WindowBalance
    BY DEF IInv
<1>2. QED
    BY <1>1, IInvAlways, PTL

(* The window is never taken back to a size that was found too small.       *)
THEOREM NeverBackToFailed == Spec => []AboveFailedWindow
<1>1. IInv => AboveFailedWindow
    BY DEF IInv
<1>2. QED
    BY <1>1, IInvAlways, PTL

(* The playout never runs over a buffer that has been reset: the branch of
   processPlayout that would keep playoutMutex_ is never taken.             *)
THEOREM PlayoutNeedsValid == Spec => []RunningOnlyValid
<1>1. IInv => RunningOnlyValid
    BY DEF IInv, ValidFetches, RunningOnlyValid
<1>2. QED
    BY <1>1, IInvAlways, PTL

(* No delta frame that has data is newer than every key that has had a slot in
   this run, unless the key whose turn came found no slot free.             *)
THEOREM KeysAlwaysKeepUp == Spec => []KeysKeepUp
<1>1. IInv => KeysKeepUp
    BY DEF IInv
<1>2. QED
    BY <1>1, IInvAlways, PTL

(* A Consumer that recoveryCheck cannot help has a request outstanding.     *)
THEOREM AlwaysRecoverable == Spec => []NeverWedged
<1>1. IInv => NeverWedged
    BY DEF IInv
<1>2. QED
    BY <1>1, IInvAlways, PTL
=============================================================================
