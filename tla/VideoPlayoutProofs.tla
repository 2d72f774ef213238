-------------------------- MODULE VideoPlayoutProofs --------------------------
(***************************************************************************)
(* Proofs about FrameBuffer and VideoPlayout, for any number of slots, GOP,  *)
(* bounds and intervals between clean-ups, with and without FEC.             *)
(***************************************************************************)
EXTENDS VideoPlayout, FiniteSetTheorems, TLAPS

-----------------------------------------------------------------------------
(* Arranging the elements of a sequence.                                     *)

(* The positions before each position order them strictly and totally.       *)
Orders(before, P) ==
    /\ before \in [P -> SUBSET P]
    /\ \A p \in P : p \notin before[p]
    /\ \A p, q \in P : p # q => p \in before[q] \/ q \in before[p]
    /\ \A p, q, r \in P : p \in before[q] /\ q \in before[r] => p \in before[r]

(* Each position of a finite set P comes exactly once, and after those before
   it.                                                                       *)
LEMMA ArrangedInOrder ==
    ASSUME NEW s, NEW P, IsFiniteSet(P), NEW before, Orders(before, P)
    PROVE  \E e \in Bijection(1..Cardinality(P), P) :
              /\ Arranged(s, before) = [n \in 1..Cardinality(P) |-> s[e[n]]]
              /\ \A n, m \in 1..Cardinality(P) : n < m => e[n] \in before[e[m]]
<1> DEFINE N == Cardinality(P)
           rank == [p \in P |-> Cardinality(before[p]) + 1]
           e == [n \in 1..N |-> CHOOSE p \in P : Cardinality(before[p]) = n - 1]
<1>0. /\ before \in [P -> SUBSET P]
      /\ \A p \in P : p \notin before[p]
      /\ \A p, q \in P : p # q => p \in before[q] \/ q \in before[p]
      /\ \A p, q, r \in P : p \in before[q] /\ q \in before[r] => p \in before[r]
    BY DEF Orders
<1>1. N \in Nat
    BY FS_CardinalityType
<1>2. ASSUME NEW p \in P
      PROVE  /\ IsFiniteSet(before[p])
             /\ Cardinality(before[p]) \in 0..(N - 1)
    <2>1. before[p] \subseteq P \ {p}
        BY <1>0
    <2>2. IsFiniteSet(P \ {p}) /\ Cardinality(P \ {p}) = N - 1
        BY FS_RemoveElement
    <2>3. IsFiniteSet(before[p]) /\ Cardinality(before[p]) <= N - 1
        BY <2>1, <2>2, FS_Subset
    <2>4. Cardinality(before[p]) \in Nat
        BY <2>3, FS_CardinalityType
    <2>5. QED
        BY <1>1, <2>3, <2>4
<1>3. ASSUME NEW p \in P, NEW q \in P, p \in before[q]
      PROVE  Cardinality(before[p]) < Cardinality(before[q])
    <2>1. p \notin before[p] /\ before[p] \cup {p} \subseteq before[q]
        BY <1>0, <1>3
    <2>2. IsFiniteSet(before[p]) /\ IsFiniteSet(before[q])
        BY <1>2
    <2>3. Cardinality(before[p] \cup {p}) = Cardinality(before[p]) + 1
        BY <2>1, <2>2, FS_AddElement
    <2>4. Cardinality(before[p] \cup {p}) <= Cardinality(before[q])
        BY <2>1, <2>2, FS_Subset
    <2>5. Cardinality(before[p]) \in Nat /\ Cardinality(before[q]) \in Nat
        BY <2>2, FS_CardinalityType
    <2>6. QED
        BY <2>3, <2>4, <2>5
<1>4. \A p, q \in P : Cardinality(before[p]) = Cardinality(before[q]) => p = q
    <2>1. \A p, q \in P : p # q => \/ Cardinality(before[p]) < Cardinality(before[q])
                                   \/ Cardinality(before[q]) < Cardinality(before[p])
        BY <1>0, <1>3
    <2>2. \A p \in P : Cardinality(before[p]) \in Int
        BY <1>1, <1>2
    <2>3. QED
        BY <2>1, <2>2
<1>5. rank \in Surjection(P, 1..N)
    <2>1. rank \in [P -> 1..N]
        BY <1>1, <1>2
    <2>2. \A p, q \in P : rank[p] = rank[q] => p = q
        <3>1. \A p \in P : Cardinality(before[p]) \in Int
            BY <1>1, <1>2
        <3>2. QED
            BY <1>4, <3>1
    <2> HIDE DEF rank
    <2>3. rank \in Injection(P, 1..N)
        BY <2>1, <2>2 DEF Injection, IsInjective
    <2>4. IsFiniteSet(1..N) /\ Cardinality(1..N) = N
        BY <1>1, FS_Interval
    <2>5. QED
        BY <2>3, <2>4, FS_Injection
<1>6. \A n \in 1..N : e[n] \in P /\ Cardinality(before[e[n]]) = n - 1
    <2> SUFFICES ASSUME NEW n \in 1..N
                 PROVE  \E p \in P : Cardinality(before[p]) = n - 1
        OBVIOUS
    <2>1. PICK p \in P : rank[p] = n
        BY <1>5 DEF Surjection
    <2>2. Cardinality(before[p]) \in Int
        BY <1>1, <1>2
    <2>3. QED
        BY <2>1, <2>2
<1>7. Arranged(s, before) = [n \in 1..N |-> s[e[n]]]
    BY <1>0 DEF Arranged
<1> HIDE DEF e
<1>8. e \in [1..N -> P]
    BY <1>6 DEF e
<1>9. e \in Bijection(1..N, P)
    <2>1. \A n, m \in 1..N : e[n] = e[m] => n = m
        BY <1>1, <1>6
    <2>2. ASSUME NEW p \in P PROVE \E n \in 1..N : e[n] = p
        <3>1. Cardinality(before[p]) + 1 \in 1..N
            BY <1>1, <1>2
        <3>2. Cardinality(before[e[Cardinality(before[p]) + 1]]) = Cardinality(before[p])
            BY <1>2, <1>6, <3>1
        <3>3. QED
            BY <1>4, <1>6, <3>1, <3>2
    <2>3. QED
        BY <1>8, <2>1, <2>2 DEF Bijection, Injection, Surjection, IsInjective
<1>10. ASSUME NEW n \in 1..N, NEW m \in 1..N, n < m
       PROVE  e[n] \in before[e[m]]
    <2>1. e[n] \in P /\ e[m] \in P /\ Cardinality(before[e[n]]) = n - 1
                     /\ Cardinality(before[e[m]]) = m - 1
        BY <1>6
    <2>2. e[n] # e[m]
        BY <1>1, <1>10, <2>1
    <2>3. e[m] \in before[e[n]] => m - 1 < n - 1
        BY <1>3, <2>1
    <2>4. QED
        BY <1>0, <1>1, <1>10, <2>1, <2>2, <2>3
<1>11. QED
    BY <1>7, <1>9, <1>10

(* Sequence a has elements of s, in the order of their positions.            *)
Follows(a, s, before) ==
    \A n, m \in DOMAIN a :
        n < m => \E p, q \in DOMAIN before : p \in before[q] /\ a[n] = s[p] /\ a[m] = s[q]

(* What is at the positions P of a sequence of distinct elements, when these
   are arranged: each once and in the new order.                             *)
LEMMA ArrangedSequence ==
    ASSUME NEW S, NEW s \in Seq(S), IsInjective(s), NEW P, P \subseteq DOMAIN s,
           NEW before, Orders(before, P)
    PROVE  LET a == Arranged(s, before)
           IN  /\ a \in Seq(S)
               /\ IsInjective(a)
               /\ Range(a) = {s[p] : p \in P}
               /\ Follows(a, s, before)
<1> DEFINE a == Arranged(s, before)
           N == Cardinality(P)
<1>1. IsFiniteSet(P) /\ N \in Nat
    <2>1. DOMAIN s = 1..Len(s) /\ Len(s) \in Nat
        OBVIOUS
    <2>2. IsFiniteSet(1..Len(s))
        BY <2>1, FS_Interval
    <2>3. IsFiniteSet(P)
        BY <2>1, <2>2, FS_Subset
    <2>4. QED
        BY <2>3, FS_CardinalityType
<1>2. PICK e \in Bijection(1..N, P) :
              /\ a = [n \in 1..N |-> s[e[n]]]
              /\ \A n, m \in 1..N : n < m => e[n] \in before[e[m]]
    BY <1>1, ArrangedInOrder
<1>3. /\ e \in [1..N -> P]
      /\ \A n, m \in 1..N : e[n] = e[m] => n = m
      /\ \A p \in P : \E n \in 1..N : e[n] = p
    BY DEF Bijection, Injection, Surjection, IsInjective
<1> HIDE DEF a, N
<1>4. \A p \in P : s[p] \in S
    OBVIOUS
<1>5. a \in Seq(S) /\ DOMAIN a = 1..N
    BY <1>1, <1>2, <1>3, <1>4
<1>6. IsInjective(a)
    <2>1. \A p, q \in P : s[p] = s[q] => p = q
        BY DEF IsInjective
    <2>2. QED
        BY <1>2, <1>3, <1>5, <2>1 DEF IsInjective
<1>7. Range(a) = {s[p] : p \in P}
    <2>1. \A n \in 1..N : a[n] = s[e[n]] /\ e[n] \in P
        BY <1>2, <1>3
    <2>2. QED
        BY <1>3, <1>5, <2>1 DEF Range
<1>8. Follows(a, s, before)
    <2>1. DOMAIN before = P
        BY DEF Orders
    <2>2. \A n, m \in 1..N :
              n < m => \E p, q \in P : p \in before[q] /\ a[n] = s[p] /\ a[m] = s[q]
        BY <1>2, <1>3
    <2>3. QED
        BY <1>5, <2>1, <2>2 DEF Follows
<1>9. QED
    BY <1>5, <1>6, <1>7, <1>8 DEF a

(* PartOf keeps the order.                                                   *)
LEMMA PartOfSequence ==
    ASSUME NEW S, NEW s \in Seq(S), IsInjective(s), NEW P, P \subseteq DOMAIN s
    PROVE  /\ PartOf(s, P) \in Seq(S)
           /\ IsInjective(PartOf(s, P))
           /\ Range(PartOf(s, P)) = {s[p] : p \in P}
           /\ \A n, m \in DOMAIN PartOf(s, P) :
                 n < m => \E p, q \in P : p < q /\ PartOf(s, P)[n] = s[p] /\ PartOf(s, P)[m] = s[q]
<1> DEFINE before == [p \in P |-> {q \in P : q < p}]
<1>1. P \subseteq Nat
    OBVIOUS
<1>2. \A p, q \in P : p \in before[q] <=> p < q
    OBVIOUS
<1>3. Orders(before, P)
    <2>1. before \in [P -> SUBSET P]
        OBVIOUS
    <2>2. /\ \A p \in P : ~(p < p)
          /\ \A p, q \in P : p # q => p < q \/ q < p
          /\ \A p, q, r \in P : p < q /\ q < r => p < r
        BY <1>1
    <2> HIDE DEF before
    <2>3. QED
        BY <1>2, <2>1, <2>2 DEF Orders
<1>4. PartOf(s, P) = Arranged(s, before)
    BY DEF PartOf
<1> HIDE DEF before
<1>5. LET a == Arranged(s, before)
      IN  /\ a \in Seq(S)
          /\ IsInjective(a)
          /\ Range(a) = {s[p] : p \in P}
          /\ Follows(a, s, before)
    BY <1>3, ArrangedSequence
<1>6. DOMAIN before = P
    BY DEF before
<1>7. QED
    BY <1>2, <1>4, <1>5, <1>6 DEF Follows

-----------------------------------------------------------------------------
(* The numbering of frames.                                                  *)

(* Sequence, paired and playback numbers are natural numbers.                *)
LEMMA FrameNumbers ==
    ASSUME NEW f \in Frames
    PROVE  /\ f.no \in Nat
           /\ f.kind \in {"key", "delta"}
           /\ f.kind = "delta" <=> f \in Deltas
           /\ f.kind = "key" <=> f \in Keys
           /\ Paired(f) \in Nat
           /\ PlaybackNo(f) \in Nat
<1>1. f.no \in Nat /\ f.kind \in {"key", "delta"} /\ (f.kind = "delta" <=> f \in Deltas)
                   /\ (f.kind = "key" <=> f \in Keys)
    BY PacketsAssumption DEF Frames, Keys, Deltas
<1>2. ASSUME NEW n \in Nat PROVE n * GOP \in Nat /\ n * (GOP + 1) \in Nat
    BY GOPAssumption
<1>3. ASSUME NEW n \in Nat PROVE n \div GOP \in Nat
    BY GOPAssumption
<1>4. QED
    BY <1>1, <1>2, <1>3 DEF Paired, PlaybackNo

(* Kind and number make the frame.                                           *)
LEMMA SameFrame ==
    \A f, g \in Frames : f.kind = g.kind /\ f.no = g.no => f = g
BY DEF Frames, Keys, Deltas

(* The delta frames of a key are numbered between it and the next key.       *)
LEMMA DeltaNumbers ==
    ASSUME NEW d \in Nat, NEW k \in Nat
    PROVE  /\ d + d \div GOP + 1 # k * (GOP + 1)
           /\ d < k * GOP => d + d \div GOP + 1 < k * (GOP + 1)
<1> DEFINE q == d \div GOP
<1>1. q \in Nat /\ q * GOP <= d /\ d < q * GOP + GOP
    BY GOPAssumption
<1> HIDE DEF q
<1>2. q < k => q * GOP + GOP <= k * GOP /\ q + 1 <= k
    <2> SUFFICES ASSUME q < k PROVE q * GOP + GOP <= k * GOP /\ q + 1 <= k
        OBVIOUS
    <2>1. PICK j \in Nat : k = q + 1 + j
        BY <1>1
    <2>2. k * GOP = q * GOP + GOP + j * GOP
        BY <1>1, <2>1, GOPAssumption
    <2>3. j * GOP \in Nat /\ q * GOP \in Nat
        BY <1>1, <2>1, GOPAssumption
    <2>4. QED
        BY <1>1, <2>1, <2>2, <2>3, GOPAssumption
<1>3. q >= k => q * GOP >= k * GOP
    <2> SUFFICES ASSUME q >= k PROVE q * GOP >= k * GOP
        OBVIOUS
    <2>1. PICK j \in Nat : q = k + j
        BY <1>1
    <2>2. q * GOP = k * GOP + j * GOP
        BY <1>1, <2>1, GOPAssumption
    <2>3. j * GOP \in Nat /\ k * GOP \in Nat
        BY <1>1, <2>1, GOPAssumption
    <2>4. QED
        BY <2>2, <2>3
<1>4. q * GOP \in Nat /\ k * GOP \in Nat /\ k * (GOP + 1) = k * GOP + k
    BY <1>1, GOPAssumption
<1>5. QED
    BY <1>1, <1>2, <1>3, <1>4, GOPAssumption DEF q

(* No two frames have the same playback number; and it grows along the frames
   of a kind and from the delta frames before a key frame to the key frame.  *)
LEMMA PlaybackNumbers ==
    /\ \A f, g \in Frames : PlaybackNo(f) = PlaybackNo(g) => f = g
    /\ \A f, g \in Frames : f.kind = g.kind /\ f.no < g.no => PlaybackNo(f) < PlaybackNo(g)
    /\ \A f, g \in Frames : /\ f.kind = "delta" /\ g.kind = "key" /\ f.no < Paired(g)
                            => PlaybackNo(f) < PlaybackNo(g)
<1>0. ASSUME NEW n \in Nat, NEW m \in Nat, n < m
      PROVE  n * (GOP + 1) < m * (GOP + 1)
    <2>1. PICK j \in Nat : m = n + 1 + j
        BY <1>0
    <2>2. m * (GOP + 1) = n * (GOP + 1) + (GOP + 1) + j * (GOP + 1)
        BY <2>1, GOPAssumption
    <2>3. n * (GOP + 1) \in Nat /\ j * (GOP + 1) \in Nat
        BY GOPAssumption
    <2>4. QED
        BY <2>2, <2>3, GOPAssumption
<1>1. ASSUME NEW f \in Frames, NEW g \in Frames, f.kind = g.kind, f.no < g.no
      PROVE  PlaybackNo(f) < PlaybackNo(g)
    <2>1. f.no \in Nat /\ g.no \in Nat
        BY FrameNumbers
    <2>3. f.no * (GOP + 1) < g.no * (GOP + 1)
        BY <1>0, <1>1, <2>1
    <2>4. f.no \div GOP <= g.no \div GOP /\ f.no \div GOP \in Nat /\ g.no \div GOP \in Nat
        BY <1>1, <2>1, GOPAssumption
    <2>5. QED
        BY <1>1, <2>1, <2>3, <2>4 DEF PlaybackNo
<1>2. ASSUME NEW f \in Frames, NEW g \in Frames, f.kind = "delta", g.kind = "key"
      PROVE  /\ PlaybackNo(f) # PlaybackNo(g)
             /\ f.no < Paired(g) => PlaybackNo(f) < PlaybackNo(g)
    <2>1. f.no \in Nat /\ g.no \in Nat
        BY FrameNumbers
    <2>2. QED
        BY <1>2, <2>1, DeltaNumbers DEF PlaybackNo, Paired
<1>3. ASSUME NEW f \in Frames, NEW g \in Frames, PlaybackNo(f) = PlaybackNo(g)
      PROVE  f = g
    <2>1. /\ f.no \in Nat /\ g.no \in Nat /\ PlaybackNo(f) \in Nat /\ PlaybackNo(g) \in Nat
          /\ f.kind \in {"key", "delta"} /\ g.kind \in {"key", "delta"}
        BY FrameNumbers
    <2>2. f.kind = g.kind
        BY <1>2, <1>3, <2>1
    <2>3. f.no = g.no
        BY <1>1, <1>3, <2>1, <2>2
    <2>4. QED
        BY <2>2, <2>3, SameFrame
<1>4. QED
    BY <1>1, <1>2, <1>3

-----------------------------------------------------------------------------
(* The playback queue.                                                       *)

(* The fields of c that are not in F are those of b.                         *)
SameBesides(c, b, F) ==
    /\ DOMAIN c = BufferFields
    /\ \A x \in BufferFields \ F : c[x] = b[x]

(* The slots of set X carry different frames.                                *)
Named(b, X) ==
    /\ \A i \in X : b.slots[i].frame \in Frames
    /\ \A i, j \in X : b.slots[i].frame = b.slots[j].frame => i = j

(* PlaybackComparator orders slots of different frames strictly and totally.  *)
LEMMA AscendingOrders ==
    ASSUME NEW b, NEW X, Named(b, X)
    PROVE  /\ \A i \in X : ~Ascending(b, i, i)
           /\ \A i, j \in X : i # j => Ascending(b, i, j) \/ Ascending(b, j, i)
           /\ \A i, j, k \in X : Ascending(b, i, j) /\ Ascending(b, j, k) => Ascending(b, i, k)
<1> DEFINE F(i) == b.slots[i].frame
<1>1. \A i \in X : /\ F(i) \in Frames /\ F(i).no \in Nat /\ PlaybackNo(F(i)) \in Nat
                   /\ F(i).kind \in {"key", "delta"}
    BY FrameNumbers DEF Named
<1>2. \A i, j \in X : i # j => /\ F(i) # F(j)
                               /\ PlaybackNo(F(i)) # PlaybackNo(F(j))
                               /\ F(i).kind = F(j).kind => F(i).no # F(j).no
    BY <1>1, PlaybackNumbers, SameFrame DEF Named
<1>3. \A i \in X : ~Ascending(b, i, i)
    BY <1>1 DEF Ascending
<1>4. \A i, j \in X : i # j => Ascending(b, i, j) \/ Ascending(b, j, i)
    BY <1>1, <1>2 DEF Ascending
<1>5. \A i, j, k \in X : Ascending(b, i, j) /\ Ascending(b, j, k) => Ascending(b, i, k)
    BY <1>1 DEF Ascending
<1>6. QED
    BY <1>3, <1>4, <1>5

(* The queue is one that can be sorted.                                      *)
Sortable(b) ==
    /\ DOMAIN b = BufferFields
    /\ b.playbackQueue \in Seq(SlotIds)
    /\ IsInjective(b.playbackQueue)
    /\ Named(b, Range(b.playbackQueue))

(* sort() sorts, and changes nothing but the order of the queue.             *)
LEMMA SortsQueue ==
    ASSUME NEW b, Sortable(b)
    PROVE  LET c == UpdatePlaybackDeadlines(b)
           IN  /\ SameBesides(c, b, {"playbackQueue"})
               /\ c.playbackQueue \in Seq(SlotIds)
               /\ IsInjective(c.playbackQueue)
               /\ Range(c.playbackQueue) = Range(b.playbackQueue)
               /\ Sorted(c)
<1> DEFINE q == b.playbackQueue
           before == [p \in DOMAIN q |-> {m \in DOMAIN q : Precedes(b, m, p)}]
           c == UpdatePlaybackDeadlines(b)
<1>1. q \in Seq(SlotIds) /\ IsInjective(q) /\ Named(b, Range(q)) /\ DOMAIN b = BufferFields
    BY DEF Sortable
<1>2. \A n \in DOMAIN q : n \in Nat /\ q[n] \in Range(q)
    BY <1>1 DEF Range
<1>3. \A n, m \in DOMAIN q : Precedes(b, n, m) <=> Ascending(b, q[n], q[m])
    <2>1. \A n, m \in DOMAIN q : n # m => q[n] # q[m]
        BY <1>1 DEF IsInjective
    <2>2. \A n, m \in DOMAIN q : n < m => n # m
        BY <1>2
    <2>3. QED
        BY <1>1, <1>2, <2>1, <2>2, AscendingOrders DEF Precedes
<1>4. Orders(before, DOMAIN q)
    <2>1. \A n, m \in DOMAIN q : n # m => q[n] # q[m]
        BY <1>1 DEF IsInjective
    <2>2. /\ \A n \in DOMAIN q : ~Precedes(b, n, n)
          /\ \A n, m \in DOMAIN q : n # m => Precedes(b, n, m) \/ Precedes(b, m, n)
          /\ \A n, m, k \in DOMAIN q : Precedes(b, n, m) /\ Precedes(b, m, k) => Precedes(b, n, k)
        BY <1>1, <1>2, <1>3, <2>1, AscendingOrders
    <2>3. before \in [DOMAIN q -> SUBSET DOMAIN q]
        OBVIOUS
    <2>4. QED
        BY <2>2, <2>3 DEF Orders
<1>5. /\ c.playbackQueue = Arranged(q, before)
      /\ SameBesides(c, b, {"playbackQueue"})
    BY <1>1 DEF UpdatePlaybackDeadlines, SameBesides, BufferFields
<1>6. \A n, m \in DOMAIN q : n \in before[m] => Ascending(b, q[n], q[m])
    BY <1>3
<1>7. DOMAIN before = DOMAIN q
    OBVIOUS
<1>8. \A i, j : Ascending(b, i, j) <=> Ascending(c, i, j)
    BY <1>5 DEF SameBesides, BufferFields, Ascending
<1> HIDE DEF before, q, c
<1>9. LET a == Arranged(q, before)
      IN  /\ a \in Seq(SlotIds)
          /\ IsInjective(a)
          /\ Range(a) = {q[p] : p \in DOMAIN q}
          /\ Follows(a, q, before)
    BY <1>1, <1>4, ArrangedSequence
<1>10. Range(q) = {q[p] : p \in DOMAIN q}
    BY DEF Range
<1>11. Sorted(c)
    BY <1>5, <1>6, <1>7, <1>8, <1>9 DEF Follows, Sorted
<1>12. QED
    BY <1>5, <1>9, <1>10, <1>11 DEF c, q

-----------------------------------------------------------------------------
(* Sequences of distinct elements.                                           *)

LEMMA FrontDistinct ==
    ASSUME NEW S, NEW s \in Seq(S), s # <<>>, IsInjective(s)
    PROVE  /\ Front(s) \in Seq(S) /\ IsInjective(Front(s))
           /\ Range(Front(s)) = Range(s) \ {Last(s)}
           /\ Last(s) \in Range(s) /\ Last(s) \in S
<1>1. Len(s) \in Nat \ {0} /\ DOMAIN s = 1..Len(s)
    OBVIOUS
<1>2. /\ Front(s) \in Seq(S) /\ DOMAIN Front(s) = 1..(Len(s) - 1)
      /\ \A n \in 1..(Len(s) - 1) : Front(s)[n] = s[n]
    BY <1>1 DEF Front
<1>3. Last(s) = s[Len(s)] /\ Last(s) \in S
    BY <1>1 DEF Last
<1>4. QED
    BY <1>1, <1>2, <1>3 DEF IsInjective, Range

LEMMA TailDistinct ==
    ASSUME NEW S, NEW s \in Seq(S), s # <<>>, IsInjective(s)
    PROVE  /\ Tail(s) \in Seq(S) /\ IsInjective(Tail(s))
           /\ Range(Tail(s)) = Range(s) \ {Head(s)}
           /\ Head(s) \in Range(s) /\ Head(s) \in S
<1>1. Len(s) \in Nat \ {0} /\ DOMAIN s = 1..Len(s)
    OBVIOUS
<1>2. /\ Tail(s) \in Seq(S) /\ DOMAIN Tail(s) = 1..(Len(s) - 1)
      /\ \A n \in 1..(Len(s) - 1) : Tail(s)[n] = s[n + 1]
    BY <1>1
<1>3. Head(s) = s[1] /\ Head(s) \in S
    BY <1>1
<1>4. \A n \in 1..(Len(s) - 1) : n + 1 \in 1..Len(s)
    BY <1>1
<1>5. IsInjective(Tail(s))
    BY <1>1, <1>2, <1>4 DEF IsInjective
<1>6. Range(Tail(s)) \subseteq Range(s) \ {Head(s)}
    BY <1>1, <1>2, <1>3, <1>4 DEF IsInjective, Range
<1>7. ASSUME NEW n \in 1..Len(s), n # 1
      PROVE  s[n] \in Range(Tail(s))
    <2>1. n - 1 \in 1..(Len(s) - 1) /\ (n - 1) + 1 = n
        BY <1>1, <1>7
    <2>2. Tail(s)[n - 1] = s[n]
        BY <1>2, <2>1
    <2>3. QED
        BY <1>2, <2>1, <2>2 DEF Range
<1>8. Range(s) \ {Head(s)} \subseteq Range(Tail(s))
    BY <1>1, <1>3, <1>7 DEF Range
<1>9. Head(s) \in Range(s)
    BY <1>1, <1>3 DEF Range
<1>10. QED
    BY <1>2, <1>3, <1>5, <1>6, <1>8, <1>9

LEMMA ConcatDistinct ==
    ASSUME NEW S, NEW s \in Seq(S), NEW t \in Seq(S), IsInjective(s), IsInjective(t),
           Range(s) \cap Range(t) = {}
    PROVE  /\ s \o t \in Seq(S) /\ IsInjective(s \o t)
           /\ Range(s \o t) = Range(s) \cup Range(t)
<1>1. /\ Len(s) \in Nat /\ DOMAIN s = 1..Len(s)
      /\ Len(t) \in Nat /\ DOMAIN t = 1..Len(t)
    OBVIOUS
<1>2. /\ s \o t \in Seq(S) /\ DOMAIN (s \o t) = 1..(Len(s) + Len(t))
      /\ \A n \in 1..(Len(s) + Len(t)) :
            (s \o t)[n] = IF n <= Len(s) THEN s[n] ELSE t[n - Len(s)]
    BY <1>1
<1>3. \A n \in 1..(Len(s) + Len(t)) : n <= Len(s) => n \in 1..Len(s)
    BY <1>1
<1>4. \A n \in 1..(Len(s) + Len(t)) : ~(n <= Len(s)) => n - Len(s) \in 1..Len(t)
    BY <1>1
<1>5. \A n \in 1..Len(t) : n + Len(s) \in 1..(Len(s) + Len(t)) /\ (n + Len(s)) - Len(s) = n
                           /\ ~(n + Len(s) <= Len(s))
    BY <1>1
<1> DEFINE u == s \o t
<1>6. Range(u) \subseteq Range(s) \cup Range(t)
    BY <1>1, <1>2, <1>3, <1>4 DEF Range
<1>7. Range(s) \subseteq Range(u)
    <2>1. \A n \in 1..Len(s) : n \in 1..(Len(s) + Len(t)) /\ n <= Len(s)
        BY <1>1
    <2>2. QED
        BY <1>1, <1>2, <2>1 DEF Range
<1>8. Range(t) \subseteq Range(u)
    <2>1. \A n \in 1..Len(t) : u[n + Len(s)] = t[n]
        BY <1>2, <1>5
    <2>2. QED
        BY <1>1, <1>2, <1>5, <2>1 DEF Range
<1>9. IsInjective(u)
    <2> HIDE DEF u
    <2> SUFFICES ASSUME NEW n \in 1..(Len(s) + Len(t)), NEW m \in 1..(Len(s) + Len(t)),
                        u[n] = u[m]
                 PROVE  n = m
        BY <1>2 DEF IsInjective, u
    <2>1. CASE n <= Len(s) /\ m <= Len(s)
        BY <2>1, <1>1, <1>2, <1>3 DEF IsInjective, u
    <2>2. CASE ~(n <= Len(s)) /\ ~(m <= Len(s))
        <3>1. t[n - Len(s)] = t[m - Len(s)]
            BY <2>2, <1>2 DEF u
        <3>2. n - Len(s) = m - Len(s)
            BY <3>1, <2>2, <1>1, <1>4 DEF IsInjective
        <3>3. QED
            BY <3>2, <1>1
    <2>3. CASE n <= Len(s) /\ ~(m <= Len(s))
        <3>1. u[n] = s[n] /\ u[m] = t[m - Len(s)]
            BY <2>3, <1>2 DEF u
        <3>2. u[n] \in Range(s) /\ u[m] \in Range(t)
            BY <3>1, <2>3, <1>1, <1>3, <1>4 DEF Range
        <3>3. QED
            BY <3>2
    <2>4. CASE ~(n <= Len(s)) /\ m <= Len(s)
        <3>1. u[m] = s[m] /\ u[n] = t[n - Len(s)]
            BY <2>4, <1>2 DEF u
        <3>2. u[m] \in Range(s) /\ u[n] \in Range(t)
            BY <3>1, <2>4, <1>1, <1>3, <1>4 DEF Range
        <3>3. QED
            BY <3>2
    <2>5. QED
        BY <2>1, <2>2, <2>3, <2>4
<1>10. QED
    BY <1>2, <1>6, <1>7, <1>8, <1>9

LEMMA SingletonDistinct ==
    ASSUME NEW S, NEW x \in S
    PROVE  <<x>> \in Seq(S) /\ IsInjective(<<x>>) /\ Range(<<x>>) = {x}
BY DEF IsInjective, Range

LEMMA AppendDistinct ==
    ASSUME NEW S, NEW s \in Seq(S), NEW x \in S, IsInjective(s), x \notin Range(s)
    PROVE  /\ Append(s, x) \in Seq(S) /\ IsInjective(Append(s, x))
           /\ Range(Append(s, x)) = Range(s) \cup {x}
<1>1. Append(s, x) = s \o <<x>>
    OBVIOUS
<1>2. <<x>> \in Seq(S) /\ IsInjective(<<x>>) /\ Range(<<x>>) = {x}
    BY SingletonDistinct
<1> DEFINE t == <<x>>
<1> HIDE DEF t
<1>3. t \in Seq(S) /\ IsInjective(t) /\ Range(t) = {x} /\ Append(s, x) = s \o t
    BY <1>1, <1>2 DEF t
<1>4. QED
    BY <1>3, ConcatDistinct

-----------------------------------------------------------------------------
(* A buffer that is sound.                                                   *)

(* The map and the slots agree about which slot is whose.                    *)
LEMMA KeptMap ==
    ASSUME NEW b, NEW out, Kept(b, out)
    PROVE  /\ \A f \in ActiveFrames(b) : /\ f \in Frames
                                         /\ b.activeSlots[f] \in SlotIds
                                         /\ b.activeSlots[f] \in Range(b.activeSlots)
                                         /\ b.slots[b.activeSlots[f]].frame = f
                                         /\ b.slots[b.activeSlots[f]].state # "free"
           /\ \A f, g \in ActiveFrames(b) : b.activeSlots[f] = b.activeSlots[g] => f = g
           /\ Range(b.activeSlots) \subseteq SlotIds
           /\ \A i \in Range(b.activeSlots) : /\ b.slots[i].frame \in ActiveFrames(b)
                                              /\ b.activeSlots[b.slots[i].frame] = i
           /\ Named(b, Range(b.activeSlots))
           /\ Sortable(b)
           /\ IsFiniteSet(ActiveFrames(b))
           /\ IsFiniteSet(ActiveFrames(b) \cap Keys)
<1>1. /\ DOMAIN b = BufferFields
      /\ b.slots \in [SlotIds -> [frame : Frames \cup {Nobody}, state : Buffer!SlotStates]]
      /\ \A i \in SlotIds : b.slots[i].state = "free" <=> b.slots[i].frame = Nobody
      /\ ActiveFrames(b) \subseteq Frames
      /\ b.activeSlots \in [ActiveFrames(b) -> SlotIds]
      /\ b.playbackQueue \in Seq(SlotIds)
      /\ \A f \in ActiveFrames(b) : b.slots[b.activeSlots[f]].frame = f
      /\ IsInjective(b.playbackQueue)
      /\ Range(b.playbackQueue) = Range(b.activeSlots) \ out
    BY DEF Kept, BufferTypeOK, Accounted, SlotOf
<1>2. Nobody \notin Frames
    BY DEF Nobody, Frames, Keys, Deltas
<1>3. \A f \in ActiveFrames(b) : b.activeSlots[f] \in SlotIds /\ b.activeSlots[f] \in Range(b.activeSlots)
    BY <1>1 DEF Range, ActiveFrames
<1>4. \A f, g \in ActiveFrames(b) : b.activeSlots[f] = b.activeSlots[g] => f = g
    BY <1>1
<1>5. \A i \in Range(b.activeSlots) : \E f \in ActiveFrames(b) : i = b.activeSlots[f]
    BY DEF Range, ActiveFrames
<1>6. Named(b, Range(b.activeSlots))
    BY <1>1, <1>5 DEF Named
<1>7. Sortable(b)
    BY <1>1, <1>6 DEF Sortable, Named
<1>8. IsFiniteSet(ActiveFrames(b))
    <2>1. b.activeSlots \in Injection(ActiveFrames(b), SlotIds)
        BY <1>1, <1>4 DEF Injection, IsInjective, ActiveFrames
    <2>2. QED
        BY <2>1, SlotIdsAssumption, FS_Injection
<1>9. IsFiniteSet(ActiveFrames(b) \cap Keys)
    BY <1>8, FS_Intersection
<1>10. QED
    BY <1>1, <1>2, <1>3, <1>4, <1>5, <1>6, <1>7, <1>8, <1>9

LEMMA SoundMap ==
    ASSUME NEW b, NEW out, Sound(b, out)
    PROVE  /\ \A f \in ActiveFrames(b) : /\ f \in Frames
                                         /\ b.activeSlots[f] \in SlotIds
                                         /\ b.activeSlots[f] \in Range(b.activeSlots)
                                         /\ b.slots[b.activeSlots[f]].frame = f
                                         /\ b.slots[b.activeSlots[f]].state # "free"
           /\ \A f, g \in ActiveFrames(b) : b.activeSlots[f] = b.activeSlots[g] => f = g
           /\ Range(b.activeSlots) \subseteq SlotIds
           /\ \A i \in Range(b.activeSlots) : /\ b.slots[i].frame \in ActiveFrames(b)
                                              /\ b.activeSlots[b.slots[i].frame] = i
           /\ Named(b, Range(b.activeSlots))
           /\ Sortable(b)
           /\ IsFiniteSet(ActiveFrames(b))
           /\ IsFiniteSet(ActiveFrames(b) \cap Keys)
BY KeptMap DEF Sound

(* A queue that is sorted is sorted but for late meta data.                  *)
LEMMA SortedEnough ==
    ASSUME NEW b, DOMAIN b = BufferFields, BufferTypeOK(b), Sorted(b)
    PROVE  SortedButForLate(b)
<1> DEFINE u == Unnoticed(b, {})
<1>1. u.slots = b.slots /\ u.playbackQueue = b.playbackQueue
    <2>1. b.slots = [i \in SlotIds |-> b.slots[i]]
        BY DEF BufferTypeOK
    <2>2. QED
        BY <2>1 DEF Unnoticed, BufferFields
<1>2. \A i, j : Ascending(b, i, j) <=> Ascending(u, i, j)
    <2> HIDE DEF u
    <2>1. QED
        BY <1>1 DEF Ascending
<1>3. Sorted(u)
    <2> HIDE DEF u
    <2>1. QED
        BY <1>1, <1>2 DEF Sorted
<1>4. {} \in Late(b)
    BY DEF Late
<1>5. QED
    BY <1>3, <1>4 DEF SortedButForLate

(* reserveSlot takes a slot out of the pool and into map and queue.          *)
LEMMA ReserveSlotSound ==
    ASSUME NEW b, NEW out, Sound(b, out), NEW f \in Frames, f \notin ActiveFrames(b),
           b.freeSlots # <<>>
    PROVE  LET c == ReserveSlot(b, f)
           IN  /\ Sound(c, out)
               /\ Sorted(c)
               /\ SameBesides(c, b, {"slots", "activeSlots", "freeSlots", "playbackQueue",
                                     "lastKeySeqNo", "nKeyFrames"})
               /\ ActiveFrames(c) = ActiveFrames(b) \cup {f}
               /\ SlotOf(c, f) = [frame |-> f, state |-> "new"]
               /\ \A g \in ActiveFrames(b) : /\ c.activeSlots[g] = b.activeSlots[g]
                                             /\ SlotOf(c, g) = SlotOf(b, g)
               /\ \A i \in SlotIds : c.slots[i] = b.slots[i] \/ c.slots[i].state = "new"
               /\ c.lastKeySeqNo = IF f.kind = "key" THEN f.no ELSE b.lastKeySeqNo
<1> DEFINE i == Last(b.freeSlots)
           a == [b EXCEPT !.freeSlots = Front(@),
                          !.slots[i] = [frame |-> f, state |-> "new"],
                          !.activeSlots = [g \in ActiveFrames(b) \cup {f} |->
                                              IF g = f THEN i ELSE @[g]],
                          !.playbackQueue = Append(@, i)]
           p == UpdatePlaybackDeadlines(a)
           c == ReserveSlot(b, f)
<1>1. /\ DOMAIN b = BufferFields
      /\ BufferTypeOK(b)
      /\ Accounted(b, out)
    BY DEF Sound, Kept
<1>2. /\ b.freeSlots \in Seq(SlotIds) /\ IsInjective(b.freeSlots)
      /\ b.playbackQueue \in Seq(SlotIds) /\ IsInjective(b.playbackQueue)
      /\ Range(b.freeSlots) = SlotIds \ Range(b.activeSlots)
      /\ Range(b.playbackQueue) = Range(b.activeSlots) \ out
      /\ out \subseteq Range(b.activeSlots)
      /\ b.nKeyFrames = Cardinality(ActiveFrames(b) \cap Keys)
    BY <1>1 DEF BufferTypeOK, Accounted
<1>3. /\ Front(b.freeSlots) \in Seq(SlotIds) /\ IsInjective(Front(b.freeSlots))
      /\ Range(Front(b.freeSlots)) = Range(b.freeSlots) \ {i}
      /\ i \in Range(b.freeSlots) /\ i \in SlotIds
    BY <1>2, FrontDistinct
<1>4. i \notin Range(b.activeSlots) /\ i \notin Range(b.playbackQueue)
    BY <1>2, <1>3
<1>5. /\ Append(b.playbackQueue, i) \in Seq(SlotIds) /\ IsInjective(Append(b.playbackQueue, i))
      /\ Range(Append(b.playbackQueue, i)) = Range(b.playbackQueue) \cup {i}
    BY <1>2, <1>3, <1>4, AppendDistinct
<1>6. /\ SameBesides(a, b, {"slots", "activeSlots", "freeSlots", "playbackQueue"})
      /\ a.slots = [b.slots EXCEPT ![i] = [frame |-> f, state |-> "new"]]
      /\ a.activeSlots = [g \in ActiveFrames(b) \cup {f} |-> IF g = f THEN i ELSE b.activeSlots[g]]
      /\ a.freeSlots = Front(b.freeSlots)
      /\ a.playbackQueue = Append(b.playbackQueue, i)
    BY <1>1 DEF SameBesides, BufferFields
<1>7. /\ c = IF f.kind = "key" THEN [p EXCEPT !.lastKeySeqNo = f.no, !.nKeyFrames = @ + 1] ELSE p
    BY DEF ReserveSlot
<1> HIDE DEF a, i
<1>8. /\ \A j \in SlotIds : a.slots[j] = IF j = i THEN [frame |-> f, state |-> "new"] ELSE b.slots[j]
      /\ \A g \in ActiveFrames(b) : a.activeSlots[g] = b.activeSlots[g]
      /\ a.activeSlots[f] = i
      /\ DOMAIN a.activeSlots = ActiveFrames(b) \cup {f}
      /\ a.slots \in [SlotIds -> [frame : Frames \cup {Nobody}, state : Buffer!SlotStates]]
      /\ a.activeSlots \in [ActiveFrames(b) \cup {f} -> SlotIds]
    <2>1. b.slots \in [SlotIds -> [frame : Frames \cup {Nobody}, state : Buffer!SlotStates]]
        BY <1>1 DEF BufferTypeOK
    <2>2. [frame |-> f, state |-> "new"] \in [frame : Frames \cup {Nobody}, state : Buffer!SlotStates]
        BY DEF Buffer!SlotStates
    <2>3. \A g \in ActiveFrames(b) : b.activeSlots[g] \in SlotIds
        BY SoundMap
    <2>4. QED
        BY <1>3, <1>6, <2>1, <2>2, <2>3
<1>9. Range(a.activeSlots) = Range(b.activeSlots) \cup {i}
    BY <1>8 DEF Range, ActiveFrames
<1>10. Named(a, Range(a.activeSlots))
    <2>1. \A j \in Range(b.activeSlots) : a.slots[j] = b.slots[j] /\ b.slots[j].frame \in ActiveFrames(b)
        BY <1>4, <1>8, SoundMap
    <2>2. a.slots[i].frame = f
        BY <1>3, <1>8
    <2>3. Named(b, Range(b.activeSlots))
        BY SoundMap
    <2>4. QED
        BY <1>9, <2>1, <2>2, <2>3 DEF Named
<1>11. Sortable(a)
    BY <1>2, <1>5, <1>6, <1>9, <1>10 DEF Sortable, Named, SameBesides
<1>12. /\ SameBesides(p, a, {"playbackQueue"})
       /\ p.playbackQueue \in Seq(SlotIds)
       /\ IsInjective(p.playbackQueue)
       /\ Range(p.playbackQueue) = Range(a.playbackQueue)
       /\ Sorted(p)
    BY <1>11, SortsQueue
<1> HIDE DEF p, c
<1>13. /\ SameBesides(c, p, {"lastKeySeqNo", "nKeyFrames"})
       /\ c.lastKeySeqNo = IF f.kind = "key" THEN f.no ELSE p.lastKeySeqNo
       /\ c.nKeyFrames = IF f.kind = "key" THEN p.nKeyFrames + 1 ELSE p.nKeyFrames
    BY <1>7, <1>12 DEF SameBesides, BufferFields
<1>14. /\ DOMAIN c = BufferFields
       /\ c.slots = a.slots /\ c.activeSlots = a.activeSlots /\ c.freeSlots = a.freeSlots
       /\ c.playbackQueue = p.playbackQueue
       /\ c.playbackNo = b.playbackNo /\ c.frameReleaseCount = b.frameReleaseCount
       /\ c.keyFrameSeqNo = b.keyFrameSeqNo
       /\ c.lastKeySeqNo = IF f.kind = "key" THEN f.no ELSE b.lastKeySeqNo
       /\ c.nKeyFrames = IF f.kind = "key" THEN b.nKeyFrames + 1 ELSE b.nKeyFrames
    BY <1>6, <1>12, <1>13 DEF SameBesides, BufferFields
<1>15. Sorted(c)
    <2>1. \A j, k : Ascending(p, j, k) <=> Ascending(c, j, k)
        BY <1>13 DEF Ascending, SameBesides, BufferFields
    <2>2. QED
        BY <1>12, <1>14, <2>1 DEF Sorted
<1>16. c.nKeyFrames = Cardinality(ActiveFrames(c) \cap Keys)
    <2>1. ActiveFrames(c) = ActiveFrames(b) \cup {f}
        BY <1>8, <1>14 DEF ActiveFrames
    <2>2. IsFiniteSet(ActiveFrames(b) \cap Keys)
        BY SoundMap
    <2>3. CASE f.kind = "key"
        <3>1. (ActiveFrames(b) \cup {f}) \cap Keys = (ActiveFrames(b) \cap Keys) \cup {f}
            BY <2>3, FrameNumbers
        <3>2. Cardinality((ActiveFrames(b) \cap Keys) \cup {f})
                = Cardinality(ActiveFrames(b) \cap Keys) + 1
            BY <2>2, FS_AddElement
        <3>3. QED
            BY <1>2, <1>14, <2>1, <2>3, <3>1, <3>2
    <2>4. CASE f.kind # "key"
        <3>1. (ActiveFrames(b) \cup {f}) \cap Keys = ActiveFrames(b) \cap Keys
            BY <2>4, FrameNumbers
        <3>2. QED
            BY <1>2, <1>14, <2>1, <2>4, <3>1
    <2>5. QED
        BY <2>3, <2>4
<1>17. BufferTypeOK(c)
    <2>1. /\ b.playbackNo \in Int
          /\ b.lastKeySeqNo \in -1..(MaxKey + 1)
          /\ b.nKeyFrames \in Nat
          /\ b.frameReleaseCount \in 0..(CleanEvery - 1)
          /\ b.keyFrameSeqNo \in Int
          /\ ActiveFrames(b) \subseteq Frames
          /\ \A j \in SlotIds : b.slots[j].state = "free" <=> b.slots[j].frame = Nobody
        BY <1>1 DEF BufferTypeOK
    <2>2. f.kind = "key" => f.no \in 0..(MaxKey + 1)
        BY FrameNumbers DEF Keys
    <2>3. f # Nobody
        BY DEF Nobody, Frames, Keys, Deltas
    <2>4. ActiveFrames(c) = ActiveFrames(b) \cup {f}
        BY <1>8, <1>14 DEF ActiveFrames
    <2>5. \A j \in SlotIds : c.slots[j].state = "free" <=> c.slots[j].frame = Nobody
        BY <1>8, <1>14, <2>1, <2>3
    <2>6. c.lastKeySeqNo \in -1..(MaxKey + 1) /\ c.nKeyFrames \in Nat
        BY <1>14, <2>1, <2>2, PacketsAssumption
    <2>7. c.freeSlots \in Seq(SlotIds) /\ c.playbackQueue \in Seq(SlotIds)
        BY <1>3, <1>6, <1>12, <1>14
    <2>8. QED
        BY <1>8, <1>14, <2>1, <2>4, <2>5, <2>6, <2>7 DEF BufferTypeOK
<1>18. \A g \in ActiveFrames(b) : SlotOf(c, g) = SlotOf(b, g) /\ c.activeSlots[g] = b.activeSlots[g]
    <2> SUFFICES ASSUME NEW g \in ActiveFrames(b)
                 PROVE  SlotOf(c, g) = SlotOf(b, g) /\ c.activeSlots[g] = b.activeSlots[g]
        OBVIOUS
    <2>0. b.activeSlots[g] \in SlotIds /\ b.activeSlots[g] \in Range(b.activeSlots)
        BY SoundMap
    <2>1. b.activeSlots[g] \in SlotIds /\ b.activeSlots[g] # i
        BY <1>4, <2>0
    <2>2. c.activeSlots[g] = b.activeSlots[g]
        BY <1>8, <1>14
    <2>3. c.slots[b.activeSlots[g]] = b.slots[b.activeSlots[g]]
        BY <1>8, <1>14, <2>1
    <2>4. QED
        BY <2>2, <2>3 DEF SlotOf
<1>19. SlotOf(c, f) = [frame |-> f, state |-> "new"]
    BY <1>3, <1>8, <1>14 DEF SlotOf
<1>20. Accounted(c, out)
    <2>1. ActiveFrames(c) = ActiveFrames(b) \cup {f}
        BY <1>8, <1>14 DEF ActiveFrames
    <2>2. \A g \in ActiveFrames(c) : SlotOf(c, g).frame = g
        <3>1. \A g \in ActiveFrames(b) : SlotOf(b, g).frame = g
            BY <1>1 DEF Accounted
        <3>2. QED
            BY <1>18, <1>19, <2>1, <3>1
    <2>3. Range(c.playbackQueue) = Range(c.activeSlots) \ out
        BY <1>2, <1>4, <1>5, <1>6, <1>9, <1>12, <1>14
    <2>4. Range(c.freeSlots) = SlotIds \ Range(c.activeSlots)
        BY <1>2, <1>3, <1>6, <1>9, <1>14
    <2>5. out \subseteq Range(c.activeSlots)
        BY <1>2, <1>9, <1>14
    <2>6. IsInjective(c.freeSlots) /\ IsInjective(c.playbackQueue)
        BY <1>3, <1>6, <1>12, <1>14
    <2>7. QED
        BY <1>16, <2>2, <2>3, <2>4, <2>5, <2>6 DEF Accounted
<1>21. Sound(c, out)
    BY <1>14, <1>15, <1>17, <1>20, SortedEnough DEF Sound, Kept
<1>22. SameBesides(c, b, {"slots", "activeSlots", "freeSlots", "playbackQueue",
                          "lastKeySeqNo", "nKeyFrames"})
    BY <1>14 DEF SameBesides, BufferFields
<1>23. \A j \in SlotIds : c.slots[j] = b.slots[j] \/ c.slots[j].state = "new"
    BY <1>8, <1>14
<1>24. ActiveFrames(c) = ActiveFrames(b) \cup {f}
    BY <1>8, <1>14 DEF ActiveFrames
<1>25. QED
    BY <1>14, <1>15, <1>18, <1>19, <1>21, <1>22, <1>23, <1>24 DEF c

-----------------------------------------------------------------------------
(* Asking for frames.                                                        *)

(* The abstract buffer is of the same frames.                                *)
LEMMA SamePackets ==
    /\ Buffer!Frames = Frames /\ Buffer!Keys = Keys /\ Buffer!Deltas = Deltas
    /\ \A k : Buffer!Key(k) = Key(k) /\ Buffer!Delta(k) = Delta(k)
    /\ \A f : /\ Buffer!Paired(f) = Paired(f) /\ Buffer!PlaybackNo(f) = PlaybackNo(f)
             /\ Buffer!Produced(f) <=> Produced(f)
BY DEF Buffer!Frames, Buffer!Keys, Buffer!Deltas, Buffer!Key, Buffer!Delta, Buffer!Paired,
       Buffer!PlaybackNo, Buffer!Produced, Frames, Keys, Deltas, Key, Delta, Paired,
       PlaybackNo, Produced

(* The abstract buffer knows which frames have a slot and whether there is a
   free one.                                                                 *)
LEMMA ViewSlots ==
    ASSUME NEW b, NEW out, Sound(b, out)
    PROVE  /\ Buffer!Active(View(b)) = ActiveFrames(b)
           /\ \A f \in Frames : View(b).slots[f] = "free" <=> f \notin ActiveFrames(b)
           /\ Buffer!FreeSlots(View(b)) > 0 <=> b.freeSlots # <<>>
           /\ Buffer!FreeSlots(View(b)) \in Nat
<1>1. \A f \in Frames : View(b).slots[f] = "free" <=> f \notin ActiveFrames(b)
    BY SoundMap DEF View, SlotOf
<1>2. Buffer!Active(View(b)) = ActiveFrames(b)
    <2>1. ActiveFrames(b) \subseteq Frames
        BY SoundMap
    <2>2. QED
        BY <1>1, <2>1, SamePackets DEF Buffer!Active
<1> DEFINE act == Range(b.activeSlots)
<1>3. /\ act \subseteq SlotIds
      /\ IsFiniteSet(ActiveFrames(b))
    BY SoundMap
<1>4. Cardinality(act) = Cardinality(ActiveFrames(b))
    <2>1. b.activeSlots \in [ActiveFrames(b) -> act]
        <3>1. b.activeSlots \in [ActiveFrames(b) -> SlotIds]
            BY DEF Sound, Kept, BufferTypeOK
        <3>2. \A f \in ActiveFrames(b) : b.activeSlots[f] \in act
            BY SoundMap
        <3>3. QED
            BY <3>1, <3>2
    <2>2. \A f, g \in ActiveFrames(b) : b.activeSlots[f] = b.activeSlots[g] => f = g
        BY SoundMap
    <2>3. \A i \in act : \E f \in ActiveFrames(b) : b.activeSlots[f] = i
        BY DEF Range, ActiveFrames
    <2>4. b.activeSlots \in Surjection(ActiveFrames(b), act)
        BY <2>1, <2>3 DEF Surjection
    <2>5. b.activeSlots \in Injection(ActiveFrames(b), act)
        BY <2>1, <2>2 DEF Injection, IsInjective
    <2>6. QED
        BY <1>3, <2>4, <2>5, FS_Surjection
<1> HIDE DEF act
<1>5. /\ Cardinality(SlotIds) \in Nat /\ Cardinality(act) \in Nat
      /\ Cardinality(act) <= Cardinality(SlotIds)
      /\ Cardinality(act) = Cardinality(SlotIds) => SlotIds = act
    BY <1>3, SlotIdsAssumption, FS_Subset, FS_CardinalityType
<1>6. b.freeSlots # <<>> <=> act # SlotIds
    <2>1. b.freeSlots \in Seq(SlotIds) /\ Range(b.freeSlots) = SlotIds \ act
        BY DEF Sound, Kept, BufferTypeOK, Accounted, act
    <2>2. b.freeSlots # <<>> <=> Range(b.freeSlots) # {}
        <3>1. b.freeSlots = <<>> => Range(b.freeSlots) = {}
            BY DEF Range
        <3>2. b.freeSlots # <<>> => b.freeSlots[1] \in Range(b.freeSlots)
            BY <2>1 DEF Range
        <3>3. QED
            BY <3>1, <3>2
    <2>3. QED
        BY <1>3, <2>1, <2>2
<1>7. Buffer!FreeSlots(View(b)) = Cardinality(SlotIds) - Cardinality(act)
    <2>1. \A S : Buffer!Cardinality(S) = Cardinality(S)
        BY DEF Buffer!Cardinality, Cardinality
    <2>2. \A v : Buffer!FreeSlots(v) = Cardinality(SlotIds) - Cardinality(Buffer!Active(v))
        BY <2>1 DEF Buffer!FreeSlots
    <2>3. QED
        BY <1>2, <1>4, <2>2
<1>8. act = SlotIds => Cardinality(act) = Cardinality(SlotIds)
    OBVIOUS
<1>9. QED
    BY <1>1, <1>2, <1>5, <1>6, <1>7, <1>8

(* What asking for frames changes: there are more frames, all new, and the
   others keep their slots and the data that they have.                      *)
Grown(b, c, new) ==
    /\ ActiveFrames(b) \subseteq ActiveFrames(c)
    /\ \A g \in ActiveFrames(b) : c.activeSlots[g] = b.activeSlots[g] /\ SlotOf(c, g) = SlotOf(b, g)
    /\ \A g \in ActiveFrames(c) \ ActiveFrames(b) : g \in new
    /\ \A i \in SlotIds : c.slots[i] = b.slots[i] \/ c.slots[i].state = "new"
    /\ c.keyFrameSeqNo >= b.keyFrameSeqNo
    /\ SameBesides(c, b, {"slots", "activeSlots", "freeSlots", "playbackQueue",
                          "lastKeySeqNo", "nKeyFrames", "keyFrameSeqNo"})

LEMMA GrownNothing ==
    ASSUME NEW b, NEW out, Sound(b, out), NEW new
    PROVE  Grown(b, b, new)
BY DEF Grown, SameBesides, Sound, Kept, BufferTypeOK

(* interestRangeIssued gives a frame a slot, if it has none and there is one. *)
LEMMA InterestIssuedSound ==
    ASSUME NEW b, NEW out, Sound(b, out), NEW f \in Frames
    PROVE  LET c == InterestIssued(b, f)
               v == View(b)
           IN  /\ Sound(c, out)
               /\ Sorted(b) => Sorted(c)
               /\ Grown(b, c, {f})
               /\ c.keyFrameSeqNo = b.keyFrameSeqNo
               /\ View(c).slots = IF Buffer!FreeSlots(v) > 0 /\ v.slots[f] = "free"
                                  THEN [v.slots EXCEPT ![f] = "new"] ELSE v.slots
               /\ View(c).lastKey = IF /\ Buffer!FreeSlots(v) > 0 /\ v.slots[f] = "free"
                                       /\ f.kind = "key"
                                    THEN f.no ELSE v.lastKey
<1> DEFINE c == InterestIssued(b, f)
           v == View(b)
<1>1. CASE f \in ActiveFrames(b) \/ b.freeSlots = <<>>
    <2>1. c = b
        BY <1>1 DEF InterestIssued
    <2>2. ~(Buffer!FreeSlots(v) > 0 /\ v.slots[f] = "free")
        BY <1>1, ViewSlots
    <2>3. Grown(b, b, {f})
        BY GrownNothing
    <2>4. QED
        BY <2>1, <2>2, <2>3
<1>2. CASE f \notin ActiveFrames(b) /\ b.freeSlots # <<>>
    <2>1. c = ReserveSlot(b, f)
        BY <1>2 DEF InterestIssued
    <2>2. Buffer!FreeSlots(v) > 0 /\ v.slots[f] = "free"
        BY <1>2, ViewSlots
    <2> HIDE DEF c, v
    <2>3. /\ Sound(c, out)
          /\ Sorted(c)
          /\ SameBesides(c, b, {"slots", "activeSlots", "freeSlots", "playbackQueue",
                                "lastKeySeqNo", "nKeyFrames"})
          /\ ActiveFrames(c) = ActiveFrames(b) \cup {f}
          /\ SlotOf(c, f) = [frame |-> f, state |-> "new"]
          /\ \A g \in ActiveFrames(b) : /\ c.activeSlots[g] = b.activeSlots[g]
                                        /\ SlotOf(c, g) = SlotOf(b, g)
          /\ \A i \in SlotIds : c.slots[i] = b.slots[i] \/ c.slots[i].state = "new"
          /\ c.lastKeySeqNo = IF f.kind = "key" THEN f.no ELSE b.lastKeySeqNo
        BY <1>2, <2>1, ReserveSlotSound
    <2>4. c.keyFrameSeqNo = b.keyFrameSeqNo /\ b.keyFrameSeqNo \in Int
        BY <2>3 DEF SameBesides, BufferFields, Sound, Kept, BufferTypeOK
    <2>5. Grown(b, c, {f})
        <3>1. c.keyFrameSeqNo >= b.keyFrameSeqNo
            BY <2>4
        <3>2. SameBesides(c, b, {"slots", "activeSlots", "freeSlots", "playbackQueue",
                                 "lastKeySeqNo", "nKeyFrames", "keyFrameSeqNo"})
            BY <2>3 DEF SameBesides
        <3>3. QED
            BY <2>3, <3>1, <3>2 DEF Grown
    <2>6. View(c).slots = [v.slots EXCEPT ![f] = "new"]
        <3>1. \A g \in Frames \ {f} : /\ g \in ActiveFrames(c) <=> g \in ActiveFrames(b)
                                      /\ g \in ActiveFrames(b) => SlotOf(c, g) = SlotOf(b, g)
            BY <2>3
        <3>2. \A g \in Frames : View(c).slots[g] = IF g = f THEN "new" ELSE v.slots[g]
            BY <2>3, <3>1 DEF View, v
        <3>3. /\ View(c).slots = [g \in Frames |-> View(c).slots[g]]
              /\ v.slots = [g \in Frames |-> v.slots[g]]
            BY DEF View, v
        <3>4. QED
            BY <3>2, <3>3
    <2>7. View(c).lastKey = IF f.kind = "key" THEN f.no ELSE v.lastKey
        BY <2>3 DEF View, v
    <2>8. QED
        BY <2>2, <2>3, <2>4, <2>5, <2>6, <2>7 DEF c, v
<1>3. QED
    BY <1>1, <1>2

(* Counters may change within their types.                                   *)
LEMMA SoundBesides ==
    ASSUME NEW b, NEW out, Sound(b, out), NEW c,
           SameBesides(c, b, {"playbackNo", "lastKeySeqNo", "frameReleaseCount", "keyFrameSeqNo"}),
           c.playbackNo \in Int,
           c.lastKeySeqNo \in -1..(MaxKey + 1),
           c.frameReleaseCount \in 0..(CleanEvery - 1),
           c.keyFrameSeqNo \in Int
    PROVE  Sound(c, out) /\ (Sorted(b) => Sorted(c))
<1>1. /\ DOMAIN c = BufferFields /\ DOMAIN b = BufferFields
      /\ c.slots = b.slots /\ c.activeSlots = b.activeSlots /\ c.freeSlots = b.freeSlots
      /\ c.playbackQueue = b.playbackQueue /\ c.nKeyFrames = b.nKeyFrames
    BY DEF Sound, Kept, SameBesides, BufferFields
<1>2. ActiveFrames(c) = ActiveFrames(b) /\ \A f : SlotOf(c, f) = SlotOf(b, f)
    BY <1>1 DEF ActiveFrames, SlotOf
<1>3. BufferTypeOK(c)
    BY <1>1, <1>2 DEF Sound, Kept, BufferTypeOK
<1>4. Accounted(c, out)
    BY <1>1, <1>2 DEF Sound, Kept, Accounted
<1>5. Sorted(b) => Sorted(c)
    BY <1>1 DEF Sorted, Ascending
<1>6. SortedButForLate(c)
    <2>1. PICK late \in Late(b) : Sorted(Unnoticed(b, late))
        BY DEF Sound, SortedButForLate
    <2>2. /\ Unnoticed(c, late).slots = Unnoticed(b, late).slots
          /\ Unnoticed(c, late).playbackQueue = Unnoticed(b, late).playbackQueue
        BY <1>1 DEF Unnoticed, BufferFields
    <2>3. Sorted(Unnoticed(c, late))
        BY <2>1, <2>2 DEF Sorted, Ascending
    <2>4. late \in Late(c)
        BY <1>1 DEF Late
    <2>5. QED
        BY <2>3, <2>4 DEF SortedButForLate
<1>7. QED
    BY <1>1, <1>3, <1>4, <1>5, <1>6 DEF Sound, Kept

(* The key frame that onKeyNeeded asks for, when it does.                    *)
NewKey(b, k) == {f \in {Key(k)} : b.keyFrameSeqNo <= k}

(* onKeyNeeded gives the next key frame a slot, if there is one.             *)
LEMMA KeyNeededSound ==
    ASSUME NEW b, NEW out, Sound(b, out), NEW k \in 0..(MaxKey + 1)
    PROVE  LET c == OnKeyNeeded(b, k)
           IN  /\ Sound(c, out)
               /\ Sorted(b) => Sorted(c)
               /\ Grown(b, c, NewKey(b, k))
               /\ AskedFor(b) => AskedFor(c)
               /\ View(c) = Buffer!OnKeyNeeded(View(b), k)
<1> DEFINE c == OnKeyNeeded(b, k)
           a == InterestIssued(b, Key(k))
           v == View(b)
<1>0. k \in Int /\ b.keyFrameSeqNo \in Int /\ Key(k) \in Frames /\ Key(k).kind = "key" /\ Key(k).no = k
    BY DEF Sound, Kept, BufferTypeOK, Key, Frames, Keys
<1>1. CASE ~(b.keyFrameSeqNo <= k)
    <2>1. c = b
        BY <1>1 DEF OnKeyNeeded
    <2>2. Buffer!OnKeyNeeded(v, k) = v
        BY <1>1 DEF Buffer!OnKeyNeeded, View
    <2>3. Grown(b, b, NewKey(b, k))
        BY GrownNothing
    <2>4. QED
        BY <2>1, <2>2, <2>3
<1>2. CASE b.keyFrameSeqNo <= k
    <2>1. c = [a EXCEPT !.keyFrameSeqNo = k + 1]
        BY <1>2 DEF OnKeyNeeded, RequestNextKey
    <2>2. /\ Sound(a, out)
          /\ Sorted(b) => Sorted(a)
          /\ Grown(b, a, {Key(k)})
          /\ a.keyFrameSeqNo = b.keyFrameSeqNo
          /\ View(a).slots = IF Buffer!FreeSlots(v) > 0 /\ v.slots[Key(k)] = "free"
                             THEN [v.slots EXCEPT ![Key(k)] = "new"] ELSE v.slots
          /\ View(a).lastKey = IF Buffer!FreeSlots(v) > 0 /\ v.slots[Key(k)] = "free"
                               THEN k ELSE v.lastKey
        BY <1>0, InterestIssuedSound
    <2> HIDE DEF a, c, v
    <2>3. SameBesides(c, a, {"keyFrameSeqNo"}) /\ c.keyFrameSeqNo = k + 1
        BY <2>1, <2>2 DEF Sound, Kept, SameBesides, BufferFields
    <2>4. /\ DOMAIN c = BufferFields
          /\ c.slots = a.slots /\ c.activeSlots = a.activeSlots /\ c.freeSlots = a.freeSlots
          /\ c.playbackQueue = a.playbackQueue /\ c.playbackNo = a.playbackNo
          /\ c.lastKeySeqNo = a.lastKeySeqNo /\ c.nKeyFrames = a.nKeyFrames
          /\ c.frameReleaseCount = a.frameReleaseCount
        BY <2>3 DEF SameBesides, BufferFields
    <2>5. Sound(c, out) /\ (Sorted(b) => Sorted(c))
        <3>1. SameBesides(c, a, {"playbackNo", "lastKeySeqNo", "frameReleaseCount", "keyFrameSeqNo"})
            BY <2>3 DEF SameBesides
        <3>2. /\ c.playbackNo \in Int /\ c.lastKeySeqNo \in -1..(MaxKey + 1)
              /\ c.frameReleaseCount \in 0..(CleanEvery - 1) /\ c.keyFrameSeqNo \in Int
            BY <1>0, <2>2, <2>3, <2>4 DEF Sound, Kept, BufferTypeOK
        <3>3. Sound(c, out) /\ (Sorted(a) => Sorted(c))
            BY <2>2, <3>1, <3>2, SoundBesides
        <3>4. QED
            BY <2>2, <3>3
    <2>6. Grown(b, c, NewKey(b, k))
        <3>1. ActiveFrames(c) = ActiveFrames(a) /\ \A g : SlotOf(c, g) = SlotOf(a, g)
            BY <2>4 DEF ActiveFrames, SlotOf
        <3>2. Key(k) \in NewKey(b, k)
            BY <1>2 DEF NewKey
        <3>3. c.keyFrameSeqNo >= b.keyFrameSeqNo
            BY <1>0, <1>2, <2>3
        <3>4. SameBesides(c, b, {"slots", "activeSlots", "freeSlots", "playbackQueue",
                                 "lastKeySeqNo", "nKeyFrames", "keyFrameSeqNo"})
            BY <2>2, <2>4 DEF Grown, SameBesides, BufferFields
        <3>5. QED
            BY <2>2, <2>4, <3>1, <3>2, <3>3, <3>4 DEF Grown
    <2>7. AskedFor(b) => AskedFor(c)
        <3> SUFFICES ASSUME AskedFor(b) PROVE AskedFor(c)
            OBVIOUS
        <3>1. \A f \in Frames : f.no \in Nat
            BY FrameNumbers
        <3>2. ASSUME NEW f \in ActiveFrames(c) \cap Keys PROVE f.no < c.keyFrameSeqNo
            <4>1. f \in ActiveFrames(b) \/ f = Key(k)
                BY <2>6 DEF Grown, NewKey
            <4>2. f \in ActiveFrames(b) => f.no < b.keyFrameSeqNo
                BY DEF AskedFor
            <4>3. f.no \in Nat
                BY <3>1 DEF Frames
            <4>4. QED
                BY <1>0, <1>2, <2>3, <4>1, <4>2, <4>3
        <3>3. ASSUME NEW i \in SlotIds, HasMeta(c.slots[i]) PROVE Produced(c.slots[i].frame)
            <4>1. c.slots[i] = b.slots[i]
                BY <2>6, <3>3 DEF Grown, HasMeta
            <4>2. QED
                BY <3>3, <4>1 DEF AskedFor
        <3>4. QED
            BY <3>2, <3>3 DEF AskedFor
    <2>8. View(c) = Buffer!OnKeyNeeded(v, k)
        <3>1. Buffer!OnKeyNeeded(v, k) = [Buffer!PrefetchKey(v, k) EXCEPT !.nextKey = k + 1]
            BY <1>2 DEF Buffer!OnKeyNeeded, Buffer!RequestNextKey, View, v
        <3>2. Buffer!PrefetchKey(v, k) =
                 IF Buffer!FreeSlots(v) > 0 /\ v.slots[Key(k)] = "free"
                 THEN [v EXCEPT !.slots[Key(k)] = "new", !.lastKey = k] ELSE v
            BY SamePackets DEF Buffer!PrefetchKey
        <3>3. v = [slots |-> v.slots, lastKey |-> v.lastKey, nextKey |-> v.nextKey]
            BY DEF v, View
        <3>4. View(c) = [slots |-> View(a).slots, lastKey |-> View(a).lastKey, nextKey |-> k + 1]
            BY <2>3, <2>4 DEF View, ActiveFrames, SlotOf
        <3>5. CASE Buffer!FreeSlots(v) > 0 /\ v.slots[Key(k)] = "free"
            BY <2>2, <3>1, <3>2, <3>3, <3>4, <3>5
        <3>6. CASE ~(Buffer!FreeSlots(v) > 0 /\ v.slots[Key(k)] = "free")
            BY <2>2, <3>1, <3>2, <3>3, <3>4, <3>6
        <3>7. QED
            BY <3>5, <3>6
    <2>9. QED
        BY <2>5, <2>6, <2>7, <2>8 DEF c, v
<1>3. QED
    BY <1>1, <1>2

(* The order of the queue, the pool and what counts do not show.             *)
LEMMA SameView ==
    ASSUME NEW b, NEW c,
           SameBesides(c, b, {"freeSlots", "playbackQueue", "playbackNo", "nKeyFrames",
                              "frameReleaseCount"})
    PROVE  /\ c.slots = b.slots /\ c.activeSlots = b.activeSlots
           /\ c.lastKeySeqNo = b.lastKeySeqNo /\ c.keyFrameSeqNo = b.keyFrameSeqNo
           /\ ActiveFrames(c) = ActiveFrames(b)
           /\ \A f : SlotOf(c, f) = SlotOf(b, f)
           /\ View(c) = View(b)
           /\ AskedFor(c) <=> AskedFor(b)
<1>1. /\ c.slots = b.slots /\ c.activeSlots = b.activeSlots
      /\ c.lastKeySeqNo = b.lastKeySeqNo /\ c.keyFrameSeqNo = b.keyFrameSeqNo
    BY DEF SameBesides, BufferFields
<1>2. ActiveFrames(c) = ActiveFrames(b) /\ \A f : SlotOf(c, f) = SlotOf(b, f)
    BY <1>1 DEF ActiveFrames, SlotOf
<1>3. View(c) = View(b)
    BY <1>1, <1>2 DEF View
<1>4. AskedFor(c) <=> AskedFor(b)
    BY <1>1, <1>2 DEF AskedFor
<1>5. QED
    BY <1>1, <1>2, <1>3, <1>4

(* A queue in any order is put right by sort().                              *)
LEMMA ResortedSound ==
    ASSUME NEW b, NEW out, Kept(b, out)
    PROVE  LET c == UpdatePlaybackDeadlines(b)
           IN  Sound(c, out) /\ Sorted(c) /\ SameBesides(c, b, {"playbackQueue"})
<1> DEFINE c == UpdatePlaybackDeadlines(b)
<1>1. Sortable(b)
    BY KeptMap
<1>2. /\ SameBesides(c, b, {"playbackQueue"})
      /\ c.playbackQueue \in Seq(SlotIds)
      /\ IsInjective(c.playbackQueue)
      /\ Range(c.playbackQueue) = Range(b.playbackQueue)
      /\ Sorted(c)
    BY <1>1, SortsQueue
<1> HIDE DEF c
<1>3. /\ DOMAIN c = BufferFields
      /\ c.slots = b.slots /\ c.activeSlots = b.activeSlots /\ c.freeSlots = b.freeSlots
      /\ c.nKeyFrames = b.nKeyFrames /\ c.playbackNo = b.playbackNo
      /\ c.lastKeySeqNo = b.lastKeySeqNo /\ c.frameReleaseCount = b.frameReleaseCount
      /\ c.keyFrameSeqNo = b.keyFrameSeqNo
    BY <1>2 DEF SameBesides, BufferFields
<1>4. ActiveFrames(c) = ActiveFrames(b) /\ \A f : SlotOf(c, f) = SlotOf(b, f)
    BY <1>3 DEF ActiveFrames, SlotOf
<1>5. BufferTypeOK(c)
    BY <1>2, <1>3, <1>4 DEF Kept, BufferTypeOK
<1>6. Accounted(c, out)
    BY <1>2, <1>3, <1>4 DEF Kept, Accounted
<1>7. SortedButForLate(c)
    BY <1>2, <1>3, <1>5, SortedEnough
<1>8. QED
    BY <1>2, <1>3, <1>5, <1>6, <1>7 DEF c, Kept, Sound

-----------------------------------------------------------------------------
(* Data.                                                                     *)

(* The frames of c that b has no slots for are keys that had not been asked
   for.                                                                      *)
Advanced(b, c) ==
    /\ c.keyFrameSeqNo >= b.keyFrameSeqNo
    /\ \A g \in ActiveFrames(c) \ ActiveFrames(b) : g \in Keys /\ g.no >= b.keyFrameSeqNo

(* The slot of frame f moves from one state to another that is not free.     *)
Moved(b, f, s) == [b EXCEPT !.slots[b.activeSlots[f]].state = s]

MovedIn(c, b, f, s) ==
    LET i == b.activeSlots[f]
    IN  /\ i \in SlotIds
        /\ c.slots = [b.slots EXCEPT ![i] = [frame |-> f, state |-> s]]
        /\ b.slots[i] = [frame |-> f, state |-> b.slots[i].state]

Put(v, f, s) == [v EXCEPT !.slots[f] = s]

LEMMA SlotMoved ==
    ASSUME NEW b, NEW out, Kept(b, out), NEW f \in ActiveFrames(b),
           NEW s \in Buffer!SlotStates \ {"free"}
    PROVE  /\ Kept(Moved(b, f, s), out)
           /\ SameBesides(Moved(b, f, s), b, {"slots"})
           /\ MovedIn(Moved(b, f, s), b, f, s)
           /\ ActiveFrames(Moved(b, f, s)) = ActiveFrames(b)
           /\ View(Moved(b, f, s)) = Put(View(b), f, s)
           /\ AskedFor(b) /\ Produced(f) => AskedFor(Moved(b, f, s))
<1> DEFINE i == b.activeSlots[f]
           c == Moved(b, f, s)
<1>1. /\ DOMAIN b = BufferFields
      /\ b.slots \in [SlotIds -> [frame : Frames \cup {Nobody}, state : Buffer!SlotStates]]
      /\ f \in Frames /\ i \in SlotIds /\ b.slots[i].frame = f
    BY KeptMap DEF Kept, BufferTypeOK
<1>2. \A g \in ActiveFrames(b) : /\ b.activeSlots[g] \in SlotIds
                                 /\ b.slots[b.activeSlots[g]].frame = g
                                 /\ b.activeSlots[g] = i => g = f
    BY KeptMap
<1>3. b.slots[i] = [frame |-> f, state |-> b.slots[i].state]
    BY <1>1
<1>4. c.slots = [b.slots EXCEPT ![i] = [frame |-> f, state |-> s]]
    BY <1>1, <1>3 DEF BufferFields, Moved
<1>5. SameBesides(c, b, {"slots"})
    BY <1>1 DEF SameBesides, BufferFields, Moved
<1> HIDE DEF i, c
<1>6. /\ DOMAIN c = BufferFields
      /\ c.activeSlots = b.activeSlots /\ c.freeSlots = b.freeSlots
      /\ c.playbackQueue = b.playbackQueue
      /\ c.nKeyFrames = b.nKeyFrames /\ c.playbackNo = b.playbackNo
      /\ c.lastKeySeqNo = b.lastKeySeqNo /\ c.frameReleaseCount = b.frameReleaseCount
      /\ c.keyFrameSeqNo = b.keyFrameSeqNo
    BY <1>5 DEF SameBesides, BufferFields
<1>7. /\ \A j \in SlotIds \ {i} : c.slots[j] = b.slots[j]
      /\ c.slots[i] = [frame |-> f, state |-> s]
      /\ c.slots \in [SlotIds -> [frame : Frames \cup {Nobody}, state : Buffer!SlotStates]]
    BY <1>1, <1>4
<1>8. ActiveFrames(c) = ActiveFrames(b)
    BY <1>6 DEF ActiveFrames
<1>9. \A g \in ActiveFrames(b) :
          SlotOf(c, g) = IF g = f THEN [frame |-> f, state |-> s] ELSE SlotOf(b, g)
    BY <1>2, <1>6, <1>7 DEF SlotOf, i
<1>10. BufferTypeOK(c)
    <2>1. f # Nobody
        BY <1>1 DEF Nobody, Frames, Keys, Deltas
    <2>2. \A j \in SlotIds : c.slots[j].state = "free" <=> c.slots[j].frame = Nobody
        BY <1>7, <2>1 DEF Kept, BufferTypeOK
    <2>3. QED
        BY <1>6, <1>7, <1>8, <2>2 DEF Kept, BufferTypeOK
<1>11. Accounted(c, out)
    <2>1. \A g \in ActiveFrames(c) : SlotOf(c, g).frame = g
        BY <1>8, <1>9 DEF Kept, Accounted
    <2>2. QED
        BY <1>6, <1>8, <2>1 DEF Kept, Accounted
<1>12. View(c) = Put(View(b), f, s)
    <2>1. \A g \in Frames : View(c).slots[g] = IF g = f THEN s ELSE View(b).slots[g]
        BY <1>8, <1>9 DEF View
    <2>2. View(c).slots = [View(b).slots EXCEPT ![f] = s]
        BY <2>1 DEF View
    <2>3. View(c).lastKey = View(b).lastKey /\ View(c).nextKey = View(b).nextKey
        BY <1>6 DEF View
    <2>4. \A d : View(d) = [slots |-> View(d).slots, lastKey |-> View(d).lastKey,
                            nextKey |-> View(d).nextKey]
        BY DEF View
    <2>5. QED
        BY <2>2, <2>3, <2>4 DEF Put
<1>13. AskedFor(b) /\ Produced(f) => AskedFor(c)
    <2> SUFFICES ASSUME AskedFor(b), Produced(f) PROVE AskedFor(c)
        OBVIOUS
    <2>1. \A j \in SlotIds : HasMeta(c.slots[j]) => Produced(c.slots[j].frame)
        BY <1>7 DEF AskedFor
    <2>2. QED
        BY <1>6, <1>8, <2>1 DEF AskedFor
<1>14. MovedIn(c, b, f, s)
    BY <1>1, <1>3, <1>4 DEF MovedIn, i
<1>15. QED
    BY <1>5, <1>6, <1>8, <1>10, <1>11, <1>12, <1>13, <1>14 DEF Kept, c

LEMMA GrownAdvances ==
    ASSUME NEW b, NEW c, NEW k \in 0..(MaxKey + 1), NEW a,
           Grown(b, c, NewKey(b, k)),
           ActiveFrames(b) = ActiveFrames(a), b.keyFrameSeqNo = a.keyFrameSeqNo
    PROVE  Advanced(a, c) /\ ActiveFrames(a) \subseteq ActiveFrames(c)
<1>1. Key(k) \in Keys /\ Key(k).no = k /\ k \in Int
    BY DEF Key, Keys
<1>2. \A g \in ActiveFrames(c) \ ActiveFrames(b) : g = Key(k) /\ b.keyFrameSeqNo <= k
    BY DEF Grown, NewKey
<1>3. \A g \in ActiveFrames(c) \ ActiveFrames(b) : g \in Keys /\ g.no >= b.keyFrameSeqNo
    <2> SUFFICES ASSUME NEW g \in ActiveFrames(c) \ ActiveFrames(b)
                 PROVE  g \in Keys /\ g.no >= b.keyFrameSeqNo
        OBVIOUS
    <2>1. g = Key(k) /\ b.keyFrameSeqNo <= k
        BY <1>2
    <2>2. g.no = k
        BY <1>1, <2>1
    <2>3. QED
        BY <1>1, <2>1, <2>2
<1>4. QED
    BY <1>3 DEF Advanced, Grown

(* The key frame of a delta frame is among the frames.                       *)
LEMMA KeyOfDelta ==
    ASSUME NEW f \in Frames, f.kind = "delta"
    PROVE  Paired(f) \in 0..(MaxKey + 1)
<1>1. f.no \in 0..MaxDelta /\ MaxDelta \in Nat /\ MaxKey \in Nat /\ MaxDelta \div GOP <= MaxKey + 1
    BY PacketsAssumption, FrameNumbers DEF Deltas
<1>2. f.no \div GOP <= MaxDelta \div GOP /\ f.no \div GOP \in Nat /\ MaxDelta \div GOP \in Nat
    BY <1>1, GOPAssumption
<1>3. QED
    BY <1>1, <1>2 DEF Paired

(* Data that does not have the queue sorted leaves it sorted but for what is
   late.                                                                     *)
LEMMA UnsortedData ==
    ASSUME NEW b, NEW out, Sound(b, out), NEW f \in ActiveFrames(b),
           NEW s \in Buffer!Appended(SlotOf(b, f).state),
           SlotOf(b, f).state \in Buffer!Unfinished,
           s = "met" \/ SlotOf(b, f).state = "assembling"
    PROVE  SortedButForLate(Moved(b, f, s))
<1> DEFINE i == b.activeSlots[f]
           a == Moved(b, f, s)
           st == b.slots[i].state
<1>1. /\ st \in {"new", "met", "assembling"}
      /\ \/ s = "met" /\ st \in {"new", "met"}
         \/ s \in {"assembling", "ready"} /\ st = "assembling"
    BY DEF SlotOf, Buffer!Unfinished, Buffer!Appended
<1>2. s \in Buffer!SlotStates \ {"free"}
    BY <1>1 DEF Buffer!SlotStates
<1>3. /\ SameBesides(a, b, {"slots"})
      /\ a.slots = [b.slots EXCEPT ![i] = [frame |-> f, state |-> s]]
      /\ b.slots[i] = [frame |-> f, state |-> st]
      /\ i \in SlotIds
    <2>1. Kept(b, out)
        BY DEF Sound
    <2>2. SameBesides(a, b, {"slots"}) /\ MovedIn(a, b, f, s)
        BY <1>2, <2>1, SlotMoved
    <2>3. QED
        BY <2>2 DEF MovedIn
<1>4. DOMAIN b.slots = SlotIds /\ DOMAIN b = BufferFields
    BY DEF Sound, Kept, BufferTypeOK
<1>5. PICK late \in Late(b) : Sorted(Unnoticed(b, late))
    BY DEF Sound, SortedButForLate
<1> HIDE DEF a, i, st
<1>6. DOMAIN a = BufferFields /\ a.playbackQueue = b.playbackQueue
    BY <1>3 DEF SameBesides, BufferFields
<1>7. /\ \A j \in SlotIds \ {i} : a.slots[j] = b.slots[j]
      /\ a.slots[i] = [frame |-> f, state |-> s]
    BY <1>3, <1>4
<1>8. \A X : /\ Unnoticed(a, X).playbackQueue = b.playbackQueue
             /\ Unnoticed(b, X).playbackQueue = b.playbackQueue
             /\ Unnoticed(a, X).slots = [j \in SlotIds |-> IF j \in X
                                            THEN [a.slots[j] EXCEPT !.state = "new"] ELSE a.slots[j]]
             /\ Unnoticed(b, X).slots = [j \in SlotIds |-> IF j \in X
                                            THEN [b.slots[j] EXCEPT !.state = "new"] ELSE b.slots[j]]
    BY <1>4, <1>6 DEF Unnoticed, BufferFields
<1>13. ASSUME NEW X, NEW j \in SlotIds
       PROVE  /\ Unnoticed(a, X).slots[j].frame = a.slots[j].frame
              /\ Unnoticed(b, X).slots[j].frame = b.slots[j].frame
              /\ j \notin X => /\ Unnoticed(a, X).slots[j] = a.slots[j]
                               /\ Unnoticed(b, X).slots[j] = b.slots[j]
              /\ j \in X => /\ Unnoticed(a, X).slots[j].state = "new"
                            /\ Unnoticed(b, X).slots[j].state = "new"
    <2>1. /\ a.slots[j] = [frame |-> a.slots[j].frame, state |-> a.slots[j].state]
          /\ b.slots[j] = [frame |-> b.slots[j].frame, state |-> b.slots[j].state]
        BY <1>3, <1>7 DEF Sound, Kept, BufferTypeOK
    <2>2. /\ Unnoticed(a, X).slots[j] = IF j \in X THEN [a.slots[j] EXCEPT !.state = "new"]
                                       ELSE a.slots[j]
          /\ Unnoticed(b, X).slots[j] = IF j \in X THEN [b.slots[j] EXCEPT !.state = "new"]
                                       ELSE b.slots[j]
        BY <1>4, <1>6 DEF Unnoticed, BufferFields
    <2>3. QED
        BY <2>1, <2>2
<1>9. \A j \in late : j \in SlotIds /\ b.slots[j].state = "met"
    BY DEF Late
<1>10. CASE s = "met"
    <2> DEFINE late2 == IF st = "new" THEN late \cup {i} ELSE late
    <2>1. late2 \in Late(a)
        BY <1>3, <1>7, <1>9, <1>10 DEF Late
    <2>2. \A j \in SlotIds :
              (IF j \in late2 THEN [a.slots[j] EXCEPT !.state = "new"] ELSE a.slots[j])
            = (IF j \in late THEN [b.slots[j] EXCEPT !.state = "new"] ELSE b.slots[j])
        <3>1. CASE st = "new"
            <4>1. i \notin late
                BY <1>9, <3>1 DEF st
            <4>2. [a.slots[i] EXCEPT !.state = "new"] = b.slots[i]
                BY <1>3, <1>7, <3>1
            <4>3. QED
                BY <1>7, <3>1, <4>1, <4>2
        <3>2. CASE st = "met"
            <4>1. a.slots[i] = b.slots[i]
                BY <1>3, <1>7, <1>10, <3>2
            <4>2. QED
                BY <1>7, <3>2, <4>1
        <3>3. QED
            BY <1>1, <1>10, <3>1, <3>2
    <2>3. Unnoticed(a, late2).slots = Unnoticed(b, late).slots
        <3> HIDE DEF late2
        <3>1. /\ Unnoticed(a, late2).slots = [j \in SlotIds |-> IF j \in late2
                        THEN [a.slots[j] EXCEPT !.state = "new"] ELSE a.slots[j]]
              /\ Unnoticed(b, late).slots = [j \in SlotIds |-> IF j \in late
                        THEN [b.slots[j] EXCEPT !.state = "new"] ELSE b.slots[j]]
            BY <1>8
        <3>2. QED
            BY <2>2, <3>1
    <2>4. Unnoticed(a, late2).playbackQueue = Unnoticed(b, late).playbackQueue
        BY <1>8
    <2> HIDE DEF late2
    <2>5. Sorted(Unnoticed(a, late2))
        BY <1>5, <2>3, <2>4 DEF Sorted, Ascending
    <2>6. QED
        BY <2>1, <2>5 DEF SortedButForLate, a, i
<1>11. CASE st = "assembling"
    <2>1. i \notin late
        BY <1>9, <1>11 DEF st
    <2>2. late \in Late(a)
        BY <1>7, <1>9, <2>1 DEF Late
    <2>3. ASSUME NEW j \in SlotIds
          PROVE  /\ Unnoticed(a, late).slots[j].frame = Unnoticed(b, late).slots[j].frame
                 /\ HasMeta(Unnoticed(a, late).slots[j]) <=> HasMeta(Unnoticed(b, late).slots[j])
        <3>1. CASE j = i
            <4>1. Unnoticed(a, late).slots[j] = [frame |-> f, state |-> s]
                BY <1>3, <1>7, <1>13, <2>1, <3>1
            <4>2. Unnoticed(b, late).slots[j] = [frame |-> f, state |-> st]
                BY <1>3, <1>13, <2>1, <3>1
            <4>3. QED
                BY <1>1, <1>11, <4>1, <4>2 DEF HasMeta
        <3>2. CASE j # i
            BY <1>7, <1>13, <3>2 DEF HasMeta
        <3>3. QED
            BY <3>1, <3>2
    <2>4. \A n \in DOMAIN b.playbackQueue : b.playbackQueue[n] \in SlotIds
        BY DEF Sound, Kept, BufferTypeOK
    <2>5. \A j, k \in SlotIds :
              Ascending(Unnoticed(a, late), j, k) <=> Ascending(Unnoticed(b, late), j, k)
        BY <2>3 DEF Ascending
    <2>6. /\ Unnoticed(a, late).playbackQueue = b.playbackQueue
          /\ Unnoticed(b, late).playbackQueue = b.playbackQueue
        BY <1>8
    <2>7. Sorted(Unnoticed(a, late))
        BY <1>5, <2>4, <2>5, <2>6 DEF Sorted
    <2>8. QED
        BY <2>2, <2>7 DEF SortedButForLate, a, i
<1>12. QED
    BY <1>1, <1>10, <1>11

(* newData: the slot moves on, and a delta frame makes sure of its key.      *)
LEMMA NewDataSound ==
    ASSUME NEW b, NEW out, Sound(b, out), AskedFor(b),
           NEW f \in ActiveFrames(b), Produced(f),
           SlotOf(b, f).state \in Buffer!Unfinished,
           NEW s \in Buffer!Appended(SlotOf(b, f).state), NEW isHeader \in BOOLEAN
    PROVE  LET c == NewData(b, f, s, isHeader)
           IN  /\ Sound(c, out)
               /\ AskedFor(c)
               /\ ActiveFrames(b) \subseteq ActiveFrames(c)
               /\ Advanced(b, c)
               /\ c.playbackNo = b.playbackNo
               /\ View(c) = Buffer!NewData(View(b), f, s)
<1> DEFINE i == b.activeSlots[f]
           a == Moved(b, f, s)
           resort == b.slots[i].state # "assembling" \/ isHeader
           d == IF resort THEN UpdatePlaybackDeadlines(a) ELSE a
           c == NewData(b, f, s, isHeader)
<1>1. /\ f \in Frames /\ f.kind \in {"key", "delta"}
      /\ s \in Buffer!SlotStates \ {"free"}
      /\ b.slots[i].state \in {"new", "met", "assembling"}
    BY SoundMap, FrameNumbers DEF Buffer!Appended, Buffer!SlotStates, Buffer!Unfinished, SlotOf
<1>2. /\ Kept(a, out)
      /\ SameBesides(a, b, {"slots"})
      /\ ActiveFrames(a) = ActiveFrames(b)
      /\ View(a) = Put(View(b), f, s)
      /\ AskedFor(a)
    <2>1. Kept(b, out)
        BY DEF Sound
    <2>2. /\ Kept(a, out) /\ SameBesides(a, b, {"slots"}) /\ ActiveFrames(a) = ActiveFrames(b)
        BY <1>1, <2>1, SlotMoved
    <2>3. View(a) = Put(View(b), f, s)
        BY <1>1, <2>1, SlotMoved
    <2>4. AskedFor(a)
        BY <1>1, <2>1, SlotMoved
    <2>5. QED
        BY <2>2, <2>3, <2>4
<1>3. /\ a.playbackNo = b.playbackNo /\ a.keyFrameSeqNo = b.keyFrameSeqNo
      /\ a.lastKeySeqNo = b.lastKeySeqNo /\ b.keyFrameSeqNo \in Int
    BY <1>2 DEF SameBesides, BufferFields, Sound, Kept, BufferTypeOK
<1>4. s = "met" \/ ~resort => SortedButForLate(a)
    BY UnsortedData, <1>1 DEF SlotOf
<1>5. c = IF s = "met" THEN a
          ELSE IF f.kind = "delta" /\ b.lastKeySeqNo < Paired(f)
               THEN OnKeyNeeded(d, Paired(f)) ELSE d
    BY DEF NewData, Moved
<1>6. Buffer!NewData(View(b), f, s) =
          IF s # "met" /\ f.kind = "delta" /\ b.lastKeySeqNo < Paired(f)
          THEN Buffer!OnKeyNeeded(View(a), Paired(f)) ELSE View(a)
    BY <1>2, SamePackets DEF Buffer!NewData, View, Put
<1>7. /\ resort => d = UpdatePlaybackDeadlines(a)
      /\ ~resort => d = a
    OBVIOUS
<1>8. Advanced(b, a)
    BY <1>2, <1>3 DEF Advanced
<1> HIDE DEF a, c, d, resort, i
<1>9. CASE s = "met"
    <2>1. c = a
        BY <1>5, <1>9
    <2>2. Sound(a, out)
        BY <1>2, <1>4, <1>9 DEF Sound
    <2>3. Buffer!NewData(View(b), f, s) = View(a)
        BY <1>6, <1>9
    <2>4. QED
        BY <1>2, <1>3, <1>8, <2>1, <2>2, <2>3 DEF c
<1>10. CASE s # "met"
    <2>1. Sound(d, out) /\ View(d) = View(a) /\ AskedFor(d) /\ ActiveFrames(d) = ActiveFrames(b)
                       /\ d.playbackNo = b.playbackNo /\ d.keyFrameSeqNo = b.keyFrameSeqNo
        <3>1. CASE resort
            <4>1. Sound(d, out) /\ SameBesides(d, a, {"playbackQueue"})
                BY <1>2, <1>7, <3>1, ResortedSound
            <4>2. SameBesides(d, a, {"freeSlots", "playbackQueue", "playbackNo", "nKeyFrames",
                                     "frameReleaseCount"})
                BY <4>1 DEF SameBesides
            <4>3. d.playbackNo = a.playbackNo
                BY <4>1 DEF SameBesides, BufferFields
            <4>4. QED
                BY <1>2, <1>3, <4>1, <4>2, <4>3, SameView
        <3>2. CASE ~resort
            BY <1>2, <1>3, <1>4, <1>7, <3>2 DEF Sound
        <3>3. QED
            BY <3>1, <3>2
    <2>2. CASE ~(f.kind = "delta" /\ b.lastKeySeqNo < Paired(f))
        <3>1. c = d
            BY <1>5, <1>10, <2>2
        <3>2. Buffer!NewData(View(b), f, s) = View(a)
            BY <1>6, <2>2
        <3>3. Advanced(b, d)
            BY <1>3, <2>1 DEF Advanced
        <3>4. QED
            BY <2>1, <3>1, <3>2, <3>3 DEF c
    <2>3. CASE f.kind = "delta" /\ b.lastKeySeqNo < Paired(f)
        <3>1. c = OnKeyNeeded(d, Paired(f))
            BY <1>5, <1>10, <2>3
        <3>2. Buffer!NewData(View(b), f, s) = Buffer!OnKeyNeeded(View(d), Paired(f))
            BY <1>6, <1>10, <2>1, <2>3
        <3>3. Paired(f) \in 0..(MaxKey + 1)
            BY <1>1, <2>3, KeyOfDelta
        <3>4. /\ Sound(c, out) /\ AskedFor(c)
              /\ Grown(d, c, NewKey(d, Paired(f)))
              /\ View(c) = Buffer!OnKeyNeeded(View(d), Paired(f))
            BY <2>1, <3>1, <3>3, KeyNeededSound
        <3>5. Advanced(b, c) /\ ActiveFrames(b) \subseteq ActiveFrames(c)
            BY <2>1, <3>3, <3>4, GrownAdvances
        <3>6. c.playbackNo = b.playbackNo
            BY <2>1, <3>4 DEF Grown, SameBesides, BufferFields
        <3>7. QED
            BY <3>2, <3>4, <3>5, <3>6 DEF c
    <2>4. QED
        BY <2>2, <2>3
<1>11. QED
    BY <1>9, <1>10

-----------------------------------------------------------------------------
(* Giving slots back.                                                        *)

FramesOf(b, X) == {b.slots[i].frame : i \in X}

(* What freeing the slots of some frames changes.                            *)
Shrunk(b, c, names) ==
    /\ ActiveFrames(c) = ActiveFrames(b) \ names
    /\ \A g \in ActiveFrames(c) : c.activeSlots[g] = b.activeSlots[g] /\ SlotOf(c, g) = SlotOf(b, g)
    /\ \A i \in SlotIds : c.slots[i] = b.slots[i] \/ c.slots[i] = FreeSlot
    /\ SameBesides(c, b, {"slots", "activeSlots", "freeSlots", "playbackQueue", "nKeyFrames"})

LEMMA ShrunkAskedFor ==
    ASSUME NEW b, NEW c, NEW names, Shrunk(b, c, names), AskedFor(b)
    PROVE  AskedFor(c)
<1>1. c.keyFrameSeqNo = b.keyFrameSeqNo
    BY DEF Shrunk, SameBesides, BufferFields
<1>2. \A i \in SlotIds : HasMeta(c.slots[i]) => c.slots[i] = b.slots[i]
    BY DEF Shrunk, HasMeta, FreeSlot
<1>3. QED
    BY <1>1, <1>2 DEF Shrunk, AskedFor

LEMMA ShrunkView ==
    ASSUME NEW b, NEW c, NEW names, Shrunk(b, c, names)
    PROVE  View(c) = Buffer!Free(View(b), names)
<1>1. c.lastKeySeqNo = b.lastKeySeqNo /\ c.keyFrameSeqNo = b.keyFrameSeqNo
    BY DEF Shrunk, SameBesides, BufferFields
<1>2. \A g \in Frames : View(c).slots[g] = IF g \in names THEN "free" ELSE View(b).slots[g]
    BY DEF Shrunk, View
<1>3. View(c).slots = [g \in Frames |-> IF g \in names THEN "free" ELSE View(b).slots[g]]
    BY <1>2 DEF View
<1>4. View(c).lastKey = View(b).lastKey /\ View(c).nextKey = View(b).nextKey
    BY <1>1 DEF View
<1>5. \A d : View(d) = [slots |-> View(d).slots, lastKey |-> View(d).lastKey,
                        nextKey |-> View(d).nextKey]
    BY DEF View
<1>6. QED
    BY <1>3, <1>4, <1>5, SamePackets DEF Buffer!Free

(* freeSlot of slots that are out of the queue.                              *)
LEMMA FreedSound ==
    ASSUME NEW b, NEW out, Kept(b, out), Sorted(b),
           NEW freed \in Seq(SlotIds), IsInjective(freed), Range(freed) \subseteq out
    PROVE  /\ Sound(FreeSlotsOf(b, freed), out \ Range(freed))
           /\ Sorted(FreeSlotsOf(b, freed))
           /\ Shrunk(b, FreeSlotsOf(b, freed), FramesOf(b, Range(freed)))
<1> DEFINE c == FreeSlotsOf(b, freed)
           R == Range(freed)
           names == FramesOf(b, R)
           act == Range(b.activeSlots)
<1>1. /\ DOMAIN b = BufferFields
      /\ b.slots \in [SlotIds -> [frame : Frames \cup {Nobody}, state : Buffer!SlotStates]]
      /\ b.freeSlots \in Seq(SlotIds) /\ IsInjective(b.freeSlots)
      /\ b.playbackQueue \in Seq(SlotIds) /\ IsInjective(b.playbackQueue)
      /\ Range(b.freeSlots) = SlotIds \ act
      /\ Range(b.playbackQueue) = act \ out
      /\ out \subseteq act
      /\ b.nKeyFrames = Cardinality(ActiveFrames(b) \cap Keys)
      /\ \A i \in SlotIds : b.slots[i].state = "free" <=> b.slots[i].frame = Nobody
    BY DEF Kept, BufferTypeOK, Accounted
<1>2. /\ \A f \in ActiveFrames(b) : /\ f \in Frames
                                    /\ b.activeSlots[f] \in SlotIds
                                    /\ b.activeSlots[f] \in act
                                    /\ b.slots[b.activeSlots[f]].frame = f
      /\ \A i \in act : /\ i \in SlotIds
                        /\ b.slots[i].frame \in ActiveFrames(b)
                        /\ b.activeSlots[b.slots[i].frame] = i
      /\ IsFiniteSet(ActiveFrames(b) \cap Keys)
    BY KeptMap
<1>3. R \subseteq act /\ R \subseteq SlotIds /\ Range(b.freeSlots) \cap R = {}
    BY <1>1, <1>2
<1>4. /\ \A f \in ActiveFrames(b) : f \in names <=> b.activeSlots[f] \in R
      /\ names \subseteq ActiveFrames(b)
    BY <1>2, <1>3 DEF FramesOf
<1>5. /\ SameBesides(c, b, {"slots", "activeSlots", "freeSlots", "nKeyFrames"})
      /\ c.slots = [i \in SlotIds |-> IF i \in R THEN FreeSlot ELSE b.slots[i]]
      /\ c.activeSlots = [f \in ActiveFrames(b) \ names |-> b.activeSlots[f]]
      /\ c.freeSlots = b.freeSlots \o freed
      /\ c.nKeyFrames = IF Cardinality(names \cap Keys) <= b.nKeyFrames
                        THEN b.nKeyFrames - Cardinality(names \cap Keys) ELSE 0
    BY <1>1 DEF FreeSlotsOf, SameBesides, BufferFields, FramesOf
<1> HIDE DEF c, R, names, act
<1>6. /\ DOMAIN c = BufferFields
      /\ c.playbackQueue = b.playbackQueue /\ c.playbackNo = b.playbackNo
      /\ c.lastKeySeqNo = b.lastKeySeqNo /\ c.frameReleaseCount = b.frameReleaseCount
      /\ c.keyFrameSeqNo = b.keyFrameSeqNo
    BY <1>5 DEF SameBesides, BufferFields
<1>7. /\ ActiveFrames(c) = ActiveFrames(b) \ names
      /\ \A f \in ActiveFrames(c) : c.activeSlots[f] = b.activeSlots[f]
    BY <1>5 DEF ActiveFrames
<1>8. \A f \in ActiveFrames(c) : SlotOf(c, f) = SlotOf(b, f) /\ b.activeSlots[f] \notin R
    BY <1>2, <1>4, <1>5, <1>7 DEF SlotOf
<1>9. \A i \in SlotIds : c.slots[i] = IF i \in R THEN FreeSlot ELSE b.slots[i]
    BY <1>5
<1>10. Shrunk(b, c, names)
    <2>1. SameBesides(c, b, {"slots", "activeSlots", "freeSlots", "playbackQueue", "nKeyFrames"})
        BY <1>5 DEF SameBesides
    <2>2. QED
        BY <1>7, <1>8, <1>9, <2>1 DEF Shrunk
<1>11. Range(c.activeSlots) = act \ R
    <2>1. Range(c.activeSlots) = {b.activeSlots[f] : f \in ActiveFrames(b) \ names}
        BY <1>5 DEF Range
    <2>2. QED
        BY <1>2, <1>4, <2>1
<1>12. /\ c.freeSlots \in Seq(SlotIds) /\ IsInjective(c.freeSlots)
       /\ Range(c.freeSlots) = Range(b.freeSlots) \cup R
    BY <1>1, <1>3, <1>5, ConcatDistinct DEF R
<1>13. c.nKeyFrames = Cardinality(ActiveFrames(c) \cap Keys) /\ c.nKeyFrames \in Nat
    <2> DEFINE K == ActiveFrames(b) \cap Keys
               F == names \cap Keys
    <2>1. K \cap F = F /\ K \ F = ActiveFrames(c) \cap Keys /\ F \subseteq K
        BY <1>4, <1>7
    <2>2. IsFiniteSet(K)
        BY <1>2
    <2> HIDE DEF K, F
    <2>3. Cardinality(K \ F) = Cardinality(K) - Cardinality(F)
        BY <2>1, <2>2, FS_Difference
    <2>4. /\ Cardinality(F) <= Cardinality(K)
          /\ Cardinality(F) \in Nat /\ Cardinality(K) \in Nat
        BY <2>1, <2>2, FS_Subset, FS_CardinalityType
    <2>5. b.nKeyFrames = Cardinality(K)
        BY <1>1 DEF K
    <2>6. c.nKeyFrames = Cardinality(K) - Cardinality(F)
        BY <1>5, <2>4, <2>5 DEF F
    <2>7. c.nKeyFrames = Cardinality(K \ F)
        BY <2>3, <2>6
    <2>8. c.nKeyFrames \in Nat
        BY <2>4, <2>6
    <2>9. QED
        BY <2>1, <2>7, <2>8
<1>14. BufferTypeOK(c)
    <2>1. c.slots \in [SlotIds -> [frame : Frames \cup {Nobody}, state : Buffer!SlotStates]]
        <3>1. FreeSlot \in [frame : Frames \cup {Nobody}, state : Buffer!SlotStates]
            BY DEF FreeSlot, Buffer!SlotStates
        <3>2. QED
            BY <1>1, <1>5, <3>1
    <2>2. \A i \in SlotIds : c.slots[i].state = "free" <=> c.slots[i].frame = Nobody
        BY <1>1, <1>9 DEF FreeSlot
    <2>3. c.activeSlots \in [ActiveFrames(c) -> SlotIds] /\ ActiveFrames(c) \subseteq Frames
        BY <1>2, <1>5, <1>7
    <2>4. QED
        BY <1>1, <1>6, <1>12, <1>13, <2>1, <2>2, <2>3 DEF Kept, BufferTypeOK
<1>15. Accounted(c, out \ R)
    <2>1. \A f \in ActiveFrames(c) : SlotOf(c, f).frame = f
        BY <1>2, <1>7, <1>8 DEF SlotOf
    <2>2. Range(c.playbackQueue) = Range(c.activeSlots) \ (out \ R)
        BY <1>1, <1>6, <1>11 DEF R
    <2>3. Range(c.freeSlots) = SlotIds \ Range(c.activeSlots)
        BY <1>1, <1>3, <1>11, <1>12
    <2>4. out \ R \subseteq Range(c.activeSlots)
        BY <1>1, <1>11
    <2>5. QED
        BY <1>1, <1>6, <1>12, <1>13, <2>1, <2>2, <2>3, <2>4 DEF Accounted
<1>16. Sorted(c)
    <2>1. \A n \in DOMAIN b.playbackQueue :
              b.playbackQueue[n] \in SlotIds /\ b.playbackQueue[n] \notin R
        <3>1. \A n \in DOMAIN b.playbackQueue : b.playbackQueue[n] \in Range(b.playbackQueue)
            BY DEF Range
        <3>2. QED
            BY <1>1, <1>2, <3>1 DEF R
    <2>2. \A n \in DOMAIN b.playbackQueue :
              c.slots[b.playbackQueue[n]] = b.slots[b.playbackQueue[n]]
        BY <1>9, <2>1
    <2>3. \A n, m \in DOMAIN b.playbackQueue :
              Ascending(b, b.playbackQueue[n], b.playbackQueue[m]) <=>
              Ascending(c, b.playbackQueue[n], b.playbackQueue[m])
        BY <2>2 DEF Ascending
    <2>4. QED
        BY <1>6, <2>3 DEF Sorted
<1>17. Sound(c, out \ R)
    BY <1>6, <1>14, <1>15, <1>16, SortedEnough DEF Sound, Kept
<1>18. QED
    BY <1>10, <1>16, <1>17 DEF c, R, names

(* cleanBuffer finds what the abstract buffer calls old.                     *)
LEMMA OldFrames ==
    ASSUME NEW b, NEW out, Sound(b, out), NEW f \in ActiveFrames(b), NEW g \in ActiveFrames(b)
    PROVE  g \in Buffer!Old(View(b), f) <=> g # f /\ IsOld(b, f, SlotOf(b, g))
<1>1. f \in Frames /\ g \in Frames /\ SlotOf(b, g).frame = g
    BY SoundMap DEF SlotOf
<1>2. f.kind \in {"key", "delta"} /\ g.kind \in {"key", "delta"}
    BY <1>1, FrameNumbers
<1>3. /\ View(b).slots[f] \in Buffer!HasMeta <=> HasMeta(SlotOf(b, f))
      /\ View(b).slots[g] \in Buffer!HasMeta <=> HasMeta(SlotOf(b, g))
      /\ View(b).lastKey = b.lastKeySeqNo
    BY <1>1 DEF View, Buffer!HasMeta, HasMeta
<1>4. g \in Buffer!Active(View(b))
    BY ViewSlots
<1> DEFINE v == View(b)
           known == v.slots[f] \in Buffer!HasMeta
           paired == IF known THEN Paired(f) ELSE -1
           deltaNo == IF f.kind = "delta" THEN f.no ELSE paired
<1>5. g \in Buffer!Old(v, f) <=>
         /\ g # f
         /\ IF v.slots[g] \in Buffer!HasMeta
            THEN known /\ Buffer!PlaybackNo(g) < Buffer!PlaybackNo(f)
            ELSE g.no < (IF g.kind = "delta"
                         THEN (IF f.kind = "delta" THEN f.no
                               ELSE IF known THEN Buffer!Paired(f) ELSE -1)
                         ELSE v.lastKey)
    <2> HIDE DEF v
    <2>1. g \in Buffer!Active(v)
        BY <1>4 DEF v
    <2>2. QED
        BY <2>1 DEF Buffer!Old
<1>6. IsOld(b, f, SlotOf(b, g)) <=>
         IF HasMeta(SlotOf(b, g))
         THEN known /\ PlaybackNo(g) < PlaybackNo(f)
         ELSE g.no < (IF g.kind = "delta" THEN deltaNo ELSE b.lastKeySeqNo)
    <2>1. HasMeta(SlotOf(b, f)) <=> known
        BY <1>3
    <2>2. (IF f.kind = "key" THEN paired ELSE f.no) = deltaNo
        BY <1>2
    <2> HIDE DEF known
    <2>3. QED
        BY <1>1, <2>1, <2>2 DEF IsOld
<1>7. Buffer!PlaybackNo(g) = PlaybackNo(g) /\ Buffer!PlaybackNo(f) = PlaybackNo(f)
      /\ Buffer!Paired(f) = Paired(f)
    BY DEF Buffer!PlaybackNo, PlaybackNo, Buffer!Paired, Paired
<1> HIDE DEF known
<1>8. QED
    BY <1>3, <1>5, <1>6, <1>7

(* cleanBuffer, while the slot of the frame that is released is out of the
   queue.                                                                    *)
LEMMA CleanBufferSound ==
    ASSUME NEW b, NEW f \in ActiveFrames(b), NEW out, out = {b.activeSlots[f]},
           Sound(b, out), Sorted(b)
    PROVE  /\ Sound(CleanBuffer(b, f), out)
           /\ Sorted(CleanBuffer(b, f))
           /\ Shrunk(b, CleanBuffer(b, f), Buffer!Old(View(b), f))
<1> DEFINE q == b.playbackQueue
           old == {n \in DOMAIN q : IsOld(b, f, b.slots[q[n]])}
           kept == (DOMAIN q) \ old
           a == [b EXCEPT !.playbackQueue = PartOf(q, kept)]
           freed == PartOf(q, old)
           c == FreeSlotsOf(a, freed)
           R == {q[n] : n \in old}
           act == Range(b.activeSlots)
<1>1. /\ DOMAIN b = BufferFields
      /\ q \in Seq(SlotIds) /\ IsInjective(q)
      /\ Range(q) = act \ out
      /\ out \subseteq act
    BY DEF Sound, Kept, BufferTypeOK, Accounted
<1>2. CleanBuffer(b, f) = c
    BY DEF CleanBuffer
<1>3. /\ SameBesides(a, b, {"playbackQueue"})
      /\ a.playbackQueue = PartOf(q, kept)
    BY <1>1 DEF SameBesides, BufferFields
<1>4. old \subseteq DOMAIN q /\ kept \subseteq DOMAIN q /\ kept \cup old = DOMAIN q /\ kept \cap old = {}
    OBVIOUS
<1>5. \A n \in old : n \in DOMAIN q /\ IsOld(b, f, b.slots[q[n]])
    OBVIOUS
<1>6. \A n \in DOMAIN q : IsOld(b, f, b.slots[q[n]]) => n \in old
    OBVIOUS
<1> HIDE DEF q, old, kept, a, freed, c, act
<1>7. /\ freed \in Seq(SlotIds) /\ IsInjective(freed) /\ Range(freed) = R
    BY <1>1, <1>4, PartOfSequence DEF freed
<1>8. /\ a.playbackQueue \in Seq(SlotIds) /\ IsInjective(a.playbackQueue)
      /\ Range(a.playbackQueue) = {q[n] : n \in kept}
      /\ \A n, m \in DOMAIN a.playbackQueue : n < m =>
            \E x, y \in kept : x < y /\ a.playbackQueue[n] = q[x] /\ a.playbackQueue[m] = q[y]
    BY <1>1, <1>3, <1>4, PartOfSequence
<1>9. R \subseteq Range(q) /\ {q[n] : n \in kept} = Range(q) \ R
    BY <1>1, <1>4 DEF Range, IsInjective
<1> HIDE DEF R
<1>10. /\ DOMAIN a = BufferFields
       /\ a.slots = b.slots /\ a.activeSlots = b.activeSlots /\ a.freeSlots = b.freeSlots
       /\ a.nKeyFrames = b.nKeyFrames /\ a.playbackNo = b.playbackNo
       /\ a.lastKeySeqNo = b.lastKeySeqNo /\ a.frameReleaseCount = b.frameReleaseCount
       /\ a.keyFrameSeqNo = b.keyFrameSeqNo
    BY <1>3 DEF SameBesides, BufferFields
<1>11. ActiveFrames(a) = ActiveFrames(b) /\ \A g : SlotOf(a, g) = SlotOf(b, g)
    BY <1>10 DEF ActiveFrames, SlotOf
<1>12. Kept(a, out \cup R)
    <2>1. BufferTypeOK(a)
        BY <1>8, <1>10, <1>11 DEF Sound, Kept, BufferTypeOK
    <2>2. Range(a.playbackQueue) = Range(a.activeSlots) \ (out \cup R)
        BY <1>1, <1>8, <1>9, <1>10 DEF act
    <2>3. out \cup R \subseteq Range(a.activeSlots)
        BY <1>1, <1>9, <1>10 DEF act
    <2>4. Accounted(a, out \cup R)
        BY <1>8, <1>10, <1>11, <2>2, <2>3 DEF Sound, Kept, Accounted
    <2>5. QED
        BY <1>10, <2>1, <2>4 DEF Kept
<1>13. Sorted(a)
    <2>1. \A x, y \in kept : x < y => Ascending(b, q[x], q[y])
        BY <1>4 DEF Sorted, q
    <2>2. \A i, j : Ascending(a, i, j) <=> Ascending(b, i, j)
        BY <1>10 DEF Ascending
    <2>3. QED
        BY <1>8, <2>1, <2>2 DEF Sorted
<1>14. /\ Sound(c, (out \cup R) \ R) /\ Sorted(c)
       /\ Shrunk(a, c, FramesOf(a, R))
    BY <1>7, <1>12, <1>13, FreedSound DEF c
<1>15. (out \cup R) \ R = out
    BY <1>1, <1>9
<1>16. FramesOf(a, R) = Buffer!Old(View(b), f)
    <2>1. FramesOf(a, R) = {b.slots[i].frame : i \in R}
        BY <1>10 DEF FramesOf
    <2>2. ASSUME NEW i \in R PROVE b.slots[i].frame \in Buffer!Old(View(b), f)
        <3>1. PICK n \in old : i = q[n]
            BY DEF R
        <3>2. i \in act /\ i \notin out
            BY <1>1, <1>9
        <3>3. /\ b.slots[i].frame \in ActiveFrames(b)
              /\ b.activeSlots[b.slots[i].frame] = i
            BY <3>2, SoundMap DEF act
        <3>4. b.slots[i].frame # f
            BY <3>2, <3>3
        <3>5. SlotOf(b, b.slots[i].frame) = b.slots[i]
            BY <3>3 DEF SlotOf
        <3>6. IsOld(b, f, b.slots[i])
            BY <1>5, <3>1
        <3>7. QED
            BY <3>3, <3>4, <3>5, <3>6, OldFrames
    <2>3. ASSUME NEW g \in Buffer!Old(View(b), f) PROVE \E i \in R : b.slots[i].frame = g
        <3>1. g \in ActiveFrames(b)
            <4>1. g \in Buffer!Active(View(b))
                BY DEF Buffer!Old
            <4>2. QED
                BY <4>1, ViewSlots
        <3>2. g # f /\ IsOld(b, f, SlotOf(b, g))
            BY <3>1, OldFrames
        <3>3. /\ b.activeSlots[g] \in act /\ b.slots[b.activeSlots[g]].frame = g
              /\ b.activeSlots[g] # b.activeSlots[f]
            BY <3>1, <3>2, SoundMap DEF act
        <3>4. b.activeSlots[g] \in Range(q)
            BY <1>1, <3>3
        <3>5. PICK n \in DOMAIN q : q[n] = b.activeSlots[g]
            BY <3>4 DEF Range
        <3>6. n \in old
            BY <1>6, <3>2, <3>5 DEF SlotOf
        <3>7. b.activeSlots[g] \in R
            BY <3>5, <3>6 DEF R
        <3>8. QED
            BY <3>3, <3>7
    <2>4. QED
        BY <2>1, <2>2, <2>3
<1>17. Shrunk(b, c, Buffer!Old(View(b), f))
    <2> DEFINE names == Buffer!Old(View(b), f)
    <2> HIDE DEF names
    <2>1. Shrunk(a, c, names)
        BY <1>14, <1>16 DEF names
    <2>2. SameBesides(c, b, {"slots", "activeSlots", "freeSlots", "playbackQueue", "nKeyFrames"})
        BY <1>10, <2>1 DEF Shrunk, SameBesides, BufferFields
    <2>3. Shrunk(b, c, names)
        BY <1>10, <1>11, <2>1, <2>2 DEF Shrunk
    <2>4. QED
        BY <2>3 DEF names
<1>18. QED
    BY <1>2, <1>14, <1>15, <1>17

-----------------------------------------------------------------------------
(* Playing a frame.                                                          *)

(* The frame at the head of the queue has the slot at the head of the queue. *)
LEMMA HeadHasSlot ==
    ASSUME NEW b, Sound(b, {}), b.playbackQueue # <<>>
    PROVE  /\ Head(b.playbackQueue) \in SlotIds
           /\ HeadFrame(b) \in Frames
           /\ HeadFrame(b) \in ActiveFrames(b)
           /\ b.activeSlots[HeadFrame(b)] = Head(b.playbackQueue)
           /\ SlotOf(b, HeadFrame(b)) = b.slots[Head(b.playbackQueue)]
<1>1. /\ b.playbackQueue \in Seq(SlotIds) /\ IsInjective(b.playbackQueue)
      /\ Range(b.playbackQueue) = Range(b.activeSlots)
    BY DEF Sound, Kept, BufferTypeOK, Accounted
<1>2. Head(b.playbackQueue) \in Range(b.activeSlots) /\ Head(b.playbackQueue) \in SlotIds
    BY <1>1, TailDistinct
<1>3. /\ HeadFrame(b) \in ActiveFrames(b)
      /\ b.activeSlots[HeadFrame(b)] = Head(b.playbackQueue)
    BY <1>2, SoundMap DEF HeadFrame
<1>4. HeadFrame(b) \in Frames
    BY <1>3, SoundMap
<1>5. QED
    BY <1>2, <1>3, <1>4 DEF SlotOf

Popped(b) == UpdatePlaybackDeadlines([b EXCEPT !.playbackQueue = Tail(@)])

(* The slot that is released is in the map and no longer in the queue.       *)
LEMMA PoppedSound ==
    ASSUME NEW b, Sound(b, {}), b.playbackQueue # <<>>
    PROVE  /\ Sound(Popped(b), {Head(b.playbackQueue)})
           /\ Sorted(Popped(b))
           /\ SameBesides(Popped(b), b, {"playbackQueue"})
<1> DEFINE a == [b EXCEPT !.playbackQueue = Tail(@)]
           h == Head(b.playbackQueue)
<1>1. /\ DOMAIN b = BufferFields
      /\ b.playbackQueue \in Seq(SlotIds) /\ IsInjective(b.playbackQueue)
      /\ Range(b.playbackQueue) = Range(b.activeSlots)
    BY DEF Sound, Kept, BufferTypeOK, Accounted
<1>2. /\ Tail(b.playbackQueue) \in Seq(SlotIds) /\ IsInjective(Tail(b.playbackQueue))
      /\ Range(Tail(b.playbackQueue)) = Range(b.activeSlots) \ {h}
      /\ h \in Range(b.activeSlots)
    BY <1>1, TailDistinct
<1>3. SameBesides(a, b, {"playbackQueue"}) /\ a.playbackQueue = Tail(b.playbackQueue)
    BY <1>1 DEF SameBesides, BufferFields
<1>4. Popped(b) = UpdatePlaybackDeadlines(a)
    BY DEF Popped
<1> HIDE DEF a, h
<1>5. /\ DOMAIN a = BufferFields
      /\ a.slots = b.slots /\ a.activeSlots = b.activeSlots /\ a.freeSlots = b.freeSlots
      /\ a.nKeyFrames = b.nKeyFrames /\ a.playbackNo = b.playbackNo
      /\ a.lastKeySeqNo = b.lastKeySeqNo /\ a.frameReleaseCount = b.frameReleaseCount
      /\ a.keyFrameSeqNo = b.keyFrameSeqNo
    BY <1>3 DEF SameBesides, BufferFields
<1>6. ActiveFrames(a) = ActiveFrames(b) /\ \A g : SlotOf(a, g) = SlotOf(b, g)
    BY <1>5 DEF ActiveFrames, SlotOf
<1>7. BufferTypeOK(a)
    BY <1>2, <1>3, <1>5, <1>6 DEF Sound, Kept, BufferTypeOK
<1>8. Accounted(a, {h})
    BY <1>2, <1>3, <1>5, <1>6 DEF Sound, Kept, Accounted
<1>9. Kept(a, {h})
    BY <1>5, <1>7, <1>8 DEF Kept
<1>10. /\ Sound(Popped(b), {h}) /\ Sorted(Popped(b))
       /\ SameBesides(Popped(b), a, {"playbackQueue"})
    BY <1>4, <1>9, ResortedSound
<1>11. QED
    BY <1>3, <1>10 DEF SameBesides, h

(* A key frame that is released asks for the next one.                       *)
AsksNext(b, f) == f.kind = "key" /\ HasMeta(SlotOf(b, f)) /\ b.lastKeySeqNo <= f.no
Asked(b, f) == IF AsksNext(b, f) THEN OnKeyNeeded(Popped(b), f.no + 1) ELSE Popped(b)
ViewAsked(v, f) ==
    IF f.kind = "key" /\ v.slots[f] \in Buffer!HasMeta /\ v.lastKey <= f.no
    THEN Buffer!OnKeyNeeded(v, f.no + 1) ELSE v

LEMMA AskedSound ==
    ASSUME NEW b, Sound(b, {}), b.playbackQueue # <<>>, AskedFor(b)
    PROVE  /\ Sound(Asked(b, HeadFrame(b)), {Head(b.playbackQueue)})
           /\ Sorted(Asked(b, HeadFrame(b)))
           /\ AskedFor(Asked(b, HeadFrame(b)))
           /\ Advanced(b, Asked(b, HeadFrame(b)))
           /\ ActiveFrames(b) \subseteq ActiveFrames(Asked(b, HeadFrame(b)))
           /\ \A g \in ActiveFrames(b) :
                 /\ Asked(b, HeadFrame(b)).activeSlots[g] = b.activeSlots[g]
                 /\ SlotOf(Asked(b, HeadFrame(b)), g) = SlotOf(b, g)
           /\ Asked(b, HeadFrame(b)).playbackNo = b.playbackNo
           /\ View(Asked(b, HeadFrame(b))) = ViewAsked(View(b), HeadFrame(b))
<1> DEFINE f == HeadFrame(b)
           h == Head(b.playbackQueue)
           p == Popped(b)
           c == Asked(b, f)
           out == {h}
<1>1. h \in SlotIds /\ f \in Frames /\ f \in ActiveFrames(b) /\ b.activeSlots[f] = h
    BY HeadHasSlot
<1>2. Sound(p, out) /\ Sorted(p) /\ SameBesides(p, b, {"playbackQueue"})
    BY PoppedSound
<1> HIDE DEF f, h, p, c, out
<1>3. /\ p.activeSlots = b.activeSlots /\ p.playbackNo = b.playbackNo
      /\ p.keyFrameSeqNo = b.keyFrameSeqNo /\ b.keyFrameSeqNo \in Int
      /\ ActiveFrames(p) = ActiveFrames(b) /\ \A g : SlotOf(p, g) = SlotOf(b, g)
      /\ View(p) = View(b)
      /\ AskedFor(p)
    <2>1. SameBesides(p, b, {"freeSlots", "playbackQueue", "playbackNo", "nKeyFrames",
                             "frameReleaseCount"})
        BY <1>2 DEF SameBesides
    <2>2. p.playbackNo = b.playbackNo
        BY <1>2 DEF SameBesides, BufferFields
    <2>3. b.keyFrameSeqNo \in Int
        BY DEF Sound, Kept, BufferTypeOK
    <2>4. QED
        BY <2>1, <2>2, <2>3, SameView
<1>4. /\ View(b).slots[f] \in Buffer!HasMeta <=> HasMeta(SlotOf(b, f))
      /\ View(b).lastKey = b.lastKeySeqNo
    BY <1>1 DEF View, Buffer!HasMeta, HasMeta
<1>5. CASE ~AsksNext(b, f)
    <2>1. c = p
        BY <1>5 DEF c, p, Asked
    <2>2. ViewAsked(View(b), f) = View(b)
        BY <1>4, <1>5 DEF ViewAsked, AsksNext
    <2>3. Advanced(b, p)
        BY <1>3 DEF Advanced
    <2>4. QED
        BY <1>2, <1>3, <2>1, <2>2, <2>3 DEF c, f, h, out
<1>6. CASE AsksNext(b, f)
    <2> DEFINE k == f.no + 1
    <2>1. c = OnKeyNeeded(p, k)
        BY <1>6 DEF c, p, Asked
    <2>2. ViewAsked(View(b), f) = Buffer!OnKeyNeeded(View(b), k)
        BY <1>4, <1>6 DEF ViewAsked, AsksNext
    <2>3. k \in 0..(MaxKey + 1)
        <3>1. Produced(f)
            <4>1. SlotOf(b, f) = b.slots[h] /\ SlotOf(b, f).frame = f
                BY <1>1, SoundMap DEF SlotOf
            <4>2. QED
                BY <1>1, <1>6, <4>1 DEF AskedFor, AsksNext
        <3>2. f.no \in Nat
            BY <1>1, FrameNumbers
        <3>3. QED
            BY <1>6, <3>1, <3>2, PacketsAssumption DEF Produced, AsksNext
    <2> HIDE DEF k
    <2>4. /\ Sound(c, out) /\ Sorted(c) /\ AskedFor(c)
          /\ Grown(p, c, NewKey(p, k))
          /\ View(c) = Buffer!OnKeyNeeded(View(p), k)
        BY <1>2, <1>3, <2>1, <2>3, KeyNeededSound
    <2>5. Advanced(b, c) /\ ActiveFrames(b) \subseteq ActiveFrames(c)
        BY <1>3, <2>3, <2>4, GrownAdvances
    <2>6. c.playbackNo = b.playbackNo
        BY <1>3, <2>4 DEF Grown, SameBesides, BufferFields
    <2>7. \A g \in ActiveFrames(b) : /\ c.activeSlots[g] = b.activeSlots[g]
                                     /\ SlotOf(c, g) = SlotOf(b, g)
        BY <1>3, <2>4 DEF Grown
    <2>8. QED
        BY <1>3, <2>2, <2>4, <2>5, <2>6, <2>7 DEF c, f, h, out
<1>7. QED
    BY <1>5, <1>6

(* What is dropped along with frame f.                                       *)
Dropped(b, f, g) ==
    \/ g = f
    \/ g.kind = "key" /\ SlotOf(b, g).state = "new"
    \/ PlaybackNo(g) < PlaybackNo(f)

LEMMA OldDropped ==
    ASSUME NEW b, NEW out, Sound(b, out), NEW f \in ActiveFrames(b),
           NEW g \in Buffer!Old(View(b), f)
    PROVE  g \in ActiveFrames(b) /\ g # f /\ Dropped(b, f, g)
<1>1. g \in ActiveFrames(b)
    <2>1. g \in Buffer!Active(View(b))
        BY DEF Buffer!Old
    <2>2. QED
        BY <2>1, ViewSlots
<1>2. g # f /\ IsOld(b, f, SlotOf(b, g))
    BY <1>1, OldFrames
<1>3. /\ f \in Frames /\ g \in Frames /\ SlotOf(b, g).frame = g
      /\ SlotOf(b, g).state \in Buffer!SlotStates \ {"free"}
    <2>1. /\ f \in Frames /\ g \in Frames /\ b.activeSlots[g] \in SlotIds
          /\ b.slots[b.activeSlots[g]].frame = g /\ b.slots[b.activeSlots[g]].state # "free"
        BY <1>1, SoundMap
    <2>2. b.slots[b.activeSlots[g]].state \in Buffer!SlotStates
        BY <2>1 DEF Sound, Kept, BufferTypeOK
    <2>3. QED
        BY <2>1, <2>2 DEF SlotOf
<1>4. /\ f.no \in Nat /\ g.no \in Nat /\ Paired(f) \in Nat
      /\ f.kind \in {"key", "delta"} /\ g.kind \in {"key", "delta"}
    BY <1>3, FrameNumbers
<1>5. CASE HasMeta(SlotOf(b, g))
    <2>1. PlaybackNo(SlotOf(b, g).frame) < PlaybackNo(f)
        BY <1>2, <1>5 DEF IsOld
    <2>2. PlaybackNo(g) < PlaybackNo(f)
        BY <1>3, <2>1
    <2>3. QED
        BY <1>1, <1>2, <2>2 DEF Dropped
<1>6. CASE ~HasMeta(SlotOf(b, g)) /\ g.kind = "key"
    <2>1. SlotOf(b, g).state = "new"
        BY <1>3, <1>6 DEF HasMeta, Buffer!SlotStates
    <2>2. QED
        BY <1>1, <1>2, <1>6, <2>1 DEF Dropped
<1>7. CASE ~HasMeta(SlotOf(b, g)) /\ g.kind = "delta"
    <2>1. f.kind = "key" => g.no < Paired(f)
        BY <1>2, <1>3, <1>4, <1>7 DEF IsOld
    <2>2. f.kind = "delta" => g.no < f.no
        BY <1>2, <1>3, <1>4, <1>7 DEF IsOld
    <2>3. QED
        <3>1. PlaybackNo(g) < PlaybackNo(f)
            BY <1>3, <1>4, <1>7, <2>1, <2>2, PlaybackNumbers
        <3>2. QED
            BY <1>1, <1>2, <3>1 DEF Dropped
<1>8. QED
    BY <1>4, <1>5, <1>6, <1>7

Counted(b, f) == [Asked(b, f) EXCEPT !.frameReleaseCount = (@ + 1) % CleanEvery]
Cleaned(b, f) == IF Counted(b, f).frameReleaseCount = 0
                 THEN CleanBuffer(Counted(b, f), f) ELSE Counted(b, f)

(* releaseAcquiredSlot: the frame at the head of the queue loses its slot, and
   so do old frames when the buffer is cleaned.                              *)
LEMMA ReleaseSound ==
    ASSUME NEW b, Sound(b, {}), b.playbackQueue # <<>>, AskedFor(b)
    PROVE  /\ Sound(ReleaseAcquiredSlot(b), {})
           /\ AskedFor(ReleaseAcquiredSlot(b))
           /\ Advanced(b, ReleaseAcquiredSlot(b))
           /\ HeadFrame(b) \notin ActiveFrames(ReleaseAcquiredSlot(b))
           /\ ReleaseAcquiredSlot(b).playbackNo = b.playbackNo
           /\ \A g \in ActiveFrames(b) \ ActiveFrames(ReleaseAcquiredSlot(b)) :
                 Dropped(b, HeadFrame(b), g)
           /\ View(ReleaseAcquiredSlot(b)) \in
                 {Buffer!Free(ViewAsked(View(b), HeadFrame(b)), {HeadFrame(b)}),
                  Buffer!Free(ViewAsked(View(b), HeadFrame(b)),
                      {HeadFrame(b)} \cup Buffer!Old(ViewAsked(View(b), HeadFrame(b)), HeadFrame(b)))}
<1> DEFINE f == HeadFrame(b)
           h == Head(b.playbackQueue)
           a == Asked(b, f)
           n == Counted(b, f)
           d == Cleaned(b, f)
           c == ReleaseAcquiredSlot(b)
           v == ViewAsked(View(b), f)
           out == {h}
<1>1. h \in SlotIds /\ f \in Frames /\ f \in ActiveFrames(b) /\ b.activeSlots[f] = h
    BY HeadHasSlot
<1>2. /\ Sound(a, out) /\ Sorted(a) /\ AskedFor(a) /\ Advanced(b, a)
      /\ ActiveFrames(b) \subseteq ActiveFrames(a)
      /\ \A g \in ActiveFrames(b) : /\ a.activeSlots[g] = b.activeSlots[g]
                                    /\ SlotOf(a, g) = SlotOf(b, g)
      /\ a.playbackNo = b.playbackNo
      /\ View(a) = v
    BY AskedSound
<1>3. c = FreeSlotsOf(d, <<d.activeSlots[f]>>)
    BY DEF ReleaseAcquiredSlot, Cleaned, Counted, Asked, AsksNext, Popped
<1>4. /\ n = [a EXCEPT !.frameReleaseCount = (@ + 1) % CleanEvery]
      /\ d = IF n.frameReleaseCount = 0 THEN CleanBuffer(n, f) ELSE n
    BY DEF Counted, Cleaned
<1> HIDE DEF f, h, a, n, d, c, v, out
<1>5. /\ SameBesides(n, a, {"frameReleaseCount"})
      /\ n.frameReleaseCount = (a.frameReleaseCount + 1) % CleanEvery
      /\ BufferTypeOK(a)
    BY <1>2, <1>4 DEF Sound, Kept, SameBesides, BufferFields
<1>6. Sound(n, out) /\ Sorted(n)
    <2>1. SameBesides(n, a, {"playbackNo", "lastKeySeqNo", "frameReleaseCount", "keyFrameSeqNo"})
        BY <1>5 DEF SameBesides
    <2>2. n.frameReleaseCount \in 0..(CleanEvery - 1)
        BY <1>5, CleanAssumption DEF BufferTypeOK
    <2>3. n.playbackNo \in Int /\ n.lastKeySeqNo \in -1..(MaxKey + 1) /\ n.keyFrameSeqNo \in Int
        BY <1>5 DEF SameBesides, BufferFields, BufferTypeOK
    <2>4. QED
        BY <1>2, <2>1, <2>2, <2>3, SoundBesides
<1>7. /\ n.activeSlots = a.activeSlots /\ n.playbackNo = a.playbackNo
      /\ n.keyFrameSeqNo = a.keyFrameSeqNo
      /\ ActiveFrames(n) = ActiveFrames(a) /\ \A g : SlotOf(n, g) = SlotOf(a, g)
      /\ View(n) = v
      /\ AskedFor(n)
    <2>1. SameBesides(n, a, {"freeSlots", "playbackQueue", "playbackNo", "nKeyFrames",
                             "frameReleaseCount"})
        BY <1>5 DEF SameBesides
    <2>2. n.playbackNo = a.playbackNo
        BY <1>5 DEF SameBesides, BufferFields
    <2>3. QED
        BY <1>2, <2>1, <2>2, SameView
<1>8. f \in ActiveFrames(n) /\ n.activeSlots[f] = h
    BY <1>1, <1>2, <1>7
<1>9. PICK old \in {{}, Buffer!Old(v, f)} :
          /\ \A g \in old : g \in ActiveFrames(n) /\ g # f /\ Dropped(n, f, g)
          /\ Sound(d, out) /\ Sorted(d) /\ Shrunk(n, d, old)
    <2>1. CASE n.frameReleaseCount = 0
        <3>1. d = CleanBuffer(n, f)
            BY <1>4, <2>1
        <3>2. out = {n.activeSlots[f]}
            BY <1>8 DEF out
        <3>3. Sound(d, out) /\ Sorted(d) /\ Shrunk(n, d, Buffer!Old(View(n), f))
            BY <1>6, <1>8, <3>1, <3>2, CleanBufferSound
        <3>4. \A g \in Buffer!Old(View(n), f) : g \in ActiveFrames(n) /\ g # f /\ Dropped(n, f, g)
            BY <1>6, <1>8, OldDropped
        <3>5. QED
            BY <1>7, <3>3, <3>4
    <2>2. CASE n.frameReleaseCount # 0
        <3>1. d = n
            BY <1>4, <2>2
        <3>2. Shrunk(n, n, {})
            BY <1>6 DEF Shrunk, SameBesides, Sound, Kept
        <3>3. QED
            BY <1>6, <3>1, <3>2
    <2>3. QED
        BY <2>1, <2>2
<1>10. f \in ActiveFrames(d) /\ d.activeSlots[f] = h /\ d.slots[h].frame = f
    <2>1. f \in ActiveFrames(d)
        BY <1>8, <1>9 DEF Shrunk
    <2>2. d.activeSlots[f] = h
        BY <1>8, <1>9, <2>1 DEF Shrunk
    <2>3. d.slots[d.activeSlots[f]].frame = f
        BY <1>9, <2>1, SoundMap
    <2>4. QED
        BY <2>1, <2>2, <2>3
<1>11. Sound(c, {}) /\ Shrunk(d, c, {f})
    <2> DEFINE s == <<h>>
    <2>1. s \in Seq(SlotIds) /\ IsInjective(s) /\ Range(s) = out
        BY <1>1, SingletonDistinct DEF out
    <2>2. c = FreeSlotsOf(d, s)
        BY <1>3, <1>10
    <2> HIDE DEF s
    <2>3. Kept(d, out) /\ Sorted(d)
        BY <1>9 DEF Sound
    <2>4. Sound(c, out \ Range(s)) /\ Shrunk(d, c, FramesOf(d, Range(s)))
        BY <2>1, <2>2, <2>3, FreedSound
    <2>5. out \ Range(s) = {} /\ FramesOf(d, Range(s)) = {f}
        BY <1>10, <2>1 DEF FramesOf, out
    <2>6. QED
        BY <2>4, <2>5
<1>12. AskedFor(c)
    BY <1>7, <1>9, <1>11, ShrunkAskedFor
<1>13. /\ ActiveFrames(c) = (ActiveFrames(n) \ old) \ {f}
       /\ c.keyFrameSeqNo = n.keyFrameSeqNo /\ c.playbackNo = n.playbackNo
    BY <1>9, <1>11 DEF Shrunk, SameBesides, BufferFields
<1>14. Advanced(b, c)
    BY <1>2, <1>7, <1>13 DEF Advanced
<1>15. \A g \in ActiveFrames(b) \ ActiveFrames(c) : Dropped(b, f, g)
    <2> SUFFICES ASSUME NEW g \in ActiveFrames(b) \ ActiveFrames(c) PROVE Dropped(b, f, g)
        OBVIOUS
    <2>1. g = f \/ g \in old
        BY <1>2, <1>7, <1>13
    <2>2. SlotOf(n, g) = SlotOf(b, g)
        BY <1>2, <1>7
    <2>3. QED
        BY <1>9, <2>1, <2>2 DEF Dropped
<1>16. View(c) = Buffer!Free(Buffer!Free(v, old), {f})
    BY <1>7, <1>9, <1>11, ShrunkView
<1>17. View(c) \in {Buffer!Free(v, {f}), Buffer!Free(v, {f} \cup Buffer!Old(v, f))}
    <2>1. Buffer!Free(Buffer!Free(v, old), {f}) = Buffer!Free(v, {f} \cup old)
        <3>1. ASSUME NEW X
              PROVE  Buffer!Free(v, X) =
                        [slots |-> [g \in Frames |-> IF g \in X THEN "free" ELSE v.slots[g]],
                         lastKey |-> v.lastKey, nextKey |-> v.nextKey]
            <4>1. v = [slots |-> v.slots, lastKey |-> v.lastKey, nextKey |-> v.nextKey]
                BY <1>2 DEF View
            <4>2. QED
                BY <4>1, SamePackets DEF Buffer!Free
        <3>2. ASSUME NEW X
              PROVE  Buffer!Free(Buffer!Free(v, X), {f}) =
                        [slots |-> [g \in Frames |-> IF g \in {f} \cup X THEN "free" ELSE v.slots[g]],
                         lastKey |-> v.lastKey, nextKey |-> v.nextKey]
            <4> DEFINE w == Buffer!Free(v, X)
            <4>1. /\ w = [slots |-> w.slots, lastKey |-> v.lastKey, nextKey |-> v.nextKey]
                  /\ \A g \in Frames : w.slots[g] = IF g \in X THEN "free" ELSE v.slots[g]
                BY <3>1
            <4> HIDE DEF w
            <4>2. Buffer!Free(w, {f}) =
                     [slots |-> [g \in Frames |-> IF g \in {f} THEN "free" ELSE w.slots[g]],
                      lastKey |-> v.lastKey, nextKey |-> v.nextKey]
                BY <4>1, SamePackets DEF Buffer!Free
            <4>3. [g \in Frames |-> IF g \in {f} THEN "free" ELSE w.slots[g]]
                    = [g \in Frames |-> IF g \in {f} \cup X THEN "free" ELSE v.slots[g]]
                BY <4>1
            <4>4. QED
                BY <4>2, <4>3 DEF w
        <3>3. QED
            BY <3>1, <3>2
    <2>2. old = {} => {f} \cup old = {f}
        OBVIOUS
    <2>3. QED
        BY <1>9, <1>16, <2>1, <2>2
<1>18. QED
    BY <1>2, <1>7, <1>11, <1>12, <1>13, <1>14, <1>15, <1>17 DEF f, c, v

(* acquireSlot moves playbackNo_ forward, or forgets it.                     *)
LEMMA AcquireSound ==
    ASSUME NEW b, NEW out, Sound(b, out), NEW f \in Frames, HeadFrame(b) = f
    PROVE  /\ Sound(AcquireSlot(b), out)
           /\ AskedFor(b) => AskedFor(AcquireSlot(b))
           /\ View(AcquireSlot(b)) = View(b)
           /\ AcquireSlot(b).playbackQueue = b.playbackQueue
           /\ HeadFrame(AcquireSlot(b)) = f
           /\ ActiveFrames(AcquireSlot(b)) = ActiveFrames(b)
           /\ \A g : SlotOf(AcquireSlot(b), g) = SlotOf(b, g)
           /\ AcquireSlot(b).keyFrameSeqNo = b.keyFrameSeqNo
           /\ Skipped(b) => AcquireSlot(b).playbackNo = b.playbackNo
           /\ ~Skipped(b) => AcquireSlot(b).playbackNo =
                                IF HasMeta(b.slots[Head(b.playbackQueue)])
                                THEN PlaybackNo(f) ELSE -1
<1> DEFINE c == AcquireSlot(b)
<1>1. DOMAIN b = BufferFields /\ BufferTypeOK(b)
    BY DEF Sound, Kept
<1>2. /\ SameBesides(c, b, {"playbackNo"})
      /\ Skipped(b) => c.playbackNo = b.playbackNo
      /\ ~Skipped(b) => c.playbackNo = IF HasMeta(b.slots[Head(b.playbackQueue)])
                                       THEN PlaybackNo(f) ELSE -1
    <2>1. CASE Skipped(b)
        BY <1>1, <2>1 DEF AcquireSlot, SameBesides
    <2>2. CASE ~Skipped(b)
        BY <1>1, <2>2 DEF AcquireSlot, SameBesides, BufferFields
    <2>3. QED
        BY <2>1, <2>2
<1> HIDE DEF c
<1>3. c.playbackNo \in Int
    BY <1>1, <1>2, FrameNumbers DEF BufferTypeOK
<1>4. /\ c.playbackQueue = b.playbackQueue /\ c.slots = b.slots
      /\ c.lastKeySeqNo \in -1..(MaxKey + 1)
      /\ c.frameReleaseCount \in 0..(CleanEvery - 1) /\ c.keyFrameSeqNo \in Int
    BY <1>1, <1>2 DEF SameBesides, BufferFields, BufferTypeOK
<1>5. SameBesides(c, b, {"playbackNo", "lastKeySeqNo", "frameReleaseCount", "keyFrameSeqNo"})
    BY <1>2 DEF SameBesides
<1>6. SameBesides(c, b, {"freeSlots", "playbackQueue", "playbackNo", "nKeyFrames",
                         "frameReleaseCount"})
    BY <1>2 DEF SameBesides
<1>7. Sound(c, out)
    BY <1>3, <1>4, <1>5, SoundBesides
<1>8. HeadFrame(c) = f
    BY <1>4 DEF HeadFrame
<1>9. QED
    BY <1>2, <1>4, <1>6, <1>7, <1>8, SameView DEF c

(* The order of the abstract buffer is strict.                               *)
LEMMA BeforeStrict ==
    ASSUME NEW v, NEW late, NEW f \in Frames, NEW g \in Frames,
           Buffer!Before(v, late, f, g), Buffer!Before(v, late, g, f)
    PROVE  f = g
<1>1. /\ f.no \in Nat /\ g.no \in Nat /\ f.kind \in {"key", "delta"} /\ g.kind \in {"key", "delta"}
      /\ PlaybackNo(f) \in Nat /\ PlaybackNo(g) \in Nat
    BY FrameNumbers
<1>2. Buffer!PlaybackNo(f) = PlaybackNo(f) /\ Buffer!PlaybackNo(g) = PlaybackNo(g)
    BY DEF Buffer!PlaybackNo, PlaybackNo
<1> DEFINE rank(x) == Buffer!Rank(v, late, x)
<1>3. /\ rank(f) = 0 \/ rank(f) = IF f.kind = "delta" THEN 1 ELSE 2
      /\ rank(g) = 0 \/ rank(g) = IF g.kind = "delta" THEN 1 ELSE 2
    BY DEF Buffer!Rank
<1> HIDE DEF rank
<1>4. /\ \/ rank(f) < rank(g)
         \/ /\ rank(f) = rank(g)
            /\ IF rank(f) = 0 THEN PlaybackNo(f) <= PlaybackNo(g) ELSE f.no <= g.no
      /\ \/ rank(g) < rank(f)
         \/ /\ rank(g) = rank(f)
            /\ IF rank(g) = 0 THEN PlaybackNo(g) <= PlaybackNo(f) ELSE g.no <= f.no
    BY <1>2 DEF Buffer!Before, rank
<1>5. rank(f) = rank(g)
    BY <1>1, <1>3, <1>4
<1>6. CASE rank(f) = 0
    <2>1. PlaybackNo(f) = PlaybackNo(g)
        BY <1>1, <1>4, <1>5, <1>6
    <2>2. QED
        BY <2>1, PlaybackNumbers
<1>7. CASE rank(f) # 0
    <2>1. f.no = g.no /\ f.kind = g.kind
        BY <1>1, <1>3, <1>4, <1>5, <1>7
    <2>2. QED
        BY <2>1, SameFrame
<1>8. QED
    BY <1>6, <1>7

(* The head of the queue is a head of the abstract buffer.                   *)
LEMMA HeadOfView ==
    ASSUME NEW b, Sound(b, {}), b.playbackQueue # <<>>
    PROVE  \E late \in SUBSET Buffer!Met(View(b)) : HeadFrame(b) = Buffer!Head(View(b), late)
<1> DEFINE f == HeadFrame(b)
           h == Head(b.playbackQueue)
           q == b.playbackQueue
           v == View(b)
<1>1. h \in SlotIds /\ f \in Frames /\ f \in ActiveFrames(b) /\ b.activeSlots[f] = h
    BY HeadHasSlot
<1>2. PICK L \in Late(b) : Sorted(Unnoticed(b, L))
    BY DEF Sound, SortedButForLate
<1> DEFINE u == Unnoticed(b, L)
           late == {g \in ActiveFrames(b) : b.activeSlots[g] \in L}
<1>3. /\ q \in Seq(SlotIds) /\ Range(q) = Range(b.activeSlots) /\ IsInjective(q)
      /\ b.slots \in [SlotIds -> [frame : Frames \cup {Nobody}, state : Buffer!SlotStates]]
      /\ DOMAIN b = BufferFields
    BY DEF Sound, Kept, BufferTypeOK, Accounted
<1>4. q[1] = h /\ 1 \in DOMAIN q
    BY <1>3
<1>5. \A g \in ActiveFrames(b) : /\ g \in Frames
                                 /\ b.activeSlots[g] \in SlotIds
                                 /\ b.activeSlots[g] \in Range(b.activeSlots)
                                 /\ b.slots[b.activeSlots[g]].frame = g
    BY SoundMap
<1>6. late \subseteq Buffer!Met(v)
    <2> SUFFICES ASSUME NEW g \in late PROVE g \in Buffer!Met(v)
        OBVIOUS
    <2>1. SlotOf(b, g).state = "met"
        BY <1>2 DEF Late, SlotOf
    <2>2. v.slots[g] = "met"
        BY <1>5, <2>1 DEF View
    <2>3. QED
        BY <1>5, <2>2, SamePackets DEF Buffer!Met
<1>7. u.playbackQueue = q /\ \A i \in SlotIds : /\ u.slots[i].frame = b.slots[i].frame
                                                /\ HasMeta(u.slots[i]) <=> HasMeta(b.slots[i]) /\ i \notin L
    <2>1. /\ u.playbackQueue = q
          /\ u.slots = [i \in SlotIds |-> IF i \in L THEN [b.slots[i] EXCEPT !.state = "new"]
                                         ELSE b.slots[i]]
        BY <1>3 DEF Unnoticed, BufferFields
    <2>2. \A i \in SlotIds : b.slots[i] = [frame |-> b.slots[i].frame, state |-> b.slots[i].state]
        BY <1>3
    <2> HIDE DEF u
    <2>3. ASSUME NEW i \in SlotIds
          PROVE  /\ u.slots[i].frame = b.slots[i].frame
                 /\ HasMeta(u.slots[i]) <=> HasMeta(b.slots[i]) /\ i \notin L
        <3>1. CASE i \in L
            <4>1. u.slots[i] = [frame |-> b.slots[i].frame, state |-> "new"]
                BY <2>1, <2>2, <3>1
            <4>2. QED
                BY <3>1, <4>1 DEF HasMeta
        <3>2. CASE i \notin L
            BY <2>1, <3>2
        <3>3. QED
            BY <3>1, <3>2
    <2>4. QED
        BY <2>1, <2>3
<1> HIDE DEF u, late, f, h, q, v
<1>8. ASSUME NEW g \in ActiveFrames(b)
      PROVE  Buffer!Before(v, late, f, g)
    <2> DEFINE j == b.activeSlots[g]
               meta(x) == v.slots[x] \in Buffer!HasMeta /\ x \notin late
    <2>1. /\ j \in SlotIds /\ u.slots[j].frame = g /\ u.slots[h].frame = f
          /\ f.no \in Nat /\ g.no \in Nat /\ PlaybackNo(f) \in Nat /\ PlaybackNo(g) \in Nat
          /\ f.kind \in {"key", "delta"} /\ g.kind \in {"key", "delta"}
        BY <1>1, <1>5, <1>7, FrameNumbers
    <2>2. ASSUME NEW x \in ActiveFrames(b)
          PROVE  HasMeta(u.slots[b.activeSlots[x]]) <=> meta(x)
        <3>1. v.slots[x] \in Buffer!HasMeta <=> HasMeta(b.slots[b.activeSlots[x]])
            BY <1>5 DEF v, View, SlotOf, Buffer!HasMeta, HasMeta
        <3>2. x \in late <=> b.activeSlots[x] \in L
            BY DEF late
        <3>3. QED
            BY <1>5, <1>7, <3>1, <3>2
    <2>3. (HasMeta(u.slots[j]) <=> meta(g)) /\ (HasMeta(u.slots[h]) <=> meta(f))
        BY <1>1, <2>2
    <2>4. /\ Buffer!Rank(v, late, f) = IF meta(f) THEN 0 ELSE IF f.kind = "delta" THEN 1 ELSE 2
          /\ Buffer!Rank(v, late, g) = IF meta(g) THEN 0 ELSE IF g.kind = "delta" THEN 1 ELSE 2
        BY DEF Buffer!Rank
    <2>5. Buffer!PlaybackNo(f) = PlaybackNo(f) /\ Buffer!PlaybackNo(g) = PlaybackNo(g)
        BY DEF Buffer!PlaybackNo, PlaybackNo
    <2>6. CASE g = f
        BY <2>1, <2>5, <2>6 DEF Buffer!Before
    <2>7. CASE g # f
        <3>1. j # h /\ j \in Range(q)
            BY <1>1, <1>3, <1>5, <2>7
        <3>2. PICK m \in DOMAIN q : q[m] = j
            BY <3>1 DEF Range
        <3>3. 1 < m
            BY <1>3, <1>4, <3>1, <3>2
        <3>4. Ascending(u, h, j)
            BY <1>2, <1>4, <1>7, <3>2, <3>3 DEF Sorted, u
        <3> HIDE DEF j, meta
        <3>5. \/ meta(f) /\ meta(g) /\ PlaybackNo(f) < PlaybackNo(g)
              \/ meta(f) /\ ~meta(g)
              \/ /\ ~meta(f) /\ ~meta(g)
                 /\ \/ f.kind = "delta" /\ g.kind = "key"
                    \/ f.kind = g.kind /\ f.no < g.no
            BY <2>1, <2>3, <3>4 DEF Ascending
        <3>6. QED
            BY <2>1, <2>4, <2>5, <3>5 DEF Buffer!Before
    <2>8. QED
        BY <2>6, <2>7
<1>9. Buffer!Head(v, late) = f
    <2>1. Buffer!Active(v) = ActiveFrames(b)
        BY ViewSlots DEF v
    <2>2. \A x \in ActiveFrames(b) :
              (\A g \in ActiveFrames(b) : Buffer!Before(v, late, x, g)) => x = f
        BY <1>1, <1>5, <1>8, BeforeStrict
    <2>3. QED
        BY <1>1, <1>8, <2>1, <2>2 DEF Buffer!Head
<1>10. QED
    BY <1>6, <1>9 DEF v, f

-----------------------------------------------------------------------------
(* An empty buffer.                                                          *)

Empty(b) ==
    /\ DOMAIN b = BufferFields
    /\ b.slots = [i \in SlotIds |-> FreeSlot]
    /\ b.activeSlots = [f \in {} |-> 0]
    /\ b.freeSlots \in Seq(SlotIds) /\ IsInjective(b.freeSlots) /\ Range(b.freeSlots) = SlotIds
    /\ b.playbackQueue = <<>>
    /\ b.playbackNo = -1 /\ b.lastKeySeqNo = -1 /\ b.nKeyFrames = 0
    /\ b.frameReleaseCount = 0 /\ b.keyFrameSeqNo = -1

LEMMA EmptySound ==
    ASSUME NEW b, Empty(b)
    PROVE  /\ Sound(b, {}) /\ AskedFor(b) /\ ActiveFrames(b) = {}
           /\ View(b) = Buffer!EmptyBuffer(-1)
<1>1. ActiveFrames(b) = {} /\ Range(b.activeSlots) = {}
    BY DEF Empty, ActiveFrames, Range
<1>2. BufferTypeOK(b)
    <2>1. FreeSlot \in [frame : Frames \cup {Nobody}, state : Buffer!SlotStates]
        BY DEF FreeSlot, Buffer!SlotStates
    <2>2. \A i \in SlotIds : b.slots[i] = FreeSlot
        BY DEF Empty
    <2>3. b.slots \in [SlotIds -> [frame : Frames \cup {Nobody}, state : Buffer!SlotStates]]
        BY <2>1 DEF Empty
    <2>4. \A i \in SlotIds : b.slots[i].state = "free" <=> b.slots[i].frame = Nobody
        BY <2>2 DEF FreeSlot
    <2>5. b.activeSlots \in [ActiveFrames(b) -> SlotIds]
        BY <1>1 DEF Empty
    <2>6. /\ -1 \in -1..(MaxKey + 1) /\ 0 \in 0..(CleanEvery - 1)
          /\ b.playbackQueue \in Seq(SlotIds)
        BY PacketsAssumption, CleanAssumption DEF Empty
    <2>7. QED
        BY <1>1, <2>3, <2>4, <2>5, <2>6 DEF Empty, BufferTypeOK
<1>3. Accounted(b, {})
    <2>1. IsInjective(b.playbackQueue) /\ Range(b.playbackQueue) = {}
        BY DEF Empty, IsInjective, Range
    <2>2. Cardinality(ActiveFrames(b) \cap Keys) = 0
        BY <1>1, FS_EmptySet
    <2>3. QED
        BY <1>1, <2>1, <2>2 DEF Empty, Accounted
<1>4. Sorted(b)
    BY DEF Empty, Sorted
<1>5. Sound(b, {})
    BY <1>2, <1>3, <1>4, SortedEnough DEF Sound, Kept, Empty
<1>6. AskedFor(b)
    BY <1>1 DEF AskedFor, Empty, FreeSlot, HasMeta
<1>7. View(b) = Buffer!EmptyBuffer(-1)
    BY <1>1, SamePackets DEF View, Empty, Buffer!EmptyBuffer
<1>8. QED
    BY <1>1, <1>5, <1>6, <1>7

(* Numbering a finite set takes all of it.                                   *)
LEMMA NumberedSet ==
    ASSUME NEW S, IsFiniteSet(S),
           NEW s \in [1..Cardinality(S) -> S], IsInjective(s)
    PROVE  s \in Seq(S) /\ Range(s) = S
<1>1. Cardinality(S) \in Nat
    BY FS_CardinalityType
<1>2. IsFiniteSet(1..Cardinality(S)) /\ Cardinality(1..Cardinality(S)) = Cardinality(S)
    BY <1>1, FS_Interval
<1>3. s \in Injection(1..Cardinality(S), S)
    BY DEF Injection
<1>4. s \in Surjection(1..Cardinality(S), S)
    BY <1>2, <1>3, FS_Injection
<1>5. s \in Seq(S)
    BY <1>1
<1>6. Range(s) = S
    BY <1>4 DEF Surjection, Range
<1>7. QED
    BY <1>5, <1>6

(* Reset gives the slots of the map back to the pool.                        *)
LEMMA ResetSound ==
    ASSUME NEW b, Sound(b, {})
    PROVE  Empty(ResetBuffer(b))
<1> DEFINE act == Range(b.activeSlots)
           t == SetToSeq(act)
<1>1. /\ DOMAIN b = BufferFields
      /\ b.freeSlots \in Seq(SlotIds) /\ IsInjective(b.freeSlots)
      /\ Range(b.freeSlots) = SlotIds \ act
    BY DEF Sound, Kept, BufferTypeOK, Accounted
<1>2. act \subseteq SlotIds
    BY SoundMap
<1> HIDE DEF act
<1>3. IsFiniteSet(act)
    BY <1>2, SlotIdsAssumption, FS_Subset
<1>4. t \in [1..Cardinality(act) -> act] /\ IsInjective(t)
    <2>1. \E s \in [1..Cardinality(act) -> act] : IsInjective(s)
        <3>1. PICK s \in Bijection(1..Cardinality(act), act) : TRUE
            BY <1>3, FS_CardinalityType DEF ExistsBijection
        <3>2. QED
            BY <3>1 DEF Bijection, Injection
    <2>2. QED
        BY <2>1 DEF SetToSeq
<1> HIDE DEF t
<1>5. t \in Seq(act) /\ Range(t) = act
    BY <1>3, <1>4, NumberedSet
<1>6. t \in Seq(SlotIds)
    BY <1>2, <1>5
<1>7. /\ b.freeSlots \o t \in Seq(SlotIds) /\ IsInjective(b.freeSlots \o t)
      /\ Range(b.freeSlots \o t) = SlotIds
    <2>1. Range(b.freeSlots) \cap Range(t) = {} /\ Range(b.freeSlots) \cup Range(t) = SlotIds
        BY <1>1, <1>2, <1>5
    <2>2. /\ b.freeSlots \o t \in Seq(SlotIds) /\ IsInjective(b.freeSlots \o t)
          /\ Range(b.freeSlots \o t) = Range(b.freeSlots) \cup Range(t)
        BY <1>1, <1>4, <1>6, <2>1, ConcatDistinct
    <2>3. QED
        BY <2>1, <2>2
<1>8. ResetBuffer(b).freeSlots = b.freeSlots \o t
    BY <1>1 DEF ResetBuffer, BufferFields, t, act
<1>9. /\ DOMAIN ResetBuffer(b) = BufferFields
      /\ ResetBuffer(b).slots = [i \in SlotIds |-> FreeSlot]
      /\ ResetBuffer(b).activeSlots = [f \in {} |-> 0]
      /\ ResetBuffer(b).playbackQueue = <<>>
      /\ ResetBuffer(b).playbackNo = -1 /\ ResetBuffer(b).lastKeySeqNo = -1
      /\ ResetBuffer(b).nKeyFrames = 0
      /\ ResetBuffer(b).frameReleaseCount = 0 /\ ResetBuffer(b).keyFrameSeqNo = -1
    BY <1>1 DEF ResetBuffer, BufferFields
<1>10. QED
    BY <1>7, <1>8, <1>9 DEF Empty

(* init() puts every slot into the pool.                                     *)
LEMMA InitEmpty ==
    ASSUME Init
    PROVE  Empty(fb)
<1>1. PICK pool \in Injection(1..Cardinality(SlotIds), SlotIds) :
          fb = [slots |-> [i \in SlotIds |-> FreeSlot],
                activeSlots |-> [f \in {} |-> 0],
                freeSlots |-> pool,
                playbackQueue |-> <<>>,
                playbackNo |-> -1, lastKeySeqNo |-> -1, nKeyFrames |-> 0,
                frameReleaseCount |-> 0, keyFrameSeqNo |-> -1]
    BY DEF Init
<1>2. pool \in [1..Cardinality(SlotIds) -> SlotIds] /\ IsInjective(pool)
    BY DEF Injection
<1>3. pool \in Seq(SlotIds) /\ Range(pool) = SlotIds
    BY <1>2, SlotIdsAssumption, NumberedSet
<1>4. DOMAIN fb = BufferFields
    BY <1>1 DEF BufferFields
<1>5. QED
    BY <1>1, <1>2, <1>3, <1>4 DEF Empty

-----------------------------------------------------------------------------
(* The handlers keep the invariant, and do to the abstract buffer what it
   promises.                                                                 *)

LEMMA InitStep ==
    ASSUME Init
    PROVE  IInv /\ View(fb) = Buffer!EmptyBuffer(-1)
<1>1. Empty(fb) /\ isValid = FALSE /\ deltaFrameSeqNo = 0
    BY InitEmpty DEF Init
<1>2. /\ Sound(fb, {}) /\ AskedFor(fb) /\ ActiveFrames(fb) = {}
      /\ View(fb) = Buffer!EmptyBuffer(-1)
    BY <1>1, EmptySound
<1>3. fb.keyFrameSeqNo = -1
    BY <1>1 DEF Empty
<1>4. TypeOK
    <2>1. BufferTypeOK(fb)
        BY <1>2 DEF Sound, Kept
    <2>2. isValid \in BOOLEAN
        BY <1>1
    <2>3. deltaFrameSeqNo \in 0..(MaxDelta + 1)
        <3>1. 0 \in 0..(MaxDelta + 1)
            BY PacketsAssumption
        <3>2. QED
            BY <1>1, <3>1
    <2>4. QED
        BY <2>1, <2>2, <2>3 DEF TypeOK
<1>5. QED
    BY <1>1, <1>2, <1>3, <1>4 DEF IInv

LEMMA AskStep ==
    ASSUME IInv, NEW k \in 0..MaxKey, AskForInitialData(k)
    PROVE  /\ IInv'
           /\ isValid' /\ ActiveFrames(fb) = {}
           /\ fb'.playbackNo = fb.playbackNo
           /\ View(fb)' = Buffer!RequestNextKey(View(fb), k + 1)
<1> DEFINE c == OnKeyNeeded(fb, k + 1)
<1>1. /\ ~isValid /\ isValid' = TRUE /\ deltaFrameSeqNo' = deltaFrameSeqNo
      /\ fb' = RequestNextKey(fb, k + 1)
    BY DEF AskForInitialData
<1>2. /\ Sound(fb, {}) /\ AskedFor(fb) /\ ActiveFrames(fb) = {} /\ fb.keyFrameSeqNo = -1
      /\ deltaFrameSeqNo \in 0..(MaxDelta + 1)
    BY <1>1 DEF IInv, TypeOK
<1>3. fb.keyFrameSeqNo <= k + 1 /\ k + 1 \in 0..(MaxKey + 1)
    BY <1>2, PacketsAssumption
<1>4. fb' = c
    BY <1>1, <1>3 DEF OnKeyNeeded
<1> HIDE DEF c
<1>5. /\ Sound(c, {}) /\ AskedFor(c)
      /\ Grown(fb, c, NewKey(fb, k + 1))
      /\ View(c) = Buffer!OnKeyNeeded(View(fb), k + 1)
    BY <1>2, <1>3, KeyNeededSound DEF c
<1>6. Buffer!OnKeyNeeded(View(fb), k + 1) = Buffer!RequestNextKey(View(fb), k + 1)
    BY <1>3 DEF Buffer!OnKeyNeeded, View
<1>7. c.playbackNo = fb.playbackNo
    BY <1>5 DEF Grown, SameBesides, BufferFields
<1>8. ActiveFrames(c) \cap Deltas = {}
    <2>1. \A g \in ActiveFrames(c) : g = Key(k + 1)
        BY <1>2, <1>5 DEF Grown, NewKey
    <2>2. Key(k + 1) \notin Deltas
        BY DEF Key, Deltas
    <2>3. QED
        BY <2>1, <2>2
<1>9. BufferTypeOK(c)
    BY <1>5 DEF Sound, Kept
<1>10. IInv'
    BY <1>1, <1>2, <1>4, <1>5, <1>8, <1>9 DEF IInv, TypeOK
<1>11. View(fb)' = View(c)
    BY <1>4 DEF View, ActiveFrames, SlotOf
<1>12. QED
    BY <1>1, <1>2, <1>4, <1>5, <1>6, <1>7, <1>10, <1>11

LEMMA DeltaStep ==
    ASSUME IInv, NEW d \in 0..MaxDelta, RequestNextDelta(d)
    PROVE  /\ IInv'
           /\ isValid' /\ isValid
           /\ Grown(fb, fb', {Delta(d)})
           /\ fb'.keyFrameSeqNo = fb.keyFrameSeqNo
           /\ fb'.playbackNo = fb.playbackNo
           /\ View(fb)' = Buffer!PrefetchDeltas(View(fb), d, 1)
<1> DEFINE f == Delta(d)
           c == InterestIssued(fb, f)
           v == View(fb)
<1>1. /\ isValid /\ isValid' = isValid /\ deltaFrameSeqNo <= d /\ deltaFrameSeqNo' = d + 1
      /\ fb' = c
    BY DEF RequestNextDelta
<1>2. /\ Sound(fb, {}) /\ AskedFor(fb) /\ deltaFrameSeqNo \in 0..(MaxDelta + 1)
      /\ \A g \in ActiveFrames(fb) \cap Deltas : g.no < deltaFrameSeqNo
    BY DEF IInv, TypeOK
<1>3. f \in Frames /\ f \in Deltas /\ f.no = d /\ f.kind = "delta" /\ f \notin Keys
    BY DEF Delta, Frames, Deltas, Keys
<1>4. v.slots[f] = "free"
    <2>1. f \notin ActiveFrames(fb)
        BY <1>1, <1>2, <1>3
    <2>2. QED
        BY <1>2, <1>3, <2>1, ViewSlots
<1> HIDE DEF c, f
<1>5. /\ Sound(c, {})
      /\ Grown(fb, c, {f})
      /\ c.keyFrameSeqNo = fb.keyFrameSeqNo
      /\ View(c).slots = IF Buffer!FreeSlots(v) > 0 THEN [v.slots EXCEPT ![f] = "new"] ELSE v.slots
      /\ View(c).lastKey = v.lastKey
    BY <1>2, <1>3, <1>4, InterestIssuedSound DEF c
<1>6. c.playbackNo = fb.playbackNo
    BY <1>5 DEF Grown, SameBesides, BufferFields
<1>7. AskedFor(c)
    <2>1. \A g \in ActiveFrames(c) \cap Keys : g \in ActiveFrames(fb)
        BY <1>3, <1>5 DEF Grown
    <2>2. \A i \in SlotIds : HasMeta(c.slots[i]) => c.slots[i] = fb.slots[i]
        BY <1>5 DEF Grown, HasMeta
    <2>3. QED
        BY <1>2, <1>5, <2>1, <2>2 DEF AskedFor
<1>8. \A g \in ActiveFrames(c) \cap Deltas : g.no < d + 1
    <2> SUFFICES ASSUME NEW g \in ActiveFrames(c) \cap Deltas PROVE g.no < d + 1
        OBVIOUS
    <2>1. g \in ActiveFrames(fb) \/ g = f
        BY <1>5 DEF Grown
    <2>2. g.no \in Nat
        BY PacketsAssumption DEF Deltas
    <2>3. g \in ActiveFrames(fb) => g.no < deltaFrameSeqNo
        BY <1>2
    <2>4. QED
        BY <1>1, <1>2, <1>3, <2>1, <2>2, <2>3
<1>9. IInv'
    <2>1. BufferTypeOK(c)
        BY <1>5 DEF Sound, Kept
    <2>2. d + 1 \in 0..(MaxDelta + 1)
        BY PacketsAssumption
    <2>3. isValid \in BOOLEAN
        BY DEF IInv, TypeOK
    <2>4. QED
        BY <1>1, <1>5, <1>7, <1>8, <2>1, <2>2, <2>3 DEF IInv, TypeOK
<1>10. View(c) = Buffer!PrefetchDeltas(v, d, 1)
    <2> DEFINE free == Buffer!FreeSlots(v)
               m == IF 1 <= free THEN 1 ELSE free
               new == {g \in Deltas : d <= g.no /\ g.no < d + m}
    <2>1. free \in Nat
        BY <1>2, ViewSlots
    <2>2. Buffer!PrefetchDeltas(v, d, 1) =
             [v EXCEPT !.slots = [g \in Frames |-> IF g \in new THEN "new" ELSE @[g]]]
        BY SamePackets DEF Buffer!PrefetchDeltas
    <2>3. v = [slots |-> v.slots, lastKey |-> v.lastKey, nextKey |-> v.nextKey]
          /\ v.slots = [g \in Frames |-> v.slots[g]]
        BY DEF View
    <2>4. View(c) = [slots |-> View(c).slots, lastKey |-> v.lastKey, nextKey |-> v.nextKey]
        BY <1>5 DEF View
    <2> HIDE DEF v, free
    <2>5. CASE free > 0
        <3>1. m = 1
            BY <2>1, <2>5
        <3>2. new = {f}
            <4>1. \A g \in Deltas : g.no \in Nat /\ (g.no = d => g = f)
                BY <1>3, PacketsAssumption DEF Deltas, f, Delta
            <4>2. QED
                BY <1>3, <3>1, <4>1
        <3> HIDE DEF new, m
        <3>3. [v.slots EXCEPT ![f] = "new"] = [g \in Frames |-> IF g \in new THEN "new" ELSE v.slots[g]]
            BY <1>3, <2>3, <3>2
        <3>4. QED
            BY <1>5, <2>2, <2>3, <2>4, <2>5, <3>3 DEF free
    <2>6. CASE ~(free > 0)
        <3>1. m = 0
            BY <2>1, <2>6
        <3>2. new = {}
            <4>1. \A g \in Deltas : g.no \in Nat
                BY PacketsAssumption DEF Deltas
            <4>2. QED
                BY <3>1, <4>1
        <3> HIDE DEF new, m
        <3>3. v.slots = [g \in Frames |-> IF g \in new THEN "new" ELSE v.slots[g]]
            BY <2>3, <3>2
        <3>4. QED
            BY <1>5, <2>2, <2>3, <2>4, <2>6, <3>3 DEF free
    <2>7. QED
        BY <2>5, <2>6
<1>11. View(fb)' = View(c)
    BY <1>1 DEF View, ActiveFrames, SlotOf
<1>12. QED
    BY <1>1, <1>5, <1>6, <1>9, <1>10, <1>11 DEF f

LEMMA DataStep ==
    ASSUME IInv, NEW f \in Frames, Receive(f)
    PROVE  /\ IInv'
           /\ isValid' = isValid
           /\ ActiveFrames(fb) \subseteq ActiveFrames(fb')
           /\ Advanced(fb, fb')
           /\ fb'.playbackNo = fb.playbackNo
           /\ Produced(f)
           /\ View(fb).slots[f] \in Buffer!Unfinished
           /\ \E s \in Buffer!Appended(View(fb).slots[f]) :
                 View(fb)' = Buffer!NewData(View(fb), f, s)
<1>1. /\ f \in ActiveFrames(fb) /\ Produced(f) /\ SlotOf(fb, f).state \in Buffer!Unfinished
      /\ isValid' = isValid /\ deltaFrameSeqNo' = deltaFrameSeqNo
    BY DEF Receive
<1>2. PICK s \in Buffer!Appended(SlotOf(fb, f).state), isHeader \in BOOLEAN :
          fb' = NewData(fb, f, s, isHeader)
    BY DEF Receive
<1> DEFINE c == NewData(fb, f, s, isHeader)
<1>3. /\ Sound(fb, {}) /\ AskedFor(fb)
      /\ \A g \in ActiveFrames(fb) \cap Deltas : g.no < deltaFrameSeqNo
      /\ isValid \in BOOLEAN /\ deltaFrameSeqNo \in 0..(MaxDelta + 1)
      /\ isValid
    BY <1>1 DEF IInv, TypeOK
<1>4. fb' = c
    BY <1>2
<1> HIDE DEF c
<1>5. /\ Sound(c, {}) /\ AskedFor(c) /\ ActiveFrames(fb) \subseteq ActiveFrames(c)
      /\ Advanced(fb, c) /\ c.playbackNo = fb.playbackNo
      /\ View(c) = Buffer!NewData(View(fb), f, s)
    BY <1>1, <1>3, NewDataSound DEF c
<1>6. IInv'
    <2>1. BufferTypeOK(c)
        BY <1>5 DEF Sound, Kept
    <2>2. \A g \in ActiveFrames(c) \cap Deltas : g \in ActiveFrames(fb)
        BY <1>5 DEF Advanced, Keys, Deltas
    <2>3. QED
        BY <1>1, <1>3, <1>4, <1>5, <2>1, <2>2 DEF IInv, TypeOK
<1>7. View(fb)' = View(c)
    BY <1>4 DEF View, ActiveFrames, SlotOf
<1>8. View(fb).slots[f] = SlotOf(fb, f).state
    BY <1>1 DEF View
<1>9. QED
    BY <1>1, <1>4, <1>5, <1>6, <1>7, <1>8

(* acquireSlot and releaseAcquiredSlot, in a row.                            *)
LEMMA PlayStep ==
    ASSUME IInv, isValid, fb.playbackQueue # <<>>,
           fb' = ReleaseAcquiredSlot(AcquireSlot(fb)),
           UNCHANGED <<isValid, deltaFrameSeqNo>>
    PROVE  /\ IInv'
           /\ HeadFrame(fb) \in ActiveFrames(fb) /\ HeadFrame(fb) \in Frames
           /\ SlotOf(fb, HeadFrame(fb)) = fb.slots[Head(fb.playbackQueue)]
           /\ HeadFrame(fb) \notin ActiveFrames(fb')
           /\ Advanced(fb, fb')
           /\ Skipped(fb) => fb'.playbackNo = fb.playbackNo
           /\ ~Skipped(fb) => fb'.playbackNo =
                                 IF HasMeta(fb.slots[Head(fb.playbackQueue)])
                                 THEN PlaybackNo(HeadFrame(fb)) ELSE -1
           /\ \A g \in ActiveFrames(fb) \ ActiveFrames(fb') : Dropped(fb, HeadFrame(fb), g)
           /\ View(fb)' \in Buffer!Plays(View(fb))
<1> DEFINE f == HeadFrame(fb)
           b == AcquireSlot(fb)
           c == ReleaseAcquiredSlot(b)
<1>1. /\ Sound(fb, {}) /\ AskedFor(fb)
      /\ \A g \in ActiveFrames(fb) \cap Deltas : g.no < deltaFrameSeqNo
      /\ isValid \in BOOLEAN /\ deltaFrameSeqNo \in 0..(MaxDelta + 1)
    BY DEF IInv, TypeOK
<1>2. /\ f \in Frames /\ f \in ActiveFrames(fb)
      /\ SlotOf(fb, f) = fb.slots[Head(fb.playbackQueue)]
    BY <1>1, HeadHasSlot
<1>3. fb' = c
    OBVIOUS
<1> HIDE DEF f, b, c
<1>4. /\ Sound(b, {}) /\ AskedFor(b) /\ View(b) = View(fb)
      /\ b.playbackQueue = fb.playbackQueue /\ HeadFrame(b) = f
      /\ ActiveFrames(b) = ActiveFrames(fb) /\ \A g : SlotOf(b, g) = SlotOf(fb, g)
      /\ b.keyFrameSeqNo = fb.keyFrameSeqNo
      /\ Skipped(fb) => b.playbackNo = fb.playbackNo
      /\ ~Skipped(fb) => b.playbackNo = IF HasMeta(fb.slots[Head(fb.playbackQueue)])
                                        THEN PlaybackNo(f) ELSE -1
    BY <1>1, <1>2, AcquireSound DEF b, f
<1>5. b.playbackQueue # <<>>
    BY <1>4
<1> DEFINE v == ViewAsked(View(b), f)
<1>6. /\ Sound(c, {}) /\ AskedFor(c) /\ Advanced(b, c)
      /\ f \notin ActiveFrames(c) /\ c.playbackNo = b.playbackNo
      /\ \A g \in ActiveFrames(b) \ ActiveFrames(c) : Dropped(b, f, g)
      /\ View(c) \in {Buffer!Free(v, {f}), Buffer!Free(v, {f} \cup Buffer!Old(v, f))}
    <2>1. HeadFrame(b) = f
        BY <1>4
    <2>2. QED
        BY <1>4, <1>5, <2>1, ReleaseSound DEF c
<1>7. IInv'
    <2>1. BufferTypeOK(c)
        BY <1>6 DEF Sound, Kept
    <2>2. \A g \in ActiveFrames(c) \cap Deltas : g \in ActiveFrames(fb)
        BY <1>4, <1>6 DEF Advanced, Keys, Deltas
    <2>3. QED
        BY <1>1, <1>3, <1>6, <2>1, <2>2 DEF IInv, TypeOK
<1>8. Advanced(fb, c)
    BY <1>4, <1>6 DEF Advanced
<1>9. \A g \in ActiveFrames(fb) \ ActiveFrames(c) : Dropped(fb, f, g)
    BY <1>4, <1>6 DEF Dropped
<1>10. View(c) \in Buffer!Plays(View(fb))
    <2>1. View(c) \in Buffer!Play(View(fb), f)
        BY <1>4, <1>6 DEF Buffer!Play, ViewAsked
    <2>2. PICK late \in SUBSET Buffer!Met(View(fb)) : f = Buffer!Head(View(fb), late)
        BY <1>1, HeadOfView DEF f
    <2>3. Buffer!Active(View(fb)) # {}
        BY <1>1, <1>2, ViewSlots
    <2>4. QED
        BY <2>1, <2>2, <2>3 DEF Buffer!Plays
<1>11. View(fb)' = View(c)
    BY <1>3 DEF View, ActiveFrames, SlotOf
<1>12. QED
    BY <1>2, <1>3, <1>4, <1>6, <1>7, <1>8, <1>9, <1>10, <1>11 DEF f

LEMMA ResetStep ==
    ASSUME IInv, Reset
    PROVE  /\ IInv'
           /\ isValid /\ ~isValid'
           /\ fb'.playbackNo = -1
           /\ View(fb)' = Buffer!ResetBuffer(View(fb))
<1>1. fb' = ResetBuffer(fb) /\ isValid /\ isValid' = FALSE /\ deltaFrameSeqNo' = 0
    BY DEF Reset
<1> DEFINE c == ResetBuffer(fb)
<1>2. Empty(c)
    BY ResetSound DEF IInv
<1> HIDE DEF c
<1>3. /\ Sound(c, {}) /\ AskedFor(c) /\ ActiveFrames(c) = {}
      /\ View(c) = Buffer!EmptyBuffer(-1)
    BY <1>2, EmptySound
<1>4. c.keyFrameSeqNo = -1 /\ c.playbackNo = -1
    BY <1>2 DEF Empty
<1>5. fb' = c
    BY <1>1 DEF c
<1>6. IInv'
    <2>1. BufferTypeOK(c)
        BY <1>3 DEF Sound, Kept
    <2>2. isValid' \in BOOLEAN
        BY <1>1
    <2>3. deltaFrameSeqNo' \in 0..(MaxDelta + 1)
        <3>1. 0 \in 0..(MaxDelta + 1)
            BY PacketsAssumption
        <3>2. QED
            BY <1>1, <3>1
    <2>4. QED
        BY <1>1, <1>3, <1>4, <1>5, <2>1, <2>2, <2>3 DEF IInv, TypeOK
<1>7. View(fb)' = View(c)
    BY <1>5 DEF View, ActiveFrames, SlotOf
<1>8. QED
    BY <1>1, <1>3, <1>4, <1>5, <1>6, <1>7 DEF Buffer!ResetBuffer

-----------------------------------------------------------------------------
(* What the playout does with a frame.                                       *)

Gops == [valid : BOOLEAN, current : -1..(MaxKey + 1)]
Histories == [keys : SUBSET (0..MaxKey), closed : SUBSET (0..MaxKey), last : Int]

(* KeysOnce and GopOpen, of any buffer, GOP and history.                     *)
Once(b, h) == \A k \in h.keys : k < b.keyFrameSeqNo /\ Key(k) \notin ActiveFrames(b)
Open(b, g, h) == skipIncomplete /\ g.valid =>
                            /\ g.current \notin h.closed
                            /\ g.current \in h.keys => h.last <= b.playbackNo

(* Only a key frame that had not been asked for gets a slot later.           *)
LEMMA OnceAdvanced ==
    ASSUME NEW b, NEW c, NEW h \in Histories, Once(b, h),
           b.keyFrameSeqNo \in Int, c.keyFrameSeqNo \in Int, Advanced(b, c)
    PROVE  Once(c, h)
<1> SUFFICES ASSUME NEW k \in h.keys
             PROVE  k < c.keyFrameSeqNo /\ Key(k) \notin ActiveFrames(c)
    BY DEF Once
<1>1. k \in Int /\ k < b.keyFrameSeqNo /\ Key(k) \notin ActiveFrames(b)
    BY DEF Once, Histories
<1>2. k < c.keyFrameSeqNo
    BY <1>1 DEF Advanced
<1>3. Key(k).no = k
    BY DEF Key
<1>4. Key(k) \in ActiveFrames(c) => k >= b.keyFrameSeqNo
    BY <1>1, <1>3 DEF Advanced
<1>5. QED
    BY <1>1, <1>2, <1>4

(* One frame: the GOP and the history after it, in any state of the two.     *)
LEMMA PlaybackStep ==
    ASSUME IInv, isValid, fb.playbackQueue # <<>>,
           fb' = ReleaseAcquiredSlot(AcquireSlot(fb)),
           UNCHANGED <<isValid, deltaFrameSeqNo>>,
           NEW g \in Gops, NEW h \in Histories, Once(fb, h), h.closed \subseteq h.keys,
           NEW complete \in Levels(fb.slots[Head(fb.playbackQueue)]),
           NEW g2, g2 = GopAfter(g, HeadFrame(fb), complete),
           NEW readable \in BOOLEAN,
           NEW h2, h2 = Shown(h, g, HeadFrame(fb), complete, HasData(fb, complete, readable))
    PROVE  /\ g2 \in Gops /\ h2 \in Histories
           /\ Once(fb', h2) /\ h2.closed \subseteq h2.keys
           /\ Open(fb, g, h) => Open(fb', g2, h2)
           /\ \A d \in Deltas : h2.last = PlaybackNo(d) /\ h2.last # h.last =>
                 /\ skipIncomplete => g.valid /\ Paired(d) = g.current
                 /\ fb.playbackNo < 0 \/ fb.playbackNo < h2.last
<1> DEFINE f == HeadFrame(fb)
           old == Skipped(fb)
           pushed == Pushed(g, f, complete, HasData(fb, complete, readable))
           slot == fb.slots[Head(fb.playbackQueue)]
<1>1. /\ IInv'
      /\ f \in ActiveFrames(fb) /\ f \in Frames /\ SlotOf(fb, f) = slot
      /\ f \notin ActiveFrames(fb')
      /\ Advanced(fb, fb')
      /\ old => fb'.playbackNo = fb.playbackNo
      /\ ~old => fb'.playbackNo = IF HasMeta(slot) THEN PlaybackNo(f) ELSE -1
    BY PlayStep
<1>2. /\ complete \in BOOLEAN
      /\ complete => HasMeta(slot)
    BY FecAssumption DEF Levels, HasMeta
<1>3. /\ f.no \in Nat /\ f.kind \in {"key", "delta"} /\ PlaybackNo(f) \in Nat
      /\ f.kind = "key" <=> f \in Keys
      /\ f.kind = "key" => f = Key(f.no) /\ f.no \in 0..(MaxKey + 1)
    <2>1. f.kind = "key" => f \in Keys
        BY <1>1, FrameNumbers
    <2>2. f \in Keys => f = Key(f.no) /\ f.no \in 0..(MaxKey + 1)
        BY DEF Keys, Key
    <2>3. QED
        BY <1>1, <2>1, <2>2, FrameNumbers
<1>4. HasMeta(slot) /\ f.kind = "key" => f.no \in 0..MaxKey
    <2>1. fb.activeSlots[f] \in SlotIds /\ fb.slots[fb.activeSlots[f]].frame = f
        BY <1>1, SoundMap DEF IInv
    <2>2. HasMeta(slot) => Produced(f)
        BY <1>1, <2>1 DEF IInv, AskedFor, SlotOf
    <2>3. QED
        BY <1>3, <2>2, PacketsAssumption DEF Produced
<1>5. old => HasMeta(slot) /\ fb.playbackNo >= 0 /\ PlaybackNo(f) <= fb.playbackNo
    BY DEF Skipped
<1>6. ~old /\ HasMeta(slot) => fb.playbackNo < 0 \/ fb.playbackNo < PlaybackNo(f)
    <2>1. fb.playbackNo \in Int
        BY DEF IInv, Sound, Kept, BufferTypeOK
    <2>2. QED
        BY <1>3, <2>1 DEF Skipped
<1>7. /\ pushed => HasMeta(slot) /\ ~old
      /\ pushed /\ skipIncomplete =>
             complete /\ (f.kind = "delta" => g.valid /\ Paired(f) = g.current)
    BY DEF Pushed, HasData
<1>8. h2 = [keys   |-> h.keys \cup {k \in {f.no} : pushed /\ f.kind = "key"},
            closed |-> IF complete THEN h.closed ELSE h.keys,
            last   |-> IF pushed THEN PlaybackNo(f) ELSE h.last]
    BY DEF Shown
<1>9. /\ ~skipIncomplete => g2 = g
      /\ skipIncomplete /\ f.kind = "key" =>
             g2 = [valid |-> complete, current |-> IF complete THEN f.no ELSE g.current]
      /\ skipIncomplete /\ f.kind = "delta" => g2 = [g EXCEPT !.valid = @ /\ complete]
    BY DEF GopAfter
<1>10. /\ g = [valid |-> g.valid, current |-> g.current]
       /\ g.valid \in BOOLEAN /\ g.current \in -1..(MaxKey + 1)
       /\ h.keys \subseteq 0..MaxKey /\ h.closed \subseteq 0..MaxKey /\ h.last \in Int
    BY DEF Gops, Histories
<1>11. fb.keyFrameSeqNo \in Int /\ fb'.keyFrameSeqNo \in Int /\ fb.playbackNo \in Int
    <2>1. BufferTypeOK(fb) /\ BufferTypeOK(fb)'
        BY <1>1 DEF IInv, TypeOK
    <2>2. QED
        BY <2>1 DEF BufferTypeOK
<1> HIDE DEF f, old, pushed, slot
<1>12. g2 \in Gops
    <2>0. CASE ~skipIncomplete
        BY <1>9, <2>0
    <2>1. CASE skipIncomplete /\ f.kind = "key"
        BY <1>2, <1>3, <1>9, <1>10, <2>1 DEF Gops
    <2>2. CASE skipIncomplete /\ f.kind = "delta"
        <3>1. g2 = [valid |-> g.valid /\ complete, current |-> g.current]
            BY <1>9, <1>10, <2>2
        <3>2. QED
            BY <1>2, <1>10, <3>1 DEF Gops
    <2>3. QED
        BY <1>3, <2>0, <2>1, <2>2, SkipAssumption
<1>13. h2 \in Histories
    BY <1>3, <1>4, <1>7, <1>8, <1>10 DEF Histories
<1>14. h2.closed \subseteq h2.keys
    BY <1>8
<1>15. Once(fb', h2)
    <2>1. Once(fb', h)
        BY <1>1, <1>11, OnceAdvanced
    <2>2. ASSUME f.kind = "key"
          PROVE  f.no < fb'.keyFrameSeqNo /\ Key(f.no) \notin ActiveFrames(fb')
        <3>1. f \in ActiveFrames(fb) \cap Keys
            BY <1>1, <1>3, <2>2
        <3>2. f.no < fb.keyFrameSeqNo
            BY <3>1 DEF IInv, AskedFor
        <3>3. QED
            BY <1>1, <1>3, <1>11, <2>2, <3>2 DEF Advanced
    <2>3. QED
        BY <1>8, <2>1, <2>2 DEF Once
<1>16. ASSUME Open(fb, g, h) PROVE Open(fb', g2, h2)
    <2> SUFFICES ASSUME skipIncomplete, g2.valid
                 PROVE  /\ g2.current \notin h2.closed
                        /\ g2.current \in h2.keys => h2.last <= fb'.playbackNo
        BY DEF Open
    <2>1. CASE f.kind = "key"
        <3>1. complete /\ g2.current = f.no
            BY <1>9, <2>1
        <3>2. f.no \notin h.keys
            BY <1>1, <1>3, <2>1 DEF Once
        <3>3. h2.closed = h.closed
            BY <1>8, <3>1
        <3>4. f.no \in h2.keys => pushed
            BY <1>8, <3>2
        <3>5. pushed => h2.last = PlaybackNo(f) /\ fb'.playbackNo = PlaybackNo(f)
            BY <1>1, <1>2, <1>7, <1>8
        <3>6. f.no \notin h2.closed
            BY <3>2, <3>3
        <3>7. f.no \in h2.keys => h2.last <= fb'.playbackNo
            BY <1>3, <3>4, <3>5
        <3>8. QED
            BY <3>1, <3>6, <3>7
    <2>2. CASE f.kind = "delta"
        <3>1. g.valid /\ complete /\ g2.current = g.current
            <4>1. g2 = [valid |-> g.valid /\ complete, current |-> g.current]
                BY <1>9, <1>10, <2>2
            <4>2. g2.current = g.current
                BY <4>1
            <4>3. ASSUME ~(g.valid /\ complete) PROVE FALSE
                <5>1. g2 = [valid |-> FALSE, current |-> g.current]
                    BY <4>1, <4>3
                <5>2. QED
                    BY <5>1
            <4>4. QED
                BY <4>2, <4>3
        <3>2. h2.keys = h.keys /\ h2.closed = h.closed
            BY <1>8, <2>2, <3>1
        <3>3. g.current \notin h.closed /\ (g.current \in h.keys => h.last <= fb.playbackNo)
            BY <1>16, <3>1 DEF Open
        <3>4. ASSUME h.last <= fb.playbackNo PROVE h2.last <= fb'.playbackNo
            <4>1. CASE old
                BY <1>1, <1>7, <1>8, <3>4, <4>1
            <4>2. CASE ~old
                <5>1. fb'.playbackNo = PlaybackNo(f)
                    BY <1>1, <1>2, <3>1, <4>2
                <5>2. fb.playbackNo < 0 \/ fb.playbackNo < PlaybackNo(f)
                    BY <1>2, <1>6, <3>1, <4>2
                <5>3. h2.last = PlaybackNo(f) \/ h2.last = h.last
                    BY <1>8
                <5>4. QED
                    BY <1>3, <1>10, <1>11, <3>4, <5>1, <5>2, <5>3
            <4>3. QED
                BY <4>1, <4>2
        <3>5. QED
            BY <3>1, <3>2, <3>3, <3>4
    <2>3. QED
        BY <1>3, <2>1, <2>2
<1>17. ASSUME NEW d \in Deltas, h2.last = PlaybackNo(d), h2.last # h.last
       PROVE  /\ skipIncomplete => g.valid /\ Paired(d) = g.current
              /\ fb.playbackNo < 0 \/ fb.playbackNo < h2.last
    <2>1. pushed /\ h2.last = PlaybackNo(f)
        BY <1>8, <1>17
    <2>2. f = d
        BY <1>1, <1>17, <2>1, PlaybackNumbers DEF Frames
    <2>3. f.kind = "delta"
        BY <2>2 DEF Deltas
    <2>4. QED
        BY <1>2, <1>6, <1>7, <2>1, <2>2, <2>3
<1>18. QED
    BY <1>12, <1>13, <1>14, <1>15, <1>16, <1>17

-----------------------------------------------------------------------------
(* The invariant.                                                            *)

(* A playout step with a frame at the head of the queue.                     *)
LEMMA FramePlayed ==
    ASSUME PlayoutIInv, BufferingEnds \/ PlayNext, fb.playbackQueue # <<>>
    PROVE  /\ isValid /\ UNCHANGED <<isValid, deltaFrameSeqNo>> /\ isRunning' = TRUE
           /\ fb' = ReleaseAcquiredSlot(AcquireSlot(fb))
           /\ \E complete \in Levels(fb.slots[Head(fb.playbackQueue)]), readable \in BOOLEAN :
                 /\ shown' = Shown(shown, gop, HeadFrame(fb), complete,
                                   HasData(fb, complete, readable))
                 /\ \/ gop' = GopAfter(gop, HeadFrame(fb), complete)
                    \/ gop' = [valid |-> FALSE, current |-> 0]
<1>1. /\ isValid /\ UNCHANGED <<isValid, deltaFrameSeqNo>> /\ isRunning' = TRUE
      /\ \E p \in Playbacks(fb, gop, shown) :
            /\ fb' = p.fb /\ shown' = p.shown
            /\ gop' = p.gop \/ gop' = [valid |-> FALSE, current |-> 0]
    <2>1. CASE BufferingEnds
        <3>1. shown = NothingShown
            BY <2>1 DEF PlayoutIInv, BufferingEnds
        <3>2. QED
            BY <2>1, <3>1 DEF BufferingEnds
    <2>2. CASE PlayNext
        <3>1. isRunning = TRUE
            BY <2>2 DEF PlayoutIInv, PlayoutTypeOK, PlayNext
        <3>2. QED
            BY <2>2, <3>1 DEF PlayNext
    <2>3. QED
        BY <2>1, <2>2
<1>2. PICK p \in Playbacks(fb, gop, shown) :
          /\ fb' = p.fb /\ shown' = p.shown
          /\ gop' = p.gop \/ gop' = [valid |-> FALSE, current |-> 0]
    BY <1>1
<1>3. PICK complete \in Levels(fb.slots[Head(fb.playbackQueue)]), readable \in BOOLEAN :
          p = [fb    |-> ReleaseAcquiredSlot(AcquireSlot(fb)),
               gop   |-> GopAfter(gop, HeadFrame(fb), complete),
               shown |-> Shown(shown, gop, HeadFrame(fb), complete,
                               HasData(fb, complete, readable))]
    BY <1>2 DEF Playbacks
<1>4. QED
    BY <1>1, <1>2, <1>3

(* A playout step with an empty queue: the GOP is over.                      *)
LEMMA NothingPlayed ==
    ASSUME PlayoutIInv, BufferingEnds \/ PlayNext, fb.playbackQueue = <<>>
    PROVE  /\ UNCHANGED <<fb, isValid, deltaFrameSeqNo, isRunning>> /\ isRunning
           /\ gop' = [gop EXCEPT !.valid = @ /\ ~skipIncomplete]
           /\ shown' = [shown EXCEPT !.closed = shown.keys]
<1>1. PlayNext
    BY DEF BufferingEnds
<1>2. PICK p \in Playbacks(fb, gop, shown) : fb' = p.fb /\ gop' = p.gop /\ shown' = p.shown
    BY <1>1 DEF PlayNext
<1>3. p = [fb |-> fb, gop |-> [gop EXCEPT !.valid = @ /\ ~skipIncomplete],
           shown |-> [shown EXCEPT !.closed = shown.keys]]
    BY <1>2 DEF Playbacks
<1>4. QED
    BY <1>1, <1>2, <1>3 DEF PlayNext

LEMMA PlayoutInitInv == PlayoutInit => PlayoutIInv
<1> SUFFICES ASSUME PlayoutInit PROVE PlayoutIInv
    OBVIOUS
<1>1. Init /\ isRunning = FALSE /\ shown = NothingShown
      /\ gop \in [valid : BOOLEAN, current : {-1, 0}]
    BY DEF PlayoutInit
<1>2. IInv
    BY <1>1, InitStep
<1>3. shown.keys = {} /\ shown.closed = {} /\ shown.last = -1
    BY <1>1 DEF NothingShown
<1>4. PlayoutTypeOK
    <2>1. {-1, 0} \subseteq -1..(MaxKey + 1)
        BY PacketsAssumption
    <2>2. gop \in [valid : BOOLEAN, current : -1..(MaxKey + 1)]
        BY <1>1, <2>1
    <2>3. shown \in [keys : SUBSET (0..MaxKey), closed : SUBSET (0..MaxKey), last : Int]
        BY <1>1 DEF NothingShown
    <2>4. isRunning \in BOOLEAN
        BY <1>1
    <2>5. TypeOK
        BY <1>2 DEF IInv
    <2>6. QED
        BY <2>2, <2>3, <2>4, <2>5 DEF PlayoutTypeOK
<1>5. KeysOnce /\ GopOpen
    BY <1>3 DEF KeysOnce, GopOpen
<1>6. QED
    BY <1>1, <1>2, <1>3, <1>4, <1>5 DEF PlayoutIInv

(* The pipeliner's handlers leave the playout alone.                         *)
LEMMA PipelineInv ==
    ASSUME PlayoutIInv, Pipeline
    PROVE  /\ PlayoutIInv'
           /\ isValid'
           /\ fb'.playbackNo = fb.playbackNo
           /\ ActiveFrames(fb) \subseteq ActiveFrames(fb')
           /\ UNCHANGED playoutVars
<1>1. UNCHANGED <<isRunning, gop, shown>>
    BY DEF Pipeline, playoutVars
<1> DEFINE PipelineKept == /\ IInv' /\ isValid' /\ fb'.playbackNo = fb.playbackNo
                           /\ ActiveFrames(fb) \subseteq ActiveFrames(fb')
                           /\ Once(fb', shown)
<1>2. PipelineKept
    <2>1. /\ IInv /\ shown \in Histories /\ Once(fb, shown)
          /\ ~isValid => shown = NothingShown
          /\ fb.keyFrameSeqNo \in Int
        BY DEF PlayoutIInv, PlayoutTypeOK, Histories, KeysOnce, Once, IInv, TypeOK, BufferTypeOK
    <2>2. IInv' => fb'.keyFrameSeqNo \in Int
        <3>1. IInv' => BufferTypeOK(fb)'
            BY DEF IInv, TypeOK
        <3>2. BufferTypeOK(fb)' => fb'.keyFrameSeqNo \in Int
            BY DEF BufferTypeOK
        <3>3. QED
            BY <3>1, <3>2
    <2>3. ASSUME NEW k \in 0..MaxKey, AskForInitialData(k)
          PROVE  PipelineKept
        <3>1. shown.keys = {}
            BY <2>1, <2>3 DEF AskForInitialData, NothingShown
        <3>2. Once(fb', shown)
            BY <3>1 DEF Once
        <3>3. QED
            BY <2>1, <2>3, <3>2, AskStep
    <2>4. ASSUME NEW d \in 0..MaxDelta, RequestNextDelta(d)
          PROVE  PipelineKept
        <3>1. /\ IInv' /\ isValid' /\ fb'.playbackNo = fb.playbackNo
              /\ Grown(fb, fb', {Delta(d)}) /\ fb'.keyFrameSeqNo = fb.keyFrameSeqNo
            BY <2>1, <2>4, DeltaStep
        <3>2. \A k : Key(k) # Delta(d)
            BY DEF Key, Delta
        <3>3. Once(fb', shown)
            BY <2>1, <3>1, <3>2 DEF Once, Grown
        <3>4. QED
            BY <3>1, <3>3 DEF Grown
    <2>5. ASSUME NEW f \in Frames, Receive(f)
          PROVE  PipelineKept
        <3>1. /\ IInv' /\ isValid' = isValid /\ fb'.playbackNo = fb.playbackNo
              /\ ActiveFrames(fb) \subseteq ActiveFrames(fb') /\ Advanced(fb, fb')
            BY <2>1, <2>5, DataStep
        <3>2. isValid
            BY <2>1, <2>5 DEF IInv, Receive
        <3>3. Once(fb', shown)
            BY <2>1, <2>2, <3>1, OnceAdvanced
        <3>4. QED
            BY <3>1, <3>2, <3>3
    <2>6. QED
        BY <2>3, <2>4, <2>5 DEF Pipeline
<1>3. KeysOnce'
    BY <1>1, <1>2 DEF Once, KeysOnce
<1>4. PlayoutTypeOK' /\ GopOpen'
    BY <1>1, <1>2 DEF PlayoutIInv, PlayoutTypeOK, GopOpen, IInv
<1>5. QED
    BY <1>1, <1>2, <1>3, <1>4 DEF PlayoutIInv, playoutVars

LEMMA FramePlayedInv ==
    ASSUME PlayoutIInv, BufferingEnds \/ PlayNext, fb.playbackQueue # <<>>
    PROVE  /\ PlayoutIInv'
           /\ \A d \in Deltas : shown'.last = PlaybackNo(d) /\ shown'.last # shown.last =>
                 /\ skipIncomplete => gop.valid /\ Paired(d) = gop.current
                 /\ fb.playbackNo < 0 \/ fb.playbackNo < shown'.last
<1>1. /\ IInv /\ gop \in Gops /\ shown \in Histories /\ Once(fb, shown)
      /\ shown.closed \subseteq shown.keys /\ Open(fb, gop, shown)
    BY DEF PlayoutIInv, PlayoutTypeOK, Gops, Histories, KeysOnce, Once, GopOpen, Open
<1>2. /\ isValid /\ UNCHANGED <<isValid, deltaFrameSeqNo>> /\ isRunning' = TRUE
      /\ fb' = ReleaseAcquiredSlot(AcquireSlot(fb))
    BY FramePlayed
<1>3. PICK complete \in Levels(fb.slots[Head(fb.playbackQueue)]), readable \in BOOLEAN :
          /\ shown' = Shown(shown, gop, HeadFrame(fb), complete,
                            HasData(fb, complete, readable))
          /\ \/ gop' = GopAfter(gop, HeadFrame(fb), complete)
             \/ gop' = [valid |-> FALSE, current |-> 0]
    BY FramePlayed
<1> DEFINE g2 == GopAfter(gop, HeadFrame(fb), complete)
<1>4. /\ g2 \in Gops /\ shown' \in Histories
      /\ Once(fb', shown') /\ shown'.closed \subseteq shown'.keys
      /\ Open(fb', g2, shown')
      /\ \A d \in Deltas : shown'.last = PlaybackNo(d) /\ shown'.last # shown.last =>
            /\ skipIncomplete => gop.valid /\ Paired(d) = gop.current
            /\ fb.playbackNo < 0 \/ fb.playbackNo < shown'.last
    BY <1>1, <1>2, <1>3, PlaybackStep
<1>5. IInv'
    BY <1>1, <1>2, PlayStep
<1> HIDE DEF g2
<1>6. gop' \in Gops /\ Open(fb', gop', shown')
    <2>1. CASE gop' = g2
        BY <1>4, <2>1
    <2>2. CASE gop' = [valid |-> FALSE, current |-> 0]
        <3>1. 0 \in -1..(MaxKey + 1)
            BY PacketsAssumption
        <3>2. gop' \in Gops
            BY <2>2, <3>1 DEF Gops
        <3>3. ~gop'.valid
            BY <2>2
        <3>4. QED
            BY <3>2, <3>3 DEF Open
    <2>3. QED
        BY <1>3, <2>1, <2>2 DEF g2
<1>7. PlayoutTypeOK' /\ KeysOnce' /\ GopOpen'
    BY <1>2, <1>4, <1>5, <1>6 DEF PlayoutTypeOK, Gops, Histories, KeysOnce, Once, GopOpen, Open, IInv
<1>8. PlayoutIInv'
    BY <1>2, <1>4, <1>5, <1>7 DEF PlayoutIInv
<1>9. QED
    BY <1>4, <1>8

LEMMA NothingPlayedInv ==
    ASSUME PlayoutIInv, BufferingEnds \/ PlayNext, fb.playbackQueue = <<>>
    PROVE  PlayoutIInv' /\ shown'.last = shown.last
<1>1. /\ UNCHANGED <<fb, isValid, deltaFrameSeqNo, isRunning>> /\ isRunning
      /\ gop' = [gop EXCEPT !.valid = @ /\ ~skipIncomplete]
      /\ shown' = [shown EXCEPT !.closed = shown.keys]
    BY NothingPlayed
<1>2. /\ IInv /\ gop \in Gops /\ shown \in Histories /\ Once(fb, shown)
      /\ TypeOK /\ isRunning \in BOOLEAN /\ (~isValid => ~isRunning)
    BY DEF PlayoutIInv, PlayoutTypeOK, Gops, Histories, KeysOnce, Once
<1>3. gop' \in Gops /\ (skipIncomplete => ~gop'.valid)
    <2>1. /\ gop.valid \in BOOLEAN /\ gop.current \in -1..(MaxKey + 1)
          /\ gop' = [valid |-> gop.valid /\ ~skipIncomplete, current |-> gop.current]
        BY <1>1, <1>2 DEF Gops
    <2>2. gop' \in Gops
        BY <2>1, SkipAssumption DEF Gops
    <2>3. CASE skipIncomplete
        <3>1. gop' = [valid |-> FALSE, current |-> gop.current]
            BY <2>1, <2>3
        <3>2. QED
            BY <2>2, <3>1
    <2>4. QED
        BY <2>2, <2>3
<1>4. /\ shown' = [keys |-> shown.keys, closed |-> shown.keys, last |-> shown.last]
      /\ shown' \in Histories
    BY <1>1, <1>2 DEF Histories
<1>5. IInv' /\ TypeOK'
    BY <1>1, <1>2 DEF IInv, TypeOK
<1>6. PlayoutTypeOK'
    BY <1>1, <1>2, <1>3, <1>4, <1>5 DEF PlayoutTypeOK, Gops, Histories
<1>7. KeysOnce'
    BY <1>1, <1>2, <1>4 DEF KeysOnce, Once
<1>8. GopOpen'
    BY <1>3 DEF GopOpen
<1>9. QED
    BY <1>1, <1>2, <1>4, <1>5, <1>6, <1>7, <1>8 DEF PlayoutIInv

LEMMA StopInv ==
    ASSUME PlayoutIInv, StopAndReset
    PROVE  PlayoutIInv' /\ ~isValid' /\ fb'.playbackNo = -1 /\ shown' = NothingShown
<1>1. Reset /\ isRunning' = FALSE /\ shown' = NothingShown /\ gop' = gop
    BY DEF StopAndReset
<1>2. IInv' /\ ~isValid' /\ fb'.playbackNo = -1
    BY <1>1, ResetStep DEF PlayoutIInv
<1>3. shown'.keys = {} /\ shown'.closed = {}
    BY <1>1 DEF NothingShown
<1>4. shown' \in Histories
    BY <1>1 DEF NothingShown, Histories
<1>5. PlayoutTypeOK'
    BY <1>1, <1>2, <1>4 DEF PlayoutIInv, PlayoutTypeOK, Histories, IInv
<1>6. KeysOnce' /\ GopOpen'
    BY <1>3 DEF KeysOnce, GopOpen
<1>7. QED
    BY <1>1, <1>2, <1>3, <1>5, <1>6 DEF PlayoutIInv

LEMMA StutterInv ==
    ASSUME PlayoutIInv, UNCHANGED allVars
    PROVE  PlayoutIInv'
<1>1. UNCHANGED <<fb, isValid, deltaFrameSeqNo>> /\ UNCHANGED <<isRunning, gop, shown>>
    BY DEF allVars, vars, playoutVars
<1>2. IInv' /\ TypeOK'
    BY <1>1 DEF PlayoutIInv, IInv, TypeOK
<1>3. PlayoutTypeOK' /\ KeysOnce' /\ GopOpen'
    BY <1>1, <1>2 DEF PlayoutIInv, PlayoutTypeOK, KeysOnce, GopOpen
<1>4. QED
    BY <1>1, <1>2, <1>3 DEF PlayoutIInv

(* The inductive invariant: the buffer is sound and the playout agrees with
   it.                                                                       *)
THEOREM PlayoutInvariant == PlayoutSpec => []PlayoutIInv
<1>1. PlayoutInit => PlayoutIInv
    BY PlayoutInitInv
<1>2. PlayoutIInv /\ [PlayoutNext]_allVars => PlayoutIInv'
    <2> SUFFICES ASSUME PlayoutIInv, [PlayoutNext]_allVars PROVE PlayoutIInv'
        OBVIOUS
    <2>1. CASE Pipeline
        BY <2>1, PipelineInv
    <2>2. CASE BufferingEnds \/ PlayNext
        BY <2>2, FramePlayedInv, NothingPlayedInv
    <2>3. CASE StopAndReset
        BY <2>3, StopInv
    <2>4. CASE UNCHANGED allVars
        BY <2>4, StutterInv
    <2>5. QED
        BY <2>1, <2>2, <2>3, <2>4 DEF PlayoutNext
<1>3. QED
    BY <1>1, <1>2, PTL DEF PlayoutSpec

(* The state of the buffer and of the playout has its type.                  *)
THEOREM PlayoutTypeCorrect == PlayoutSpec => []PlayoutTypeOK
<1>1. PlayoutIInv => PlayoutTypeOK
    BY DEF PlayoutIInv
<1>2. QED
    BY <1>1, PlayoutInvariant, PTL

(* reserveSlot, cleanBuffer, releaseAcquiredSlot and reset never lose a slot
   and never use one twice, and nKeyFrames_ counts the keys in the map.      *)
THEOREM EverySlotAccounted == PlayoutSpec => []SlotsAccounted
<1>1. PlayoutIInv => SlotsAccounted
    BY DEF PlayoutIInv, IInv, Sound, Kept, SlotsAccounted
<1>2. QED
    BY <1>1, PlayoutInvariant, PTL

(* Sorting the queue only now and then still has the frames that assemble
   played in their order.                                                    *)
THEOREM QueueStaysInOrder == PlayoutSpec => []QueueInOrder
<1>1. PlayoutIInv => QueueInOrder
    <2> SUFFICES ASSUME PlayoutIInv,
                        NEW n \in DOMAIN fb.playbackQueue, NEW m \in DOMAIN fb.playbackQueue,
                        n < m,
                        fb.slots[fb.playbackQueue[m]].state \in {"assembling", "ready"}
                 PROVE  LET x == fb.slots[fb.playbackQueue[n]]
                            y == fb.slots[fb.playbackQueue[m]]
                        IN  HasMeta(x) /\ (x.state # "met" => PlaybackNo(x.frame) < PlaybackNo(y.frame))
        BY DEF QueueInOrder
    <2> DEFINE i == fb.playbackQueue[n]
               j == fb.playbackQueue[m]
    <2>1. PICK late \in Late(fb) : Sorted(Unnoticed(fb, late))
        BY DEF PlayoutIInv, IInv, Sound, SortedButForLate
    <2>2. /\ i \in SlotIds /\ j \in SlotIds
          /\ fb.slots \in [SlotIds -> [frame : Frames \cup {Nobody}, state : Buffer!SlotStates]]
          /\ DOMAIN fb = BufferFields
        BY DEF PlayoutIInv, IInv, Sound, Kept, BufferTypeOK
    <2> DEFINE u == Unnoticed(fb, late)
    <2>3. /\ u.playbackQueue = fb.playbackQueue
          /\ u.slots[i] = IF i \in late THEN [fb.slots[i] EXCEPT !.state = "new"] ELSE fb.slots[i]
          /\ u.slots[j] = IF j \in late THEN [fb.slots[j] EXCEPT !.state = "new"] ELSE fb.slots[j]
        BY <2>2 DEF Unnoticed, BufferFields
    <2>4. Ascending(u, i, j)
        BY <2>1, <2>3 DEF Sorted
    <2>5. j \notin late
        BY <2>1 DEF Late
    <2>6. u.slots[j] = fb.slots[j] /\ HasMeta(u.slots[j])
        BY <2>3, <2>5 DEF HasMeta
    <2> HIDE DEF u, i, j
    <2>7. HasMeta(u.slots[i]) /\ PlaybackNo(u.slots[i].frame) < PlaybackNo(u.slots[j].frame)
        BY <2>4, <2>6 DEF Ascending
    <2>8. i \notin late
        <3>1. i \in late => u.slots[i].state = "new"
            BY <2>2, <2>3
        <3>2. QED
            BY <2>7, <3>1 DEF HasMeta
    <2>9. u.slots[i] = fb.slots[i]
        BY <2>3, <2>8
    <2>10. QED
        BY <2>6, <2>7, <2>9 DEF i, j
<1>2. QED
    BY <1>1, PlayoutInvariant, PTL

-----------------------------------------------------------------------------
(* What a step may never do.                                                 *)

(* A step that leaves the buffer alone leaves the abstract buffer alone.      *)
LEMMA SameBuffer ==
    ASSUME UNCHANGED fb
    PROVE  View(fb)' = View(fb)
BY DEF View, ActiveFrames, SlotOf

(* cleanBuffer drops what is older than the frame played, and key frames that
   nothing has come of.                                                      *)
THEOREM PlayoutCleanKeepsNewer == PlayoutSpec => CleanKeepsNewer
<1>1. PlayoutIInv /\ [PlayoutNext]_allVars =>
          [isValid' => \A f \in ActiveFrames(fb) \ ActiveFrames(fb') :
                           \/ f = HeadFrame(fb)
                           \/ f.kind = "key" /\ SlotOf(fb, f).state = "new"
                           \/ PlaybackNo(f) < PlaybackNo(HeadFrame(fb))]_vars
    <2> SUFFICES ASSUME PlayoutIInv, [PlayoutNext]_allVars, isValid',
                        NEW f \in ActiveFrames(fb) \ ActiveFrames(fb')
                 PROVE  Dropped(fb, HeadFrame(fb), f)
        BY DEF Dropped
    <2>1. CASE Pipeline
        BY <2>1, PipelineInv
    <2>2. CASE (BufferingEnds \/ PlayNext) /\ fb.playbackQueue # <<>>
        <3>1. /\ isValid /\ UNCHANGED <<isValid, deltaFrameSeqNo>> /\ IInv
              /\ fb' = ReleaseAcquiredSlot(AcquireSlot(fb))
            BY <2>2, FramePlayed DEF PlayoutIInv
        <3>2. \A g \in ActiveFrames(fb) \ ActiveFrames(fb') : Dropped(fb, HeadFrame(fb), g)
            BY <2>2, <3>1, PlayStep
        <3>3. QED
            BY <3>2
    <2>3. CASE (BufferingEnds \/ PlayNext) /\ fb.playbackQueue = <<>>
        <3>1. fb' = fb
            BY <2>3, NothingPlayed
        <3>2. QED
            BY <3>1
    <2>4. CASE StopAndReset
        BY <2>4, StopInv
    <2>5. CASE UNCHANGED allVars
        BY <2>5 DEF allVars, vars
    <2>6. QED
        BY <2>1, <2>2, <2>3, <2>4, <2>5 DEF PlayoutNext
<1>2. QED
    BY <1>1, PlayoutInvariant, PTL DEF PlayoutSpec, CleanKeepsNewer

(* A delta frame is decoded in the GOP that is open only, and not if it is old.
   The playout may have been stopped, or the queue empty, in between.        *)
LEMMA DeltaDecoded ==
    ASSUME PlayoutIInv, [PlayoutNext]_allVars, NEW d \in Deltas,
           shown'.last = PlaybackNo(d), shown'.last # shown.last
    PROVE  /\ skipIncomplete => gop.valid /\ Paired(d) = gop.current
           /\ fb.playbackNo < 0 \/ fb.playbackNo < shown'.last
<1>1. CASE Pipeline
    BY <1>1, PipelineInv DEF playoutVars
<1>2. CASE (BufferingEnds \/ PlayNext) /\ fb.playbackQueue # <<>>
    BY <1>2, FramePlayedInv
<1>3. CASE (BufferingEnds \/ PlayNext) /\ fb.playbackQueue = <<>>
    BY <1>3, NothingPlayedInv
<1>4. CASE StopAndReset
    <2>1. shown'.last = -1
        BY <1>4, StopInv DEF NothingShown
    <2>2. PlaybackNo(d) \in Nat
        BY FrameNumbers DEF Frames
    <2>3. QED
        BY <2>1, <2>2
<1>5. CASE UNCHANGED allVars
    BY <1>5 DEF allVars, playoutVars
<1>6. QED
    BY <1>1, <1>2, <1>3, <1>4, <1>5 DEF PlayoutNext

(* validGop_ stays down until the next key frame that is complete.           *)
THEOREM GopStaysBroken == PlayoutSpec => BrokenGopStaysBroken
<1>1. PlayoutIInv /\ [PlayoutNext]_allVars =>
          [skipIncomplete => \A d \in Deltas :
              shown'.last = PlaybackNo(d) /\ shown'.last # shown.last
                  => Paired(d) \notin shown.closed]_allVars
    <2> SUFFICES ASSUME PlayoutIInv, [PlayoutNext]_allVars, skipIncomplete, NEW d \in Deltas,
                        shown'.last = PlaybackNo(d), shown'.last # shown.last
                 PROVE  Paired(d) \notin shown.closed
        OBVIOUS
    <2>1. gop.valid /\ Paired(d) = gop.current
        BY DeltaDecoded
    <2>2. QED
        BY <2>1 DEF PlayoutIInv, GopOpen
<1>2. QED
    BY <1>1, PlayoutInvariant, PTL DEF PlayoutSpec, BrokenGopStaysBroken

(* While a GOP is open playbackNo_ is the last frame's that was decoded, or a
   later one.                                                                *)
THEOREM GopDeltasAscend == PlayoutSpec => DeltasAscend
<1>1. PlayoutIInv /\ [PlayoutNext]_allVars =>
          [skipIncomplete => \A d \in Deltas :
              shown'.last = PlaybackNo(d) /\ Paired(d) \in shown.keys
                  => shown.last <= shown'.last]_allVars
    <2> SUFFICES ASSUME PlayoutIInv, [PlayoutNext]_allVars, skipIncomplete, NEW d \in Deltas,
                        shown'.last = PlaybackNo(d), Paired(d) \in shown.keys
                 PROVE  shown.last <= shown'.last
        OBVIOUS
    <2>1. shown.last \in Int /\ fb.playbackNo \in Int
        BY DEF PlayoutIInv, PlayoutTypeOK, TypeOK, BufferTypeOK
    <2>2. PlaybackNo(d) \in Nat
        BY FrameNumbers DEF Frames
    <2>3. CASE shown'.last # shown.last
        <3>1. /\ gop.valid /\ Paired(d) = gop.current
              /\ fb.playbackNo < 0 \/ fb.playbackNo < shown'.last
            BY <2>3, DeltaDecoded
        <3>2. shown.last <= fb.playbackNo
            BY <3>1 DEF PlayoutIInv, GopOpen
        <3>3. QED
            BY <2>1, <2>2, <3>1, <3>2
    <2>4. CASE shown'.last = shown.last
        BY <2>1, <2>4
    <2>5. QED
        BY <2>3, <2>4
<1>2. QED
    BY <1>1, PlayoutInvariant, PTL DEF PlayoutSpec, DeltasAscend

-----------------------------------------------------------------------------
(* The pool, the map, the queue and their upkeep are what PlaybackBufferSpec
   promises: every handler is one of its operations, or none.                *)
THEOREM BufferImplemented == PlayoutSpec => ImplementsBuffer
<1>1. PlayoutInit => Buffer!Init
    <2> SUFFICES ASSUME PlayoutInit PROVE Buffer!Init
        OBVIOUS
    <2>1. View(fb) = Buffer!EmptyBuffer(-1)
        BY InitStep DEF PlayoutInit
    <2>2. Buffer!EmptyBuffer(-1).nextKey = -1
        BY DEF Buffer!EmptyBuffer
    <2>3. QED
        BY <2>1, <2>2 DEF Buffer!Init
<1>2. PlayoutIInv /\ [PlayoutNext]_allVars => [Buffer!Next]_(View(fb))
    <2> SUFFICES ASSUME PlayoutIInv, [PlayoutNext]_allVars
                 PROVE  Buffer!Next \/ View(fb)' = View(fb)
        OBVIOUS
    <2>1. IInv
        BY DEF PlayoutIInv
    <2>2. ASSUME NEW k \in 0..MaxKey, AskForInitialData(k)
          PROVE  Buffer!Next
        <3>1. View(fb)' = Buffer!RequestNextKey(View(fb), k + 1)
            BY <2>1, <2>2, AskStep
        <3>2. QED
            BY <3>1 DEF Buffer!Next, Buffer!KeyRequested
    <2>3. ASSUME NEW d \in 0..MaxDelta, RequestNextDelta(d)
          PROVE  Buffer!Next
        <3>1. View(fb)' = Buffer!PrefetchDeltas(View(fb), d, 1)
            BY <2>1, <2>3, DeltaStep
        <3>2. QED
            BY <3>1 DEF Buffer!Next, Buffer!DeltaRequested
    <2>4. ASSUME NEW f \in Frames, Receive(f)
          PROVE  Buffer!Next
        <3>1. /\ Produced(f) /\ View(fb).slots[f] \in Buffer!Unfinished
              /\ \E s \in Buffer!Appended(View(fb).slots[f]) :
                    View(fb)' = Buffer!NewData(View(fb), f, s)
            BY <2>1, <2>4, DataStep
        <3>2. f \in Buffer!Frames /\ Buffer!Produced(f)
            BY <3>1, SamePackets
        <3>3. QED
            BY <3>1, <3>2 DEF Buffer!Next, Buffer!DataReceived
    <2>5. CASE (BufferingEnds \/ PlayNext) /\ fb.playbackQueue # <<>>
        <3>1. /\ isValid /\ UNCHANGED <<isValid, deltaFrameSeqNo>>
              /\ fb' = ReleaseAcquiredSlot(AcquireSlot(fb))
            BY <2>5, FramePlayed
        <3>2. View(fb)' \in Buffer!Plays(View(fb))
            BY <2>1, <2>5, <3>1, PlayStep
        <3>3. QED
            BY <3>2 DEF Buffer!Next, Buffer!FramePlayed
    <2>6. CASE (BufferingEnds \/ PlayNext) /\ fb.playbackQueue = <<>>
        <3>1. UNCHANGED fb
            BY <2>6, NothingPlayed
        <3>2. QED
            BY <3>1, SameBuffer
    <2>7. CASE StopAndReset
        <3>1. View(fb)' = Buffer!ResetBuffer(View(fb))
            BY <2>1, <2>7, ResetStep DEF StopAndReset
        <3>2. QED
            BY <3>1 DEF Buffer!Next, Buffer!BufferReset
    <2>8. CASE UNCHANGED allVars
        <3>1. UNCHANGED fb
            BY <2>8 DEF allVars, vars
        <3>2. QED
            BY <3>1, SameBuffer
    <2>9. CASE Pipeline
        BY <2>2, <2>3, <2>4, <2>9 DEF Pipeline
    <2>10. QED
        BY <2>5, <2>6, <2>7, <2>8, <2>9 DEF PlayoutNext
<1>3. QED
    BY <1>1, <1>2, PlayoutInvariant, PTL DEF PlayoutSpec, ImplementsBuffer, Buffer!Spec
=============================================================================
