------------------------ MODULE OutputConsumerProofs ------------------------
(***************************************************************************)
(* What the "...Locked" helpers of OutputBuffer do to one buffer and to    *)
(* each of its consumers: the lemmas that OutputBufferProofs rests on.     *)
(***************************************************************************)
EXTENDS OutputBuffer, FiniteSetTheorems, WellFoundedInduction, TLAPS

-----------------------------------------------------------------------------
(* Numbers and intervals.                                                  *)

\* The configuration's bounds are numbers.
LEMMA Bounds ==
  /\ MaxSeq \in Nat /\ ChunkBytes \in Nat /\ ChunkBytes >= 1 /\ Capacity \in Nat
  /\ Capacity >= 1 /\ MaxBytes \in Nat /\ MaxBytes >= 1
BY BufferAssumption

\* A set of numbers that is not empty has a first one: the node that
\* nextPendingNodeLocked finds.
LEMMA Smallest ==
  ASSUME NEW T \in SUBSET Nat, T # {}
  PROVE  Min(T) \in T /\ \A y \in T : Min(T) <= y
<1>1. PICK x \in T : \A y \in T : ~(<<y, x>> \in OpToRel(<, Nat))
  BY NatLessThanWellFounded, WFMin
<1>2. \A y \in T : ~(y < x)
  BY <1>1 DEF OpToRel
<1>3. x \in T /\ \A y \in T : x <= y
  BY <1>2
<1> QED
  BY <1>3, Zenon DEF Min

\* A set whose largest member is known.
LEMMA LargestIs ==
  ASSUME NEW S \in SUBSET Int, NEW k \in S, \A x \in S : x <= k
  PROVE  Max(S) = k
<1> DEFINE M == CHOOSE x \in S : \A y \in S : x >= y
<1>1. k \in S /\ \A y \in S : k >= y
  OBVIOUS
<1>2. M \in S /\ \A y \in S : M >= y
  BY <1>1, Zenon
<1>3. M >= k /\ k >= M /\ M \in Int /\ k \in Int
  BY <1>1, <1>2
<1> QED
  BY <1>3 DEF Max

\* A set whose smallest member is known.
LEMMA SmallestIs ==
  ASSUME NEW S \in SUBSET Int, NEW k \in S, \A x \in S : k <= x
  PROVE  Min(S) = k
<1> DEFINE M == CHOOSE x \in S : \A y \in S : x <= y
<1>1. k \in S /\ \A y \in S : k <= y
  OBVIOUS
<1>2. M \in S /\ \A y \in S : M <= y
  BY <1>1, Zenon
<1>3. M >= k /\ k >= M /\ M \in Int /\ k \in Int
  BY <1>1, <1>2
<1> QED
  BY <1>3 DEF Min

\* The nodes that dropOldestLocked visits, and those of a batch, are the first
\* ones of an interval.
LEMMA Prefix ==
  ASSUME NEW a \in Nat, NEW b \in Nat, a <= b + 1, NEW D \in SUBSET (a..b),
         \A x \in a..b, y \in D : x <= y => x \in D
  PROVE  \E k \in Int : a - 1 <= k /\ k <= b /\ D = a..k
<1> DEFINE T == (a..(b + 1)) \ D
<1>1. T \in SUBSET Nat /\ b + 1 \in T
  OBVIOUS
<1>2. PICK m \in T : \A y \in T : m <= y
  BY <1>1, Smallest
<1>3. m \in Nat /\ a <= m /\ m <= b + 1 /\ m \notin D
  BY <1>1, <1>2
<1>4. \A x \in a..(m - 1) : x \in D
  BY <1>2, <1>3
<1>5. \A x \in D : x < m
  <2> SUFFICES ASSUME NEW x \in D, m <= x PROVE FALSE
    BY <1>3
  <2>1. m \in a..b
    BY <1>3
  <2> QED
    BY <1>3, <2>1
<1>6. D = a..(m - 1)
  <2>1. \A x \in D : x \in a..(m - 1)
    BY <1>3, <1>5
  <2> QED
    BY <1>4, <2>1
<1> QED
  BY <1>3, <1>6

\* nextPendingNodeLocked returns nil or a sequence number.
LEMMA FirstAfterType ==
  ASSUME NEW S \in SUBSET Seqs, NEW n \in Int
  PROVE  FirstAfter(S, n) \in 0..MaxSeq
<1> DEFINE T == {m \in S : m > n}
<1>1. T \in SUBSET Nat /\ T \subseteq 1..MaxSeq
  <2>1. S \subseteq 1..MaxSeq /\ T \subseteq S
    BY DEF Seqs
  <2>2. 1..MaxSeq \subseteq Nat
    BY Bounds
  <2> QED
    BY <2>1, <2>2
<1>2. CASE T = {}
  BY <1>2, Bounds DEF FirstAfter
<1>3. CASE T # {}
  <2>1. Min(T) \in T
    BY <1>1, <1>3, Smallest
  <2> QED
    BY <1>1, <1>3, <2>1, Bounds DEF FirstAfter
<1> QED
  BY <1>2, <1>3

\* The first node behind n, when what lies behind n is the interval a..b.
LEMMA FirstAfterIs ==
  ASSUME NEW S \in SUBSET Nat, NEW n \in Nat, NEW a \in Nat, NEW b \in Nat,
         {m \in S : m > n} = a..b
  PROVE  FirstAfter(S, n) = IF a <= b THEN a ELSE 0
<1>1. CASE a <= b
  <2>1. a \in a..b /\ a..b \in SUBSET Int /\ \A x \in a..b : a <= x
    BY <1>1
  <2>2. Min(a..b) = a
    BY <2>1, SmallestIs
  <2> QED
    BY <1>1, <2>1, <2>2 DEF FirstAfter
<1>2. CASE ~(a <= b)
  <2>1. a..b = {}
    BY <1>2
  <2> QED
    BY <1>2, <2>1 DEF FirstAfter
<1> QED
  BY <1>1, <1>2
-----------------------------------------------------------------------------
(* The invariant of one consumer, and of one buffer.                       *)

\* Bytes for a given assignment of sizes.
Measure(f, S) == Cardinality({p \in S \X (1..ChunkBytes) : p[2] <= f[p[1]]})

\* At most one batch or gap is in flight, and a cleared field is zero.
Tidy(cs) ==
  /\ (cs.inFlight = 0) <=> (cs.batch = {})
  /\ cs.batch = {} \/ cs.gapFly = {}
  /\ cs.inFlight = 0 => cs.inFlightLast = 0
  /\ cs.gap = {} => cs.gapSeq = 0
  /\ cs.gapFly = {} => cs.gapFlySeq = 0

\* What is settled, in flight and in the pending gap are adjacent intervals.
Spans(cs) ==
  /\ cs.completedSeq <= Front(cs) /\ Front(cs) <= Back(cs)
  /\ cs.batch \cup cs.gapFly = (cs.completedSeq + 1)..Front(cs)
  /\ cs.inFlight # 0 => cs.inFlight = cs.completedSeq + 1
  /\ cs.gap = (Front(cs) + 1)..Back(cs)
  /\ cs.ingested \cup cs.acked = 1..cs.completedSeq

\* The counters say what has been dropped, and how often.
OpenGaps(cs) == (IF cs.gap = {} THEN 0 ELSE 1) + (IF cs.gapFly = {} THEN 0 ELSE 1)
Counts(f, cs) ==
  /\ cs.dropped = Measure(f, cs.acked \cup cs.gapFly \cup cs.gap)
  /\ cs.gapCount = cs.epoch + OpenGaps(cs)

\* The pending bits are those of the batch and of everything behind the gap,
\* and the cursor is at the first node behind the gap.
Awaits(n, cs) ==
  /\ Back(cs) <= n
  /\ cs.pend = cs.batch \cup (Back(cs) + 1)..n
  /\ cs.inFlight = 0 => cs.next = IF Back(cs) = n THEN 0 ELSE Back(cs) + 1

\* A consumer of a buffer that has got n chunks with the sizes f.
Serving(n, f, cs) == Tidy(cs) /\ Spans(cs) /\ Counts(f, cs) /\ Awaits(n, cs)

\* A consumer that is not enabled or has failed holds nothing.
Dead(cs) ==
  /\ ~cs.active /\ cs.next = 0 /\ cs.pend = {} /\ cs.batch = {} /\ cs.inFlight = 0
  /\ cs.gap = {} /\ cs.gapFly = {}

ConsumerOK(B, c) ==
  IF c \in Enabled /\ ~B.cons[c].unavailable
  THEN /\ Serving(B.nextSeq, B.size, B.cons[c])
       /\ (B.cons[c].active <=> ~B.closed)
       /\ B.closed => Back(B.cons[c]) = B.nextSeq
  ELSE Dead(B.cons[c])

\* The list holds the nodes somebody waits for, and resident is their length.
Linked(B) ==
  /\ B.nodes = UNION {B.cons[c].pend : c \in Consumers}
  /\ B.resident = Measure(B.size, B.nodes)

BufferOK(B) == B \in BufferStates /\ Linked(B) /\ \A c \in Consumers : ConsumerOK(B, c)
-----------------------------------------------------------------------------
(* Bytes.                                                                  *)

\* The bytes of one chunk are its length.
LEMMA MeasureSingle ==
  ASSUME NEW f \in [Seqs -> 0..ChunkBytes], NEW s \in Seqs
  PROVE  Measure(f, {s}) = f[s]
<1> DEFINE B == {p \in {s} \X (1..ChunkBytes) : p[2] <= f[p[1]]}
           h == [k \in 1..f[s] |-> <<s, k>>]
<1>1. f[s] \in 0..ChunkBytes /\ ChunkBytes \in Nat
  BY Bounds
<1>2. h \in [1..f[s] -> B]
  BY <1>1
<1>3. \A x, y \in 1..f[s] : h[x] = h[y] => x = y
  OBVIOUS
<1>4. \A p \in B : \E k \in 1..f[s] : h[k] = p
  <2>1. TAKE p \in B
  <2>2. p[1] = s /\ p[2] \in 1..f[s] /\ p = <<s, p[2]>>
    BY <1>1, <2>1
  <2> WITNESS p[2] \in 1..f[s]
  <2> QED
    BY <2>2
<1>5. ExistsBijection(1..f[s], B)
  BY <1>2, <1>3, <1>4, Zenon DEF ExistsBijection, Bijection, Injection, Surjection, IsInjective
<1>6. IsFiniteSet(1..f[s]) /\ Cardinality(1..f[s]) = f[s]
  <2>1. ASSUME NEW n \in Nat PROVE IsFiniteSet(1..n) /\ Cardinality(1..n) = n
    BY FS_Interval
  <2> QED
    BY <1>1, <2>1
<1> QED
  BY <1>5, <1>6, FS_Bijection DEF Measure

\* The bytes of disjoint sets of chunks add up.
LEMMA MeasureUnion ==
  ASSUME NEW f, NEW S \in SUBSET Seqs, NEW T \in SUBSET Seqs, S \cap T = {}
  PROVE  /\ Measure(f, S \cup T) = Measure(f, S) + Measure(f, T)
         /\ Measure(f, S) \in Nat /\ Measure(f, T) \in Nat
<1> DEFINE P == Seqs \X (1..ChunkBytes)
           B(X) == {p \in X \X (1..ChunkBytes) : p[2] <= f[p[1]]}
<1>1. IsFiniteSet(Seqs) /\ IsFiniteSet(1..ChunkBytes)
  BY Bounds, FS_Interval DEF Seqs
<1>2. IsFiniteSet(P)
  BY <1>1, FS_Product
<1>3. B(S) \in SUBSET P /\ B(T) \in SUBSET P
  OBVIOUS
<1>4. IsFiniteSet(B(S)) /\ IsFiniteSet(B(T))
  BY <1>2, <1>3, FS_Subset
<1>5. Cardinality(B(S)) \in Nat /\ Cardinality(B(T)) \in Nat
  BY <1>4, FS_CardinalityType
<1>6. B(S \cup T) = B(S) \cup B(T) /\ B(S) \cap B(T) = {}
  OBVIOUS
<1>7. Cardinality(B(S) \cup B(T)) = Cardinality(B(S)) + Cardinality(B(T)) - Cardinality(B(S) \cap B(T))
  BY <1>4, FS_Union
<1>8. Cardinality(B(S) \cap B(T)) = 0
  BY <1>6, FS_EmptySet
<1>9. Measure(f, S) = Cardinality(B(S)) /\ Measure(f, T) = Cardinality(B(T))
      /\ Measure(f, S \cup T) = Cardinality(B(S) \cup B(T))
  BY <1>6 DEF Measure
<1> HIDE DEF B
<1> QED
  BY <1>5, <1>7, <1>8, <1>9

\* No chunks have no bytes.
LEMMA MeasureEmpty ==
  ASSUME NEW f
  PROVE  Measure(f, {}) = 0
<1>1. {p \in {} \X (1..ChunkBytes) : p[2] <= f[p[1]]} = {}
  OBVIOUS
<1> QED
  BY <1>1, FS_EmptySet DEF Measure

\* The bytes of a set depend on the sizes of its own chunks only.
LEMMA MeasureSame ==
  ASSUME NEW f, NEW g, NEW S, \A s \in S : f[s] = g[s]
  PROVE  Measure(f, S) = Measure(g, S)
<1>1. {p \in S \X (1..ChunkBytes) : p[2] <= f[p[1]]} = {p \in S \X (1..ChunkBytes) : p[2] <= g[p[1]]}
  OBVIOUS
<1> QED
  BY <1>1 DEF Measure

\* What one set of chunks holds beyond another: reclaimLocked subtracts it.
LEMMA MeasureLess ==
  ASSUME NEW f, NEW S \in SUBSET Seqs, NEW T \in SUBSET Seqs, T \subseteq S
  PROVE  /\ Measure(f, S \ T) = Measure(f, S) - Measure(f, T)
         /\ Measure(f, S \ T) \in Nat /\ Measure(f, S) \in Nat /\ Measure(f, T) \in Nat
<1>1. S \ T \in SUBSET Seqs /\ (S \ T) \cap T = {} /\ (S \ T) \cup T = S
  OBVIOUS
<1>2. /\ Measure(f, (S \ T) \cup T) = Measure(f, S \ T) + Measure(f, T)
      /\ Measure(f, S \ T) \in Nat /\ Measure(f, T) \in Nat
  BY <1>1, MeasureUnion
<1>3. Measure(f, S) = Measure(f, S \ T) + Measure(f, T)
  BY <1>1, <1>2
<1> QED
  BY <1>2, <1>3
-----------------------------------------------------------------------------
(* One consumer.                                                           *)

\* The fields of a consumer that a drop leaves alone.
Kept(cs, ds) ==
  /\ ds.active = cs.active /\ ds.started = cs.started /\ ds.done = cs.done
  /\ ds.inFlight = cs.inFlight /\ ds.inFlightLast = cs.inFlightLast /\ ds.batch = cs.batch
  /\ ds.gapFly = cs.gapFly /\ ds.gapFlySeq = cs.gapFlySeq
  /\ ds.completedSeq = cs.completedSeq /\ ds.epoch = cs.epoch
  /\ ds.unavailable = cs.unavailable /\ ds.failed = cs.failed
  /\ ds.ingested = cs.ingested /\ ds.acked = cs.acked

\* The ends of the intervals are sequence numbers.
LEMMA Ends ==
  ASSUME NEW cs \in ConsumerStates
  PROVE  Front(cs) \in 0..MaxSeq /\ Back(cs) \in 0..MaxSeq /\ Front(cs) \in Nat /\ Back(cs) \in Nat
         /\ cs.completedSeq \in Nat /\ cs.next \in Nat /\ cs.inFlight \in Nat
         /\ cs.inFlightLast \in Nat /\ cs.gapSeq \in Nat /\ cs.gapFlySeq \in Nat
<1>1. cs.gapFlySeq \in 0..MaxSeq /\ cs.inFlightLast \in 0..MaxSeq /\ cs.completedSeq \in 0..MaxSeq
      /\ cs.gapSeq \in 0..MaxSeq /\ cs.next \in 0..MaxSeq /\ cs.inFlight \in 0..MaxSeq
  BY DEF ConsumerStates
<1>2. Front(cs) \in 0..MaxSeq /\ Back(cs) \in 0..MaxSeq
  BY <1>1 DEF Front, Back
<1> QED
  BY <1>1, <1>2, Bounds

\* What the batch in flight and the queue consist of.
LEMMA Work ==
  ASSUME NEW n \in 0..MaxSeq, NEW cs \in ConsumerStates, Tidy(cs), Spans(cs), Awaits(n, cs)
  PROVE  /\ cs.batch = {m \in cs.pend : InFlight(cs, m)}
         /\ Queued(cs) = (Back(cs) + 1)..n
         /\ cs.inFlight # 0 => /\ cs.batch = cs.inFlight..cs.inFlightLast
                               /\ cs.inFlight <= cs.inFlightLast
                               /\ Front(cs) = cs.inFlightLast /\ cs.gapFly = {}
<1> DEFINE F == Front(cs)
           K == Back(cs)
<1>1. F \in Nat /\ K \in Nat /\ n \in Nat /\ cs.inFlight \in Nat /\ cs.inFlightLast \in Nat
      /\ cs.completedSeq \in Nat
  BY Ends, Bounds
<1>2. F <= K /\ K <= n /\ cs.completedSeq <= F /\ cs.pend = cs.batch \cup (K + 1)..n
  BY DEF Spans, Awaits
<1>3. ASSUME cs.inFlight # 0
      PROVE  /\ cs.batch = cs.inFlight..cs.inFlightLast /\ cs.inFlight <= cs.inFlightLast
             /\ F = cs.inFlightLast /\ cs.gapFly = {}
  <2>1. cs.gapFly = {} /\ cs.batch # {}
    BY <1>3 DEF Tidy
  <2>2. F = cs.inFlightLast
    BY <1>3, <2>1 DEF Front
  <2>3. cs.batch = (cs.completedSeq + 1)..F /\ cs.inFlight = cs.completedSeq + 1
    BY <1>3, <2>1 DEF Spans
  <2> QED
    BY <1>1, <2>1, <2>2, <2>3
<1> HIDE DEF F, K
<1>4. CASE cs.inFlight = 0
  <2>1. cs.batch = {} /\ \A m : ~InFlight(cs, m)
    BY <1>4 DEF Tidy, InFlight
  <2> QED
    BY <1>2, <1>4, <2>1 DEF Queued, K
<1>5. CASE cs.inFlight # 0
  <2>1. \A m \in cs.batch : InFlight(cs, m)
    BY <1>1, <1>3, <1>5 DEF InFlight
  <2>2. \A m \in (K + 1)..n : ~InFlight(cs, m)
    BY <1>1, <1>2, <1>3, <1>5 DEF InFlight
  <2> QED
    BY <1>2, <1>3, <1>5, <2>1, <2>2 DEF Queued, K, F
<1> QED
  BY <1>4, <1>5

\* The larger of a pair of numbers, and the last of an interval and a number
\* below it: addGapLocked and the completions move their mark forward.
LEMMA LastOf ==
  ASSUME NEW a \in Nat, NEW k \in Nat, NEW m \in Nat, a <= k, m <= k
  PROVE  Max((a..k) \cup {m}) = k
<1>1. (a..k) \cup {m} \in SUBSET Int /\ k \in (a..k) \cup {m} /\ \A x \in (a..k) \cup {m} : x <= k
  OBVIOUS
<1> QED
  BY <1>1, LargestIs

\* What dropping D does, field by field.
DropEffect(B, cs, ds, D) ==
  /\ ds \in ConsumerStates /\ Kept(cs, ds) /\ ds.next = cs.next
  /\ ds.failurePending = cs.failurePending
  /\ ds.pend = cs.pend \ D
  /\ ds.gap = cs.gap \cup D
  /\ ds.gapSeq = Max(D \cup {cs.gapSeq})
  /\ ds.gapCount = IF cs.gap = {} THEN cs.gapCount + 1 ELSE cs.gapCount
  /\ ds.dropped = cs.dropped + Bytes(B, D)

\* addGapLocked, called for each chunk of a set that is not empty.
LEMMA DropFields ==
  ASSUME NEW B, NEW cs \in ConsumerStates, NEW D \in SUBSET Seqs, D # {},
         Max(D \cup {cs.gapSeq}) \in 0..MaxSeq, Bytes(B, D) \in Nat,
         NEW ds, ds = DropQueued(B, cs, D)
  PROVE  DropEffect(B, cs, ds, D)
<1> DEFINE top == Max(D \cup {cs.gapSeq})
           by == cs.dropped + Bytes(B, D)
           count == IF cs.gap = {} THEN cs.gapCount + 1 ELSE cs.gapCount
           rest == cs.pend \ D
           all == cs.gap \cup D
<1>1. ds = [cs EXCEPT !.pend = rest, !.gapCount = count, !.gap = all, !.gapSeq = top, !.dropped = by]
  BY DEF DropQueued
<1>2. top \in 0..MaxSeq /\ by \in Nat /\ count \in Nat /\ rest \in SUBSET Seqs /\ all \in SUBSET Seqs
  BY DEF ConsumerStates
<1> HIDE DEF top, by, count, rest, all
<1>3. ds \in ConsumerStates
  BY <1>1, <1>2 DEF ConsumerStates
<1>4. Kept(cs, ds) /\ ds.next = cs.next /\ ds.failurePending = cs.failurePending
  BY <1>1 DEF ConsumerStates, Kept
<1>5. ds.pend = rest /\ ds.gap = all /\ ds.gapSeq = top /\ ds.gapCount = count /\ ds.dropped = by
  BY <1>1 DEF ConsumerStates
<1> QED
  BY <1>3, <1>4, <1>5 DEF DropEffect, top, by, count, rest, all

\* ds is cs with everything it has queued up to k in its gap.
DroppedTo(f, cs, ds, k) ==
  /\ ds \in ConsumerStates /\ Kept(cs, ds) /\ ds.next = cs.next
  /\ ds.failurePending = cs.failurePending
  /\ ds.pend = cs.pend \ ((Back(cs) + 1)..k)
  /\ ds.gap = cs.gap \cup (Back(cs) + 1)..k
  /\ Tidy(ds) /\ Spans(ds) /\ Counts(f, ds)
  /\ Front(ds) = Front(cs) /\ Back(ds) = k

\* Dropping the first queued chunks extends the gap and keeps the intervals.
LEMMA DropTo ==
  ASSUME NEW B, B.size \in [Seqs -> 0..ChunkBytes], NEW cs \in ConsumerStates,
         Tidy(cs), Spans(cs), Counts(B.size, cs),
         NEW k \in Nat, Back(cs) <= k, k <= MaxSeq
  PROVE  DroppedTo(B.size, cs, DropQueued(B, cs, (Back(cs) + 1)..k), k)
<1> DEFINE K == Back(cs)
           F == Front(cs)
           D == (K + 1)..k
           ds == DropQueued(B, cs, D)
<1>1. K \in Nat /\ F \in Nat /\ F <= K /\ K <= k /\ cs.completedSeq \in Nat /\ cs.completedSeq <= F
      /\ cs.gapSeq \in Nat
  BY Ends DEF Spans
<1>2. CASE k = K
  <2>1. D = {}
    BY <1>1, <1>2
  <2>2. ds = cs
    BY <2>1 DEF DropQueued
  <2> QED
    BY <1>2, <2>1, <2>2 DEF DroppedTo, Kept
<1>3. CASE k # K
  <2> HIDE DEF K, F
  <2>1. K < k /\ D # {} /\ k \in D /\ D \in SUBSET Seqs
    BY <1>1, <1>3, Bounds DEF Seqs
  <2>2. cs.gapSeq <= K
    <3>1. CASE cs.gap = {}
      BY <1>1, <3>1 DEF Tidy
    <3>2. CASE cs.gap # {}
      BY <1>1, <3>2 DEF Back, K
    <3> QED
      BY <3>1, <3>2
  <2>3. Max(D \cup {cs.gapSeq}) = k
    <3>1. K + 1 \in Nat /\ K + 1 <= k /\ cs.gapSeq <= k
      BY <1>1, <2>1, <2>2
    <3> QED
      BY <1>1, <3>1, LastOf
  <2>4. Bytes(B, D) = Measure(B.size, D)
    BY DEF Bytes, Measure
  <2> HIDE DEF D
  <2>5. cs.acked \in SUBSET Seqs /\ cs.gapFly \in SUBSET Seqs /\ cs.gap \in SUBSET Seqs
        /\ cs.gapCount \in Nat /\ cs.epoch \in Nat /\ cs.dropped \in Nat
    BY DEF ConsumerStates
  <2> DEFINE S == cs.acked \cup cs.gapFly \cup cs.gap
  <2>6. cs.ingested \cup cs.acked = 1..cs.completedSeq /\ cs.batch \cup cs.gapFly = (cs.completedSeq + 1)..F
        /\ cs.gap = (F + 1)..K
    BY DEF Spans, F, K
  <2>7. S \cap D = {}
    BY <1>1, <2>6 DEF D
  <2>8. /\ Measure(B.size, S \cup D) = Measure(B.size, S) + Measure(B.size, D)
        /\ Measure(B.size, D) \in Nat
    BY <2>1, <2>5, <2>7, MeasureUnion
  <2>9. /\ ds \in ConsumerStates /\ Kept(cs, ds) /\ ds.next = cs.next
        /\ ds.failurePending = cs.failurePending
        /\ ds.pend = cs.pend \ D /\ ds.gap = cs.gap \cup D /\ ds.gapSeq = k
        /\ ds.gapCount = IF cs.gap = {} THEN cs.gapCount + 1 ELSE cs.gapCount
        /\ ds.dropped = cs.dropped + Measure(B.size, D)
    <3>1. Max(D \cup {cs.gapSeq}) \in 0..MaxSeq /\ Bytes(B, D) \in Nat
      BY <2>3, <2>4, <2>8, Bounds
    <3>2. DropEffect(B, cs, ds, D)
      BY <2>1, <3>1, DropFields
    <3> HIDE DEF ds
    <3> QED
      BY <2>3, <2>4, <3>2 DEF DropEffect
  <2> HIDE DEF ds
  <2>10. ds.gap # {}
    BY <2>1, <2>9
  <2>11. Front(ds) = F /\ Back(ds) = k
    BY <2>9, <2>10 DEF Front, Back, Kept, F
  <2>12. Tidy(ds)
    BY <2>9, <2>10 DEF Tidy, Kept
  <2>13. Spans(ds)
    <3>1. cs.gap \cup D = (F + 1)..k
      BY <1>1, <2>1, <2>6 DEF D
    <3>2. /\ ds.completedSeq <= F /\ F <= k /\ ds.batch \cup ds.gapFly = (ds.completedSeq + 1)..F
          /\ ds.inFlight # 0 => ds.inFlight = ds.completedSeq + 1
      BY <1>1, <2>1, <2>6, <2>9 DEF Kept, Spans
    <3>3. ds.ingested \cup ds.acked = 1..ds.completedSeq
      BY <2>6, <2>9 DEF Kept
    <3> QED
      BY <2>9, <2>11, <3>1, <3>2, <3>3 DEF Spans
  <2>14. Counts(B.size, ds)
    <3>1. ds.acked \cup ds.gapFly \cup ds.gap = S \cup D
      BY <2>9 DEF Kept
    <3>2. cs.dropped = Measure(B.size, S) /\ cs.gapCount = cs.epoch + OpenGaps(cs)
      BY DEF Counts
    <3>3. ds.dropped = Measure(B.size, S \cup D)
      BY <2>8, <2>9, <3>2
    <3>4. ds.gapFly = cs.gapFly /\ ds.epoch = cs.epoch
      BY <2>9 DEF Kept
    <3>5. ds.gapCount = ds.epoch + OpenGaps(ds)
      <4>1. CASE cs.gap = {}
        BY <2>5, <2>9, <2>10, <3>2, <3>4, <4>1 DEF OpenGaps
      <4>2. CASE cs.gap # {}
        BY <2>5, <2>9, <2>10, <3>2, <3>4, <4>2 DEF OpenGaps
      <4> QED
        BY <4>1, <4>2
    <3> QED
      BY <3>1, <3>3, <3>5 DEF Counts
  <2> QED
    BY <2>9, <2>11, <2>12, <2>13, <2>14 DEF DroppedTo, ds, D, K, F
<1> QED
  BY <1>2, <1>3

\* The counters of a consumer do not depend on the size of a chunk it has not
\* been given.
LEMMA CountsSame ==
  ASSUME NEW f, NEW g, NEW n \in Nat, NEW cs \in ConsumerStates, Spans(cs), Counts(f, cs), Back(cs) <= n,
         \A s \in 1..n : f[s] = g[s]
  PROVE  Counts(g, cs)
<1>1. Front(cs) \in Nat /\ Back(cs) \in Nat /\ cs.completedSeq \in Nat /\ cs.completedSeq <= Front(cs)
      /\ Front(cs) <= Back(cs)
  BY Ends DEF Spans
<1>2. cs.acked \subseteq 1..cs.completedSeq /\ cs.gapFly \subseteq (cs.completedSeq + 1)..Front(cs)
      /\ cs.gap = (Front(cs) + 1)..Back(cs)
  BY DEF Spans
<1> DEFINE S == cs.acked \cup cs.gapFly \cup cs.gap
<1>3. \A s \in S : s \in 1..n
  BY <1>1, <1>2
<1>4. \A s \in S : f[s] = g[s]
  BY <1>3
<1>5. Measure(f, S) = Measure(g, S)
  BY <1>4, MeasureSame
<1> QED
  BY <1>5 DEF Counts

\* es is cs after a drop up to k, in a buffer that has got n chunks.
Drops(n, f, cs, es, k) ==
  /\ es \in ConsumerStates /\ Kept(cs, es) /\ es.failurePending = cs.failurePending
  /\ Serving(n, f, es) /\ Back(es) = k
  /\ es.gap = cs.gap \cup (Back(cs) + 1)..k
  /\ es.pend = cs.pend \ ((Back(cs) + 1)..k)

\* After a drop the cursor is moved behind what was dropped.
LEMMA Cursor ==
  ASSUME NEW n \in 0..MaxSeq, NEW f, NEW cs \in ConsumerStates, NEW k \in Nat, k <= n,
         NEW ds, DroppedTo(f, cs, ds, k), ds.pend = cs.batch \cup (k + 1)..n,
         NEW x \in 0..MaxSeq, cs.inFlight = 0 => x = IF k = n THEN 0 ELSE k + 1,
         NEW es, es = [ds EXCEPT !.next = x]
  PROVE  Drops(n, f, cs, es, k)
<1>1. ds \in ConsumerStates /\ Kept(cs, ds) /\ Tidy(ds) /\ Spans(ds) /\ Counts(f, ds) /\ Back(ds) = k
      /\ ds.failurePending = cs.failurePending
      /\ ds.gap = cs.gap \cup (Back(cs) + 1)..k
      /\ ds.pend = cs.pend \ ((Back(cs) + 1)..k)
  BY DEF DroppedTo
<1>2. es \in ConsumerStates
  BY <1>1 DEF ConsumerStates
<1>3. Kept(ds, es) /\ es.next = x /\ es.pend = ds.pend /\ es.gap = ds.gap /\ es.gapSeq = ds.gapSeq
      /\ es.gapCount = ds.gapCount /\ es.dropped = ds.dropped /\ es.failurePending = ds.failurePending
  BY <1>1 DEF ConsumerStates, Kept
<1>4. Front(es) = Front(ds) /\ Back(es) = Back(ds)
  BY <1>3 DEF Front, Back, Kept
<1>5. Tidy(es)
  BY <1>1, <1>3 DEF Tidy, Kept
<1>6. Spans(es)
  BY <1>1, <1>3, <1>4 DEF Spans, Kept
<1>7. Counts(f, es)
  BY <1>1, <1>3 DEF Counts, Kept, OpenGaps
<1>8. Kept(cs, es)
  BY <1>1, <1>3 DEF Kept
<1>9. Awaits(n, es)
  <2>1. es.pend = es.batch \cup (k + 1)..n /\ es.inFlight = cs.inFlight
    BY <1>3, <1>8 DEF Kept
  <2> QED
    BY <1>1, <1>3, <1>4, <2>1 DEF Awaits
<1> QED
  BY <1>1, <1>2, <1>3, <1>4, <1>5, <1>6, <1>7, <1>8, <1>9 DEF Drops, Serving

\* dropOldestLocked, for one consumer of a buffer, visiting the nodes V.
LEMMA DropVisited ==
  ASSUME NEW B \in BufferStates, NEW cs \in ConsumerStates, Serving(B.nextSeq, B.size, cs),
         NEW V, \A x \in Queued(cs), y \in V \cap Queued(cs) : x <= y => x \in V,
         NEW ds, ds = DropQueued(B, cs, V \cap Queued(cs)),
         NEW es, es = [ds EXCEPT !.next = IF @ \in V \cap Queued(cs) THEN FirstAfter(ds.pend, @) ELSE @]
  PROVE  \E k \in Nat : Back(cs) <= k /\ k <= B.nextSeq /\ Drops(B.nextSeq, B.size, cs, es, k)
<1> DEFINE n == B.nextSeq
           K == Back(cs)
           D == V \cap Queued(cs)
<1>1. n \in 0..MaxSeq /\ n \in Nat /\ B.size \in [Seqs -> 0..ChunkBytes]
  BY Bounds DEF BufferStates
<1>2. Tidy(cs) /\ Spans(cs) /\ Counts(B.size, cs) /\ Awaits(n, cs)
  BY DEF Serving
<1>3. K \in Nat /\ K <= n /\ cs.next \in Nat
  BY <1>2, Ends DEF Awaits
<1> HIDE DEF n, K
<1>4. Queued(cs) = (K + 1)..n /\ cs.batch = {m \in cs.pend : InFlight(cs, m)}
  BY <1>1, <1>2, Work DEF K
<1>5. \E k \in Int : K <= k /\ k <= n /\ D = (K + 1)..k
  <2>1. K + 1 \in Nat /\ K + 1 <= n + 1 /\ D \in SUBSET ((K + 1)..n)
    BY <1>1, <1>3, <1>4
  <2>2. \A x \in (K + 1)..n, y \in D : x <= y => x \in D
    BY <1>4
  <2> HIDE DEF D
  <2> DEFINE a == K + 1
  <2>3. a \in Nat /\ a <= n + 1 /\ D \in SUBSET (a..n) /\ \A x \in a..n, y \in D : x <= y => x \in D
    BY <2>1, <2>2
  <2> HIDE DEF a
  <2>4. \E k \in Int : a - 1 <= k /\ k <= n /\ D = a..k
    BY <1>1, <2>3, Prefix
  <2> QED
    BY <1>3, <2>4 DEF a
<1>6. PICK k \in Int : K <= k /\ k <= n /\ D = (K + 1)..k
  BY <1>5
<1>7. k \in Nat /\ k <= MaxSeq
  BY <1>1, <1>3, <1>6, Bounds
<1>8. ds = DropQueued(B, cs, (K + 1)..k)
  BY <1>6
<1>9. DroppedTo(B.size, cs, ds, k)
  BY <1>1, <1>2, <1>6, <1>7, <1>8, DropTo DEF K
<1>10. ds.pend = cs.pend \ ((K + 1)..k) /\ ds.next = cs.next /\ ds \in ConsumerStates /\ Kept(cs, ds)
  BY <1>9 DEF DroppedTo, K
<1>11. cs.pend = cs.batch \cup (K + 1)..n
  BY <1>2 DEF Awaits, K
<1>12. ds.pend = cs.batch \cup (k + 1)..n
  <2>1. \A m \in cs.batch : m \notin (K + 1)..k
    <3>1. \A m \in cs.batch : m \notin Queued(cs)
      BY <1>4 DEF Queued
    <3> QED
      BY <1>1, <1>3, <1>4, <1>6, <3>1
  <2>2. ((K + 1)..n) \ ((K + 1)..k) = (k + 1)..n
    BY <1>1, <1>3, <1>6
  <2> QED
    BY <1>10, <1>11, <2>1, <2>2
<1> DEFINE x == IF cs.next \in D THEN FirstAfter(ds.pend, cs.next) ELSE cs.next
<1>13. es = [ds EXCEPT !.next = x]
  BY <1>10 DEF ConsumerStates
<1>14. x \in 0..MaxSeq
  <2>1. cs.next \in 0..MaxSeq /\ ds.pend \in SUBSET Seqs
    BY <1>10 DEF ConsumerStates
  <2> QED
    BY <1>3, <2>1, FirstAfterType
<1>15. ASSUME cs.inFlight = 0 PROVE x = IF k = n THEN 0 ELSE k + 1
  <2>1. cs.batch = {} /\ cs.next = IF K = n THEN 0 ELSE K + 1
    BY <1>2, <1>15 DEF Tidy, Awaits, K
  <2>2. CASE k = K
    <3>1. D = {}
      BY <1>3, <1>6, <2>2
    <3> QED
      BY <2>1, <2>2, <3>1
  <2>3. CASE k # K
    <3>1. K < k /\ K < n /\ cs.next = K + 1 /\ cs.next \in D
      BY <1>1, <1>3, <1>6, <1>7, <2>1, <2>3
    <3>2. ds.pend = (k + 1)..n
      BY <1>12, <2>1
    <3>3. ds.pend \in SUBSET Nat
      <4>1. \A m \in (k + 1)..n : m \in Nat
        BY <1>1, <1>7
      <4> QED
        BY <3>2, <4>1
    <3> HIDE DEF D
    <3>4. \A m \in (k + 1)..n : m > K + 1
      BY <1>1, <1>3, <1>7, <3>1
    <3>5. {m \in ds.pend : m > K + 1} = (k + 1)..n
      BY <3>2, <3>4
    <3>6. k + 1 \in Nat /\ K + 1 \in Nat
      BY <1>3, <1>7
    <3>7. FirstAfter(ds.pend, K + 1) = IF k + 1 <= n THEN k + 1 ELSE 0
      BY <1>1, <3>3, <3>5, <3>6, FirstAfterIs
    <3> QED
      BY <1>1, <1>6, <1>7, <3>1, <3>7
  <2> QED
    BY <2>2, <2>3
<1> HIDE DEF x, D
<1>16. Drops(n, B.size, cs, es, k)
  BY <1>1, <1>6, <1>7, <1>9, <1>12, <1>13, <1>14, <1>15, Cursor
<1> QED
  BY <1>6, <1>7, <1>16 DEF n, K

\* dropIncomingLocked and the join of writeChunk, for one active consumer: the
\* new chunk and all that is queued before it become part of the gap.
LEMMA DropNew ==
  ASSUME NEW n \in Nat, n < MaxSeq, NEW f, NEW A, A.size \in [Seqs -> 0..ChunkBytes],
         \A s \in 1..n : f[s] = A.size[s],
         NEW cs \in ConsumerStates, Serving(n, f, cs),
         NEW ds, ds = DropQueued(A, cs, Queued(cs) \cup {n + 1}),
         NEW x \in 0..MaxSeq, cs.inFlight = 0 => x = 0,
         NEW es, es = [ds EXCEPT !.next = x]
  PROVE  Drops(n + 1, A.size, cs, es, n + 1)
<1> DEFINE K == Back(cs)
           k == n + 1
<1>1. n \in 0..MaxSeq /\ k \in 0..MaxSeq /\ k \in Nat /\ k <= MaxSeq
  BY Bounds
<1>2. Tidy(cs) /\ Spans(cs) /\ Counts(f, cs) /\ Awaits(n, cs)
  BY DEF Serving
<1>3. K \in Nat /\ K <= n
  BY <1>2, Ends DEF Awaits
<1>4. Queued(cs) = (K + 1)..n /\ cs.batch = {m \in cs.pend : InFlight(cs, m)}
  BY <1>1, <1>2, Work
<1>5. Counts(A.size, cs)
  BY <1>2, <1>3, CountsSame
<1> HIDE DEF K
<1>6. Queued(cs) \cup {n + 1} = (K + 1)..k
  BY <1>3, <1>4
<1>7. DroppedTo(A.size, cs, ds, k)
  <2>1. K <= k
    BY <1>3
  <2> HIDE DEF k
  <2>2. ds = DropQueued(A, cs, (K + 1)..k)
    BY <1>6, Zenon
  <2> QED
    BY <1>1, <1>2, <1>5, <2>1, <2>2, DropTo DEF K
<1>8. ds.pend = cs.batch \cup (k + 1)..k
  <2>1. ds.pend = cs.pend \ ((K + 1)..k) /\ cs.pend = cs.batch \cup (K + 1)..n
    BY <1>2, <1>7 DEF DroppedTo, Awaits, K
  <2>2. \A m \in cs.batch : m \notin (K + 1)..k
    <3>1. \A m \in cs.batch : m \notin Queued(cs)
      BY <1>4 DEF Queued
    <3>2. n + 1 \notin cs.batch
      <4>1. \A m \in cs.batch : m \in (cs.completedSeq + 1)..Front(cs)
        BY <1>2 DEF Spans
      <4>2. Front(cs) <= n /\ Front(cs) \in Nat /\ cs.completedSeq \in Nat
        BY <1>2, <1>3, Ends DEF Spans, K
      <4> QED
        BY <4>1, <4>2
    <3> QED
      BY <1>6, <3>1, <3>2
  <2>3. (k + 1)..k = {} /\ (K + 1)..n \subseteq (K + 1)..k
    BY <1>3
  <2> QED
    BY <2>1, <2>2, <2>3
<1>9. cs.inFlight = 0 => x = IF k = k THEN 0 ELSE k + 1
  OBVIOUS
<1> HIDE DEF k
<1>10. k <= k
  BY <1>1
<1>11. Drops(k, A.size, cs, es, k)
  BY <1>1, <1>7, <1>8, <1>9, <1>10, Cursor
<1> QED
  BY <1>11 DEF k

\* Close, for one active consumer: what is queued becomes part of the gap.
LEMMA DropAll ==
  ASSUME NEW B \in BufferStates, NEW cs \in ConsumerStates, Serving(B.nextSeq, B.size, cs),
         NEW ds, ds = DropQueued(B, cs, Queued(cs)),
         NEW es, es = [ds EXCEPT !.next = 0]
  PROVE  Drops(B.nextSeq, B.size, cs, es, B.nextSeq)
<1> DEFINE K == Back(cs)
           n == B.nextSeq
<1>1. n \in 0..MaxSeq /\ n \in Nat /\ n <= MaxSeq /\ B.size \in [Seqs -> 0..ChunkBytes] /\ 0 \in 0..MaxSeq
  BY Bounds DEF BufferStates
<1>2. Tidy(cs) /\ Spans(cs) /\ Counts(B.size, cs) /\ Awaits(n, cs)
  BY DEF Serving
<1>3. K \in Nat /\ K <= n
  BY <1>2, Ends DEF Awaits
<1>4. Queued(cs) = (K + 1)..n /\ cs.batch = {m \in cs.pend : InFlight(cs, m)}
  BY <1>1, <1>2, Work
<1> HIDE DEF K, n
<1>5. DroppedTo(B.size, cs, ds, n)
  BY <1>1, <1>2, <1>3, <1>4, DropTo DEF K
<1>6. ds.pend = cs.batch \cup (n + 1)..n
  <2>1. ds.pend = cs.pend \ ((K + 1)..n) /\ cs.pend = cs.batch \cup (K + 1)..n
    BY <1>2, <1>5 DEF DroppedTo, Awaits, K
  <2>2. \A m \in cs.batch : m \notin (K + 1)..n
    BY <1>4 DEF Queued
  <2>3. (n + 1)..n = {}
    BY <1>1
  <2> QED
    BY <2>1, <2>2, <2>3
<1>7. n <= n
  BY <1>1
<1>8. Drops(n, B.size, cs, es, n)
  BY <1>1, <1>5, <1>6, <1>7, Cursor
<1> QED
  BY <1>8 DEF n

\* es is cs with the chunk n + 1 queued.
Queues(n, g, cs, es) ==
  /\ es \in ConsumerStates /\ Kept(cs, es)
  /\ Serving(n + 1, g, es) /\ es.gap = cs.gap /\ es.pend = cs.pend \cup {n + 1}

\* The rest of writeChunk, for a consumer without a gap: the new node is linked
\* behind what it has queued.
LEMMA Link ==
  ASSUME NEW n \in Nat, n < MaxSeq, NEW f, NEW g, \A s \in 1..n : f[s] = g[s],
         NEW cs \in ConsumerStates, Serving(n, f, cs),
         NEW es, es = [cs EXCEPT !.pend = @ \cup {n + 1},
                                 !.next = IF @ = 0 /\ cs.inFlight = 0 THEN n + 1 ELSE @]
  PROVE  Queues(n, g, cs, es)
<1> DEFINE K == Back(cs)
           p == cs.pend \cup {n + 1}
           x == IF cs.next = 0 /\ cs.inFlight = 0 THEN n + 1 ELSE cs.next
<1>1. Tidy(cs) /\ Spans(cs) /\ Counts(f, cs) /\ Awaits(n, cs)
  BY DEF Serving
<1>2. /\ K \in Nat /\ K <= n /\ cs.pend = cs.batch \cup (K + 1)..n
      /\ cs.inFlight = 0 => cs.next = IF K = n THEN 0 ELSE K + 1
  BY <1>1, Ends DEF Awaits
<1>3. Counts(g, cs)
  BY <1>1, <1>2, CountsSame
<1>4. p \in SUBSET Seqs /\ x \in 0..MaxSeq
  <2>1. cs.pend \in SUBSET Seqs /\ cs.next \in 0..MaxSeq
    BY DEF ConsumerStates
  <2>2. n + 1 \in Seqs /\ n + 1 \in 0..MaxSeq
    BY Bounds DEF Seqs
  <2> QED
    BY <2>1, <2>2
<1>5. es = [cs EXCEPT !.pend = p, !.next = x]
  BY DEF ConsumerStates
<1>6. cs.inFlight = 0 => x = K + 1
  BY <1>2
<1>7. p = cs.batch \cup (K + 1)..(n + 1)
  BY <1>2
<1> HIDE DEF p, x, K
<1>8. es \in ConsumerStates
  BY <1>4, <1>5 DEF ConsumerStates
<1>9. Kept(cs, es) /\ es.failurePending = cs.failurePending /\ es.next = x /\ es.pend = p /\ es.gap = cs.gap
      /\ es.gapSeq = cs.gapSeq /\ es.gapCount = cs.gapCount /\ es.dropped = cs.dropped
  BY <1>5 DEF ConsumerStates, Kept
<1>10. Front(es) = Front(cs) /\ Back(es) = K
  BY <1>9 DEF Front, Back, Kept, K
<1>11. Tidy(es)
  BY <1>1, <1>9 DEF Tidy, Kept
<1>12. Spans(es)
  BY <1>1, <1>9, <1>10 DEF Spans, Kept, K
<1>13. Counts(g, es)
  BY <1>3, <1>9 DEF Counts, Kept, OpenGaps
<1>14. Awaits(n + 1, es)
  <2>1. es.pend = es.batch \cup (K + 1)..(n + 1) /\ es.inFlight = cs.inFlight
    BY <1>7, <1>9 DEF Kept
  <2>2. K # n + 1 /\ K <= n + 1
    BY <1>2
  <2> QED
    BY <1>6, <1>9, <1>10, <2>1, <2>2 DEF Awaits
<1> QED
  BY <1>8, <1>9, <1>11, <1>12, <1>13, <1>14 DEF Queues, Serving, p

\* next, when it takes the gap: nothing but the gap moves.
LEMMA TakeGap ==
  ASSUME NEW n \in 0..MaxSeq, NEW f, NEW cs \in ConsumerStates, Serving(n, f, cs),
         cs.inFlight = 0, cs.gapFly = {}, cs.gap # {},
         NEW es, es = [cs EXCEPT !.gapFly = cs.gap, !.gapFlySeq = cs.gapSeq, !.gap = {}, !.gapSeq = 0]
  PROVE  /\ es \in ConsumerStates /\ Serving(n, f, es)
         /\ Back(es) = Back(cs)
<1>1. Tidy(cs) /\ Spans(cs) /\ Counts(f, cs) /\ Awaits(n, cs)
  BY DEF Serving
<1>2. cs.gap \in SUBSET Seqs /\ cs.gapSeq \in 0..MaxSeq /\ 0 \in 0..MaxSeq /\ {} \in SUBSET Seqs
  BY Bounds DEF ConsumerStates
<1>3. es \in ConsumerStates
  BY <1>2 DEF ConsumerStates
<1>4. /\ es.gapFly = cs.gap /\ es.gapFlySeq = cs.gapSeq /\ es.gap = {} /\ es.gapSeq = 0
      /\ es.next = cs.next /\ es.pend = cs.pend /\ es.inFlight = 0 /\ es.inFlightLast = cs.inFlightLast
      /\ es.batch = cs.batch /\ es.completedSeq = cs.completedSeq /\ es.epoch = cs.epoch
      /\ es.gapCount = cs.gapCount /\ es.dropped = cs.dropped
      /\ es.ingested = cs.ingested /\ es.acked = cs.acked
  BY DEF ConsumerStates
<1>5. cs.batch = {} /\ cs.inFlightLast = 0
  BY <1>1 DEF Tidy
<1>6. Front(cs) = cs.completedSeq /\ Back(cs) = cs.gapSeq
  BY DEF Front, Back
<1>7. Front(es) = cs.gapSeq /\ Back(es) = cs.gapSeq
  BY <1>4 DEF Front, Back
<1>8. cs.completedSeq \in Nat /\ cs.gapSeq \in Nat
  BY Ends
<1>9. Tidy(es)
  BY <1>4, <1>5 DEF Tidy
<1>10. Spans(es)
  <2>1. (cs.gapSeq + 1)..cs.gapSeq = {} /\ cs.gapSeq <= cs.gapSeq
    BY <1>8
  <2> QED
    BY <1>1, <1>4, <1>5, <1>6, <1>7, <2>1 DEF Spans
<1>11. Counts(f, es)
  <2>1. es.acked \cup es.gapFly \cup es.gap = cs.acked \cup cs.gapFly \cup cs.gap
    BY <1>4
  <2>2. OpenGaps(es) = OpenGaps(cs)
    BY <1>4 DEF OpenGaps
  <2> QED
    BY <1>1, <1>4, <2>1, <2>2 DEF Counts
<1>12. Awaits(n, es)
  BY <1>1, <1>4, <1>6, <1>7 DEF Awaits
<1> QED
  BY <1>3, <1>6, <1>7, <1>9, <1>10, <1>11, <1>12 DEF Serving

\* next, when it takes a batch: the first queued nodes, at least one.
LEMMA TakeBatch ==
  ASSUME NEW B \in BufferStates, NEW cs \in ConsumerStates, Serving(B.nextSeq, B.size, cs),
         cs.inFlight = 0, cs.gapFly = {}, cs.gap = {}, cs.next # 0,
         NEW batch, batch = BatchOf(B, cs),
         NEW es, es = [cs EXCEPT !.batch = batch, !.inFlight = cs.next, !.inFlightLast = Max(batch)]
  PROVE  es \in ConsumerStates /\ Serving(B.nextSeq, B.size, es) /\ es.inFlight # 0
<1> DEFINE n == B.nextSeq
           K == cs.completedSeq
<1>1. n \in 0..MaxSeq /\ n \in Nat /\ n <= MaxSeq
  BY Bounds DEF BufferStates
<1>2. Tidy(cs) /\ Spans(cs) /\ Counts(B.size, cs) /\ Awaits(n, cs)
  BY DEF Serving
<1>3. Front(cs) = K /\ Back(cs) = K
  BY DEF Front, Back
<1>4. K \in Nat
  BY Ends
<1>5. cs.batch = {} /\ cs.pend = (K + 1)..n /\ cs.next = K + 1 /\ K < n
  BY <1>1, <1>2, <1>3, <1>4 DEF Tidy, Awaits
<1> HIDE DEF n, K
<1>6. \E k \in Int : K + 1 <= k /\ k <= n /\ batch = (K + 1)..k
  <2> DEFINE a == K + 1
             Fit(m) == \A q \in cs.pend : cs.next < q /\ q <= m
                          => Bytes(B, {j \in cs.pend : cs.next <= j /\ j <= q}) <= ChunkBytes
  <2>1. batch = {m \in cs.pend : m >= cs.next /\ Fit(m)}
    BY DEF BatchOf
  <2>2. a \in Nat /\ a <= n /\ a <= n + 1 /\ cs.pend = a..n /\ cs.next = a /\ a \in a..n
    BY <1>1, <1>4, <1>5
  <2> HIDE DEF a
  <2>3. batch \in SUBSET (a..n)
    BY <2>1, <2>2
  <2>4. \A x \in a..n, y \in batch : x <= y => x \in batch
    <3> SUFFICES ASSUME NEW x \in a..n, NEW y \in batch, x <= y PROVE x \in batch
      OBVIOUS
    <3>1. y \in a..n /\ Fit(y)
      BY <2>1, <2>2
    <3>2. \A q \in cs.pend : q <= x => q <= y
      BY <1>1, <2>2, <3>1
    <3>3. Fit(x)
      BY <3>1, <3>2
    <3>4. x >= cs.next /\ x \in cs.pend
      BY <2>2
    <3> QED
      BY <2>1, <3>3, <3>4
  <2>5. a \in batch
    <3>1. Fit(a)
      BY <1>1, <2>2
    <3> QED
      BY <2>1, <2>2, <3>1
  <2> HIDE DEF Fit
  <2>6. \E k \in Int : a - 1 <= k /\ k <= n /\ batch = a..k
    <3>1. a \in Nat /\ n \in Nat /\ a <= n + 1
      BY <1>1, <2>2
    <3> QED
      BY <2>3, <2>4, <3>1, Prefix
  <2>7. PICK k \in Int : a - 1 <= k /\ k <= n /\ batch = a..k
    BY <2>6
  <2>8. a <= k
    BY <2>2, <2>5, <2>7
  <2> QED
    BY <2>7, <2>8 DEF a
<1>7. PICK k \in Int : K + 1 <= k /\ k <= n /\ batch = (K + 1)..k
  BY <1>6
<1>8. k \in Nat /\ k \in 0..MaxSeq /\ K + 1 \in Nat /\ K + 1 \in 0..MaxSeq /\ k \in batch
  <2>1. k \in Nat /\ K + 1 \in Nat /\ k \in (K + 1)..k
    BY <1>4, <1>7
  <2>2. k <= MaxSeq /\ K + 1 <= MaxSeq
    BY <1>1, <1>4, <1>7, Bounds
  <2> QED
    BY <1>7, <2>1, <2>2
<1>9. Max(batch) = k
  <2>1. batch \in SUBSET Int /\ \A x \in batch : x <= k
    BY <1>7
  <2> QED
    BY <1>8, <2>1, LargestIs
<1>10. batch \in SUBSET Seqs
  <2>1. \A m \in (K + 1)..k : m \in 1..MaxSeq
    BY <1>4, <1>8, Bounds
  <2> QED
    BY <1>7, <2>1 DEF Seqs
<1>11. es = [cs EXCEPT !.batch = batch, !.inFlight = K + 1, !.inFlightLast = k]
  BY <1>5, <1>9
<1>12. es \in ConsumerStates
  BY <1>8, <1>10, <1>11 DEF ConsumerStates
<1>13. /\ es.batch = batch /\ es.inFlight = K + 1 /\ es.inFlightLast = k
       /\ es.gapFly = {} /\ es.gapFlySeq = cs.gapFlySeq /\ es.gap = {} /\ es.gapSeq = cs.gapSeq
       /\ es.pend = cs.pend /\ es.completedSeq = cs.completedSeq /\ es.epoch = cs.epoch
       /\ es.gapCount = cs.gapCount /\ es.dropped = cs.dropped
       /\ es.ingested = cs.ingested /\ es.acked = cs.acked
  BY <1>11 DEF ConsumerStates
<1>14. Front(es) = k /\ Back(es) = k /\ K + 1 # 0
  BY <1>4, <1>13 DEF Front, Back
<1>15. Tidy(es)
  BY <1>2, <1>8, <1>13, <1>14 DEF Tidy
<1>16. Spans(es)
  <2>1. (k + 1)..k = {} /\ k <= k /\ K <= k
    BY <1>4, <1>7, <1>8
  <2> QED
    BY <1>2, <1>7, <1>13, <1>14, <2>1 DEF Spans, K
<1>17. Counts(B.size, es)
  <2>1. es.acked \cup es.gapFly \cup es.gap = cs.acked \cup cs.gapFly \cup cs.gap
    BY <1>13
  <2>2. OpenGaps(es) = OpenGaps(cs)
    BY <1>13 DEF OpenGaps
  <2> QED
    BY <1>2, <1>13, <2>1, <2>2 DEF Counts
<1>18. Awaits(n, es)
  <2>1. (K + 1)..n = (K + 1)..k \cup (k + 1)..n
    BY <1>1, <1>4, <1>7
  <2> QED
    BY <1>5, <1>7, <1>13, <1>14, <2>1 DEF Awaits
<1> QED
  BY <1>12, <1>13, <1>14, <1>15, <1>16, <1>17, <1>18 DEF Serving, n

\* es has given up all that ds has queued, and reports it together with U.
GivesUp(n, ds, es, K, U) ==
  /\ es \in ConsumerStates /\ Dead(es) /\ es.unavailable
  /\ es.failed = U \cup ds.gap \cup (K + 1)..n
  /\ es.ingested = ds.ingested /\ es.acked = ds.acked
  /\ es.done = ds.done /\ es.started = ds.started

\* The error path of completeBatch and completeGap: the consumer gives up
\* everything and reports it.
LEMMA Fail ==
  ASSUME NEW B, NEW ds \in ConsumerStates, NEW n \in 0..MaxSeq, NEW K \in Nat, K <= n,
         ds.pend = (K + 1)..n, ds.next = IF K = n THEN 0 ELSE K + 1,
         ds.batch = {}, ds.inFlight = 0, ds.gapFly = {},
         NEW U \in SUBSET Seqs,
         NEW es, es = FailConsumer(B, ds, U)
  PROVE  GivesUp(n, ds, es, K, U)
<1> DEFINE released == IF ds.next = 0 THEN {} ELSE {m \in ds.pend : m >= ds.next}
           by == Bytes(B, released)
           told == U \cup ds.gap \cup released
<1>1. n \in Nat
  BY Bounds
<1>2. released = (K + 1)..n
  <2>1. CASE K = n
    BY <1>1, <2>1
  <2>2. CASE K # n
    <3>1. ds.next = K + 1 /\ K + 1 # 0
      BY <2>2
    <3>2. \A m \in (K + 1)..n : m >= K + 1
      OBVIOUS
    <3> QED
      BY <3>1, <3>2
  <2> QED
    BY <2>1, <2>2
<1>3. ds.pend \in SUBSET Seqs /\ ds.gap \in SUBSET Seqs /\ ds.dropped \in Nat
  BY DEF ConsumerStates
<1>4. by \in Nat
  <2>1. by = Measure(B.size, released)
    BY DEF Bytes, Measure
  <2>2. released \in SUBSET Seqs /\ {} \in SUBSET Seqs /\ released \cap {} = {}
    BY <1>2, <1>3
  <2> HIDE DEF released, by
  <2> QED
    BY <2>1, <2>2, MeasureUnion
<1>5. es = [ds EXCEPT !.failed = told, !.gap = {}, !.gapSeq = 0,
                 !.pend = ds.pend \ released, !.dropped = ds.dropped + by,
                 !.unavailable = TRUE, !.failurePending = TRUE, !.active = FALSE, !.next = 0]
  BY DEF FailConsumer
<1> DEFINE sum == ds.dropped + by
<1>6. told \in SUBSET Seqs /\ sum \in Nat /\ ds.pend \ released = {} /\ told = U \cup ds.gap \cup (K + 1)..n
  BY <1>2, <1>3, <1>4
<1>7. es = [ds EXCEPT !.failed = told, !.gap = {}, !.gapSeq = 0, !.pend = {}, !.dropped = sum,
                 !.unavailable = TRUE, !.failurePending = TRUE, !.active = FALSE, !.next = 0]
  BY <1>5, <1>6
<1>8. 0 \in 0..MaxSeq /\ {} \in SUBSET Seqs
  BY Bounds
<1> DEFINE yes == TRUE
           no == FALSE
<1>9. es \in ConsumerStates
  <2>1. es = [ds EXCEPT !.failed = told, !.gap = {}, !.gapSeq = 0, !.pend = {}, !.dropped = sum,
                 !.unavailable = yes, !.failurePending = yes, !.active = no, !.next = 0]
    BY <1>7
  <2>2. yes \in BOOLEAN /\ no \in BOOLEAN /\ told \in SUBSET Seqs /\ sum \in Nat
    BY <1>6
  <2> HIDE DEF told, sum, yes, no
  <2> DEFINE half == [ds EXCEPT !.failed = told, !.gap = {}, !.gapSeq = 0, !.pend = {}, !.dropped = sum]
  <2>3. half \in ConsumerStates
    BY <1>8, <2>2 DEF ConsumerStates
  <2>4. es = [half EXCEPT !.unavailable = yes, !.failurePending = yes, !.active = no, !.next = 0]
    BY <2>1
  <2> HIDE DEF half
  <2> QED
    BY <1>8, <2>2, <2>3, <2>4 DEF ConsumerStates
<1> HIDE DEF told, sum
<1>10. /\ es.failed = told /\ es.gap = {} /\ es.pend = {} /\ es.unavailable = TRUE /\ es.active = FALSE
       /\ es.next = 0 /\ es.batch = {} /\ es.inFlight = 0 /\ es.gapFly = {}
       /\ es.ingested = ds.ingested /\ es.acked = ds.acked
       /\ es.done = ds.done /\ es.started = ds.started
  BY <1>7 DEF ConsumerStates
<1> QED
  BY <1>6, <1>9, <1>10 DEF Dead, GivesUp

\* completeBatch, before it looks at the error.
Finished(cs) ==
  LET done == {m \in cs.pend : InFlight(cs, m)}
  IN  [cs EXCEPT !.inFlight = 0, !.inFlightLast = 0, !.batch = {},
                 !.pend = @ \ done,
                 !.completedSeq = Max(done \cup {@}),
                 !.next = FirstAfter(cs.pend, cs.inFlightLast)]

\* The batch is behind the consumer, and the cursor at what waits behind its gap.
LEMMA BatchFinished ==
  ASSUME NEW n \in 0..MaxSeq, NEW cs \in ConsumerStates, Tidy(cs), Spans(cs), Awaits(n, cs),
         cs.inFlight # 0, NEW ds, ds = Finished(cs)
  PROVE  /\ ds \in ConsumerStates
         /\ ds.inFlight = 0 /\ ds.inFlightLast = 0 /\ ds.batch = {}
         /\ ds.pend = (Back(cs) + 1)..n
         /\ ds.completedSeq = Front(cs)
         /\ ds.next = IF Back(cs) = n THEN 0 ELSE Back(cs) + 1
         /\ ds.active = cs.active /\ ds.started = cs.started /\ ds.done = cs.done
         /\ ds.gap = cs.gap /\ ds.gapSeq = cs.gapSeq /\ ds.gapFly = {} /\ ds.gapFlySeq = cs.gapFlySeq
         /\ ds.epoch = cs.epoch /\ ds.gapCount = cs.gapCount /\ ds.dropped = cs.dropped
         /\ ds.unavailable = cs.unavailable /\ ds.failed = cs.failed
         /\ ds.failurePending = cs.failurePending
         /\ ds.ingested = cs.ingested /\ ds.acked = cs.acked
<1> DEFINE F == Front(cs)
           K == Back(cs)
           L == cs.inFlightLast
<1>1. F \in Nat /\ K \in Nat /\ n \in Nat /\ L \in Nat /\ F \in 0..MaxSeq /\ K \in 0..MaxSeq
      /\ cs.completedSeq \in Nat /\ cs.inFlight \in Nat
  BY Ends, Bounds
<1>2. /\ cs.batch = {m \in cs.pend : InFlight(cs, m)} /\ cs.batch = cs.inFlight..L /\ cs.inFlight <= L
      /\ F = L /\ cs.gapFly = {}
  BY Work
<1>3. F <= K /\ K <= n /\ cs.completedSeq <= F /\ cs.pend = cs.batch \cup (K + 1)..n
  BY DEF Spans, Awaits
<1> DEFINE top == Max(cs.batch \cup {cs.completedSeq})
           next == FirstAfter(cs.pend, L)
           rest == cs.pend \ cs.batch
<1>4. ds = [cs EXCEPT !.inFlight = 0, !.inFlightLast = 0, !.batch = {}, !.pend = rest,
                      !.completedSeq = top, !.next = next]
  BY <1>2 DEF Finished
<1> HIDE DEF F, K, L
<1>5. rest = (K + 1)..n
  <2>1. \A m \in (K + 1)..n : m \notin cs.inFlight..L
    BY <1>1, <1>2, <1>3
  <2> QED
    BY <1>2, <1>3, <2>1
<1>6. top = F
  <2>1. cs.inFlight <= F /\ cs.batch = cs.inFlight..F
    BY <1>2
  <2>2. Max((cs.inFlight..F) \cup {cs.completedSeq}) = F
    BY <1>1, <1>3, <2>1, LastOf
  <2> QED
    BY <2>1, <2>2
<1>7. next = IF K = n THEN 0 ELSE K + 1
  <2>1. cs.pend \in SUBSET Nat
    BY Bounds DEF ConsumerStates, Seqs
  <2>2. {m \in cs.pend : m > L} = (K + 1)..n
    <3>1. \A m \in cs.batch : ~(m > L)
      BY <1>1, <1>2
    <3>2. \A m \in (K + 1)..n : m > L
      BY <1>1, <1>2, <1>3
    <3> QED
      BY <1>3, <3>1, <3>2
  <2>3. K + 1 \in Nat
    BY <1>1
  <2>4. next = IF K + 1 <= n THEN K + 1 ELSE 0
    BY <1>1, <2>1, <2>2, <2>3, FirstAfterIs
  <2> QED
    BY <1>1, <1>3, <2>4
<1>8. rest \in SUBSET Seqs /\ top \in 0..MaxSeq /\ next \in 0..MaxSeq /\ 0 \in 0..MaxSeq /\ {} \in SUBSET Seqs
  <2>1. cs.pend \in SUBSET Seqs
    BY DEF ConsumerStates
  <2>2. next \in 0..MaxSeq
    BY <1>1, <1>3, <1>7, Bounds
  <2> QED
    BY <1>1, <1>6, <2>1, <2>2, Bounds
<1> HIDE DEF top, next, rest
<1>9. ds \in ConsumerStates
  BY <1>4, <1>8 DEF ConsumerStates
<1>10. /\ ds.inFlight = 0 /\ ds.inFlightLast = 0 /\ ds.batch = {} /\ ds.pend = rest
       /\ ds.completedSeq = top /\ ds.next = next
  BY <1>4 DEF ConsumerStates
<1>11. /\ ds.active = cs.active /\ ds.started = cs.started /\ ds.done = cs.done
       /\ ds.gap = cs.gap /\ ds.gapSeq = cs.gapSeq /\ ds.gapFly = cs.gapFly /\ ds.gapFlySeq = cs.gapFlySeq
       /\ ds.epoch = cs.epoch /\ ds.gapCount = cs.gapCount /\ ds.dropped = cs.dropped
       /\ ds.unavailable = cs.unavailable /\ ds.failed = cs.failed
       /\ ds.failurePending = cs.failurePending
       /\ ds.ingested = cs.ingested /\ ds.acked = cs.acked
  BY <1>4 DEF ConsumerStates
<1> QED
  BY <1>2, <1>5, <1>6, <1>7, <1>9, <1>10, <1>11 DEF F, K

\* What a consumer has become when its callback returned: it has been given
\* the interval up to Front, or has failed and reported all it was owed.
Progress(n, f, cs, es) ==
  /\ es \in ConsumerStates /\ es.done = cs.done /\ es.started = cs.started
  /\ es.inFlight = 0 /\ es.gapFly = {}
  /\ \/ /\ Serving(n, f, es) /\ es.active = cs.active /\ es.unavailable = cs.unavailable
        /\ Back(es) = Back(cs) /\ es.completedSeq = Front(cs) /\ es.gap = cs.gap
        /\ \/ es.ingested = cs.ingested \cup (cs.completedSeq + 1)..Front(cs) /\ es.acked = cs.acked
           \/ es.acked = cs.acked \cup (cs.completedSeq + 1)..Front(cs) /\ es.ingested = cs.ingested
              /\ cs.gapFly # {}
     \/ /\ Dead(es) /\ es.unavailable
        /\ es.failed = (cs.completedSeq + 1)..n
        /\ es.ingested = cs.ingested /\ es.acked = cs.acked

\* completeBatch without an error
LEMMA BatchIngested ==
  ASSUME NEW n \in 0..MaxSeq, NEW f, NEW cs \in ConsumerStates, Serving(n, f, cs), cs.inFlight # 0,
         NEW es, es = [Finished(cs) EXCEPT !.ingested = @ \cup cs.batch]
  PROVE  Progress(n, f, cs, es)
<1> DEFINE ds == Finished(cs)
           F == Front(cs)
           K == Back(cs)
<1>1. Tidy(cs) /\ Spans(cs) /\ Counts(f, cs) /\ Awaits(n, cs)
  BY DEF Serving
<1>2. /\ ds \in ConsumerStates /\ ds.inFlight = 0 /\ ds.inFlightLast = 0 /\ ds.batch = {}
      /\ ds.pend = (K + 1)..n /\ ds.completedSeq = F
      /\ ds.next = IF K = n THEN 0 ELSE K + 1
      /\ ds.active = cs.active /\ ds.started = cs.started /\ ds.done = cs.done
      /\ ds.gap = cs.gap /\ ds.gapSeq = cs.gapSeq /\ ds.gapFly = {} /\ ds.gapFlySeq = cs.gapFlySeq
      /\ ds.epoch = cs.epoch /\ ds.gapCount = cs.gapCount /\ ds.dropped = cs.dropped
      /\ ds.unavailable = cs.unavailable
      /\ ds.ingested = cs.ingested /\ ds.acked = cs.acked
  BY <1>1, BatchFinished
<1>3. cs.gapFly = {} /\ cs.batch = (cs.completedSeq + 1)..F
      /\ cs.ingested \cup cs.acked = 1..cs.completedSeq /\ cs.completedSeq <= F /\ F <= K
      /\ cs.gap = (F + 1)..K
  BY <1>1 DEF Tidy, Spans
<1>4. F \in Nat /\ K \in Nat /\ cs.completedSeq \in Nat
  BY Ends
<1> DEFINE all == ds.ingested \cup cs.batch
<1>5. es = [ds EXCEPT !.ingested = all]
  BY <1>2 DEF ConsumerStates
<1>6. all \in SUBSET Seqs /\ all = cs.ingested \cup cs.batch
  BY <1>2 DEF ConsumerStates
<1> HIDE DEF ds, all, F
<1>7. es \in ConsumerStates
  BY <1>2, <1>5, <1>6 DEF ConsumerStates
<1>8. /\ es.inFlight = 0 /\ es.inFlightLast = 0 /\ es.batch = {} /\ es.pend = ds.pend
      /\ es.completedSeq = F /\ es.next = ds.next
      /\ es.active = cs.active /\ es.started = cs.started /\ es.done = cs.done
      /\ es.gap = cs.gap /\ es.gapSeq = cs.gapSeq /\ es.gapFly = {} /\ es.gapFlySeq = cs.gapFlySeq
      /\ es.epoch = cs.epoch /\ es.gapCount = cs.gapCount /\ es.dropped = cs.dropped
      /\ es.unavailable = cs.unavailable /\ es.ingested = all /\ es.acked = cs.acked
  BY <1>2, <1>5 DEF ConsumerStates
<1>9. Front(es) = F /\ Back(es) = K
  BY <1>8 DEF Front, Back, F
<1> HIDE DEF K
<1>10. Tidy(es)
  BY <1>1, <1>3, <1>8 DEF Tidy
<1>11. Spans(es)
  <2>1. all \cup cs.acked = 1..F
    BY <1>3, <1>4, <1>6
  <2>2. (F + 1)..F = {} /\ F <= F
    BY <1>4
  <2> QED
    BY <1>3, <1>8, <1>9, <2>1, <2>2 DEF Spans
<1>12. Counts(f, es)
  BY <1>1, <1>3, <1>8 DEF Counts, OpenGaps
<1>13. Awaits(n, es)
  <2>1. K <= n
    BY <1>1 DEF Awaits, K
  <2> QED
    BY <1>2, <1>8, <1>9, <2>1 DEF Awaits
<1> QED
  BY <1>3, <1>6, <1>7, <1>8, <1>9, <1>10, <1>11, <1>12, <1>13 DEF Progress, Serving, F, K

\* completeBatch with an error
LEMMA BatchFailed ==
  ASSUME NEW B, NEW n \in 0..MaxSeq, NEW f, NEW cs \in ConsumerStates, Serving(n, f, cs), cs.inFlight # 0,
         NEW ds, ds = [Finished(cs) EXCEPT !.dropped = @ + Bytes(B, cs.batch),
                                           !.gapCount = IF cs.gap = {} THEN @ + 1 ELSE @],
         NEW es, es = FailConsumer(B, ds, cs.batch)
  PROVE  Progress(n, f, cs, es) /\ es.unavailable
<1> DEFINE fs == Finished(cs)
           F == Front(cs)
           K == Back(cs)
<1>1. Tidy(cs) /\ Spans(cs) /\ Awaits(n, cs)
  BY DEF Serving
<1>2. /\ fs \in ConsumerStates /\ fs.inFlight = 0 /\ fs.batch = {}
      /\ fs.pend = (K + 1)..n /\ fs.completedSeq = F /\ fs.next = IF K = n THEN 0 ELSE K + 1
      /\ fs.started = cs.started /\ fs.done = cs.done /\ fs.gap = cs.gap /\ fs.gapFly = {}
      /\ fs.ingested = cs.ingested /\ fs.acked = cs.acked
  BY <1>1, BatchFinished
<1>3. cs.batch = (cs.completedSeq + 1)..F /\ cs.gap = (F + 1)..K /\ cs.completedSeq <= F /\ F <= K /\ K <= n
  BY <1>1 DEF Tidy, Spans, Awaits
<1>4. F \in Nat /\ K \in Nat /\ cs.completedSeq \in Nat /\ n \in Nat
  BY Ends, Bounds
<1>5. cs.batch \in SUBSET Seqs
  BY DEF ConsumerStates
<1> DEFINE sum == fs.dropped + Bytes(B, cs.batch)
           count == IF cs.gap = {} THEN fs.gapCount + 1 ELSE fs.gapCount
<1>6. ds = [fs EXCEPT !.dropped = sum, !.gapCount = count]
  BY <1>2 DEF ConsumerStates
<1>7. sum \in Nat /\ count \in Nat
  <2>1. Bytes(B, cs.batch) = Measure(B.size, cs.batch)
    BY DEF Bytes, Measure
  <2>2. Measure(B.size, cs.batch) \in Nat
    <3>1. {} \in SUBSET Seqs /\ cs.batch \cap {} = {}
      OBVIOUS
    <3> QED
      BY <1>5, <3>1, MeasureUnion
  <2>3. fs.dropped \in Nat /\ fs.gapCount \in Nat
    BY <1>2 DEF ConsumerStates
  <2> QED
    BY <2>1, <2>2, <2>3
<1> HIDE DEF fs, sum, count, F, K
<1>8. ds \in ConsumerStates
  BY <1>2, <1>6, <1>7 DEF ConsumerStates
<1>9. /\ ds.inFlight = 0 /\ ds.batch = {} /\ ds.pend = (K + 1)..n /\ ds.next = IF K = n THEN 0 ELSE K + 1
      /\ ds.started = cs.started /\ ds.done = cs.done /\ ds.gap = cs.gap /\ ds.gapFly = {}
      /\ ds.ingested = cs.ingested /\ ds.acked = cs.acked
  BY <1>2, <1>6 DEF ConsumerStates
<1>10. GivesUp(n, ds, es, K, cs.batch)
  BY <1>3, <1>4, <1>5, <1>8, <1>9, Fail
<1>11. cs.batch \cup cs.gap \cup (K + 1)..n = (cs.completedSeq + 1)..n
  BY <1>3, <1>4
<1> QED
  BY <1>9, <1>10, <1>11 DEF Progress, Dead, GivesUp

\* ds is cs without the gap in flight, which was the first of what is owed.
GapTaken(n, cs, ds) ==
  /\ ds \in ConsumerStates /\ ds.gapFly = {} /\ ds.gapFlySeq = 0
  /\ ds.inFlight = 0 /\ ds.inFlightLast = 0 /\ ds.batch = {}
  /\ ds.pend = (Back(cs) + 1)..n
  /\ ds.next = IF Back(cs) = n THEN 0 ELSE Back(cs) + 1
  /\ ds.active = cs.active /\ ds.started = cs.started /\ ds.done = cs.done
  /\ ds.gap = cs.gap /\ ds.gapSeq = cs.gapSeq
  /\ ds.completedSeq = cs.completedSeq
  /\ ds.epoch = cs.epoch /\ ds.gapCount = cs.gapCount /\ ds.dropped = cs.dropped
  /\ ds.unavailable = cs.unavailable /\ ds.ingested = cs.ingested /\ ds.acked = cs.acked
  /\ cs.gapFly = (cs.completedSeq + 1)..Front(cs) /\ Front(cs) = cs.gapFlySeq

\* completeGap, before it looks at the error
LEMMA GapFinished ==
  ASSUME NEW n \in 0..MaxSeq, NEW f, NEW cs \in ConsumerStates, Serving(n, f, cs), cs.gapFly # {},
         NEW ds, ds = [cs EXCEPT !.gapFly = {}, !.gapFlySeq = 0]
  PROVE  GapTaken(n, cs, ds)
<1>1. Tidy(cs) /\ Spans(cs) /\ Awaits(n, cs)
  BY DEF Serving
<1>2. cs.batch = {} /\ cs.inFlight = 0 /\ cs.inFlightLast = 0
  BY <1>1 DEF Tidy
<1>3. 0 \in 0..MaxSeq /\ {} \in SUBSET Seqs
  BY Bounds
<1>4. ds \in ConsumerStates
  BY <1>3 DEF ConsumerStates
<1>5. /\ ds.gapFly = {} /\ ds.gapFlySeq = 0
      /\ ds.inFlight = cs.inFlight /\ ds.inFlightLast = cs.inFlightLast /\ ds.batch = cs.batch
      /\ ds.pend = cs.pend /\ ds.next = cs.next
      /\ ds.active = cs.active /\ ds.started = cs.started /\ ds.done = cs.done
      /\ ds.gap = cs.gap /\ ds.gapSeq = cs.gapSeq /\ ds.completedSeq = cs.completedSeq
      /\ ds.epoch = cs.epoch /\ ds.gapCount = cs.gapCount /\ ds.dropped = cs.dropped
      /\ ds.unavailable = cs.unavailable /\ ds.ingested = cs.ingested /\ ds.acked = cs.acked
  BY DEF ConsumerStates
<1>6. cs.pend = (Back(cs) + 1)..n /\ cs.next = IF Back(cs) = n THEN 0 ELSE Back(cs) + 1
  BY <1>1, <1>2 DEF Awaits
<1>7. cs.gapFly = (cs.completedSeq + 1)..Front(cs)
  BY <1>1, <1>2 DEF Spans
<1>8. Front(cs) = cs.gapFlySeq
  BY DEF Front
<1> QED
  BY <1>2, <1>4, <1>5, <1>6, <1>7, <1>8 DEF GapTaken

\* completeGap without an error
LEMMA GapAcked ==
  ASSUME NEW n \in 0..MaxSeq, NEW f, NEW cs \in ConsumerStates, Serving(n, f, cs), cs.gapFly # {},
         NEW ds, ds = [cs EXCEPT !.gapFly = {}, !.gapFlySeq = 0],
         NEW es, es = [ds EXCEPT !.epoch = @ + 1, !.completedSeq = Max({@, cs.gapFlySeq}),
                                 !.acked = @ \cup cs.gapFly]
  PROVE  Progress(n, f, cs, es)
<1> DEFINE F == Front(cs)
           K == Back(cs)
<1>1. Tidy(cs) /\ Spans(cs) /\ Counts(f, cs) /\ Awaits(n, cs)
  BY DEF Serving
<1>2. /\ ds \in ConsumerStates /\ ds.gapFly = {} /\ ds.gapFlySeq = 0
      /\ ds.inFlight = 0 /\ ds.inFlightLast = 0 /\ ds.batch = {}
      /\ ds.pend = (K + 1)..n /\ ds.next = IF K = n THEN 0 ELSE K + 1
      /\ ds.active = cs.active /\ ds.started = cs.started /\ ds.done = cs.done
      /\ ds.gap = cs.gap /\ ds.gapSeq = cs.gapSeq /\ ds.completedSeq = cs.completedSeq
      /\ ds.epoch = cs.epoch /\ ds.gapCount = cs.gapCount /\ ds.dropped = cs.dropped
      /\ ds.unavailable = cs.unavailable /\ ds.ingested = cs.ingested /\ ds.acked = cs.acked
      /\ cs.gapFly = (cs.completedSeq + 1)..F /\ F = cs.gapFlySeq
  <2>1. GapTaken(n, cs, ds)
    BY GapFinished
  <2> QED
    BY <2>1 DEF GapTaken
<1>3. cs.ingested \cup cs.acked = 1..cs.completedSeq /\ cs.completedSeq <= F /\ F <= K
      /\ cs.gap = (F + 1)..K /\ K <= n
  BY <1>1 DEF Spans, Awaits
<1>4. F \in Nat /\ K \in Nat /\ cs.completedSeq \in Nat /\ F \in 0..MaxSeq
  BY Ends
<1>5. cs.epoch \in Nat /\ cs.acked \in SUBSET Seqs /\ cs.gapFly \in SUBSET Seqs /\ cs.gapCount \in Nat
  BY DEF ConsumerStates
<1> HIDE DEF F, K
<1>6. Max({cs.completedSeq, cs.gapFlySeq}) = F
  <2>1. {cs.completedSeq, cs.gapFlySeq} \in SUBSET Int /\ F \in {cs.completedSeq, cs.gapFlySeq}
        /\ \A x \in {cs.completedSeq, cs.gapFlySeq} : x <= F
    BY <1>2, <1>3, <1>4
  <2> QED
    BY <2>1, LargestIs
<1> DEFINE told == cs.acked \cup cs.gapFly
           e == cs.epoch + 1
<1>7. es = [ds EXCEPT !.epoch = e, !.completedSeq = F, !.acked = told]
  BY <1>2, <1>6 DEF ConsumerStates
<1>8. told \in SUBSET Seqs /\ e \in Nat
  BY <1>5
<1> HIDE DEF told, e
<1>9. es \in ConsumerStates
  <2>1. ds \in ConsumerStates
    BY <1>2
  <2> QED
    BY <1>4, <1>7, <1>8, <2>1 DEF ConsumerStates
<1>10. /\ es.gapFly = {} /\ es.gapFlySeq = 0
      /\ es.inFlight = 0 /\ es.inFlightLast = 0 /\ es.batch = {}
      /\ es.pend = ds.pend /\ es.next = ds.next
      /\ es.active = cs.active /\ es.started = cs.started /\ es.done = cs.done
      /\ es.gap = cs.gap /\ es.gapSeq = cs.gapSeq /\ es.completedSeq = F
      /\ es.epoch = e /\ es.gapCount = cs.gapCount /\ es.dropped = cs.dropped
      /\ es.unavailable = cs.unavailable /\ es.ingested = cs.ingested /\ es.acked = told
  BY <1>2, <1>7 DEF ConsumerStates
<1>11. Front(es) = F /\ Back(es) = K
  BY <1>10 DEF Front, Back, F, K
<1>12. Tidy(es)
  BY <1>1, <1>10 DEF Tidy
<1>13. Spans(es)
  <2>1. cs.ingested \cup told = 1..F
    BY <1>2, <1>3, <1>4 DEF told
  <2>2. (F + 1)..F = {} /\ F <= F
    BY <1>4
  <2> QED
    BY <1>3, <1>10, <1>11, <2>1, <2>2 DEF Spans
<1>14. Counts(f, es)
  <2>1. es.acked \cup es.gapFly \cup es.gap = cs.acked \cup cs.gapFly \cup cs.gap
    BY <1>10 DEF told
  <2>2. OpenGaps(cs) = OpenGaps(es) + 1 /\ OpenGaps(es) \in Nat
    BY <1>10 DEF OpenGaps
  <2>3. cs.gapCount = cs.epoch + OpenGaps(cs) /\ cs.dropped = Measure(f, cs.acked \cup cs.gapFly \cup cs.gap)
    BY <1>1 DEF Counts
  <2>4. es.gapCount = es.epoch + OpenGaps(es)
    BY <1>5, <1>10, <2>2, <2>3 DEF e
  <2> QED
    BY <1>10, <2>1, <2>3, <2>4 DEF Counts
<1>15. Awaits(n, es)
  <2>1. es.pend = es.batch \cup (K + 1)..n /\ es.next = IF K = n THEN 0 ELSE K + 1
    BY <1>2, <1>10
  <2> QED
    BY <1>3, <1>11, <2>1 DEF Awaits
<1> QED
  BY <1>2, <1>9, <1>10, <1>11, <1>12, <1>13, <1>14, <1>15 DEF Progress, Serving, F, K, told

\* completeGap with an error
LEMMA GapFailed ==
  ASSUME NEW B, NEW n \in 0..MaxSeq, NEW f, NEW cs \in ConsumerStates, Serving(n, f, cs), cs.gapFly # {},
         NEW ds, ds = [cs EXCEPT !.gapFly = {}, !.gapFlySeq = 0],
         NEW es, es = FailConsumer(B, ds, cs.gapFly)
  PROVE  Progress(n, f, cs, es) /\ es.unavailable
<1> DEFINE F == Front(cs)
           K == Back(cs)
<1>1. /\ ds \in ConsumerStates /\ ds.gapFly = {} /\ ds.inFlight = 0 /\ ds.batch = {}
      /\ ds.pend = (K + 1)..n /\ ds.next = IF K = n THEN 0 ELSE K + 1
      /\ ds.started = cs.started /\ ds.done = cs.done /\ ds.gap = cs.gap
      /\ ds.ingested = cs.ingested /\ ds.acked = cs.acked
      /\ cs.gapFly = (cs.completedSeq + 1)..F
  <2>1. GapTaken(n, cs, ds)
    BY GapFinished
  <2> QED
    BY <2>1 DEF GapTaken
<1>2. cs.completedSeq <= F /\ F <= K /\ K <= n /\ cs.gap = (F + 1)..K
  BY DEF Serving, Spans, Awaits
<1>3. F \in Nat /\ K \in Nat /\ cs.completedSeq \in Nat /\ n \in Nat
  BY Ends, Bounds
<1>4. cs.gapFly \in SUBSET Seqs
  BY DEF ConsumerStates
<1> HIDE DEF F, K
<1>5. GivesUp(n, ds, es, K, cs.gapFly)
  BY <1>1, <1>2, <1>3, <1>4, Fail
<1>6. cs.gapFly \cup cs.gap \cup (K + 1)..n = (cs.completedSeq + 1)..n
  BY <1>1, <1>2, <1>3
<1> QED
  BY <1>1, <1>5, <1>6 DEF Progress, Dead, GivesUp
-----------------------------------------------------------------------------
(* One buffer.                                                             *)

\* D is B with other consumer states and without the nodes nobody waits for.
Relinked(B, D, cons) ==
  /\ D \in BufferStates /\ Linked(D) /\ D.resident <= B.resident
  /\ D.cons = cons /\ D.size = B.size /\ D.nextSeq = B.nextSeq
  /\ D.closed = B.closed /\ D.sealed = B.sealed

\* reclaimLocked frees exactly the nodes that lost their last pending bit.
LEMMA Reclaimed ==
  ASSUME NEW B \in BufferStates, Linked(B), NEW cons \in [Consumers -> ConsumerStates],
         \A c \in Consumers : cons[c].pend \subseteq B.cons[c].pend,
         NEW A, A = [B EXCEPT !.cons = cons],
         NEW D, D = Reclaim(A)
  PROVE  Relinked(B, D, cons)
<1>1. A \in BufferStates
  BY DEF BufferStates
<1>2. /\ A.cons = cons /\ A.nodes = B.nodes /\ A.size = B.size /\ A.resident = B.resident
      /\ A.nextSeq = B.nextSeq /\ A.closed = B.closed /\ A.sealed = B.sealed
  BY DEF BufferStates
<1> DEFINE free == {n \in A.nodes : \A c \in Consumers : n \notin A.cons[c].pend}
           left == A.nodes \ free
           by == A.resident - Bytes(A, free)
<1>3. D = [A EXCEPT !.nodes = left, !.resident = by]
  BY <1>1 DEF Reclaim, BufferStates
<1>4. A.nodes \in SUBSET Seqs /\ free \in SUBSET Seqs /\ left \in SUBSET Seqs
  BY <1>1 DEF BufferStates
<1>5. \A c \in Consumers : cons[c].pend \subseteq A.nodes
  <2>1. B.nodes = UNION {B.cons[c].pend : c \in Consumers}
    BY DEF Linked
  <2> QED
    BY <1>2, <2>1
<1>6. left = UNION {cons[c].pend : c \in Consumers}
  BY <1>2, <1>5
<1>7. /\ Measure(A.size, A.nodes \ free) = Measure(A.size, A.nodes) - Measure(A.size, free)
      /\ Measure(A.size, A.nodes \ free) \in Nat /\ Measure(A.size, A.nodes) \in Nat
      /\ Measure(A.size, free) \in Nat
  <2>1. free \subseteq A.nodes
    OBVIOUS
  <2> HIDE DEF free
  <2> QED
    BY <1>4, <2>1, MeasureLess
<1>8. Bytes(A, free) = Measure(A.size, free)
  BY DEF Bytes, Measure
<1>9. A.resident = Measure(A.size, A.nodes)
  BY <1>2 DEF Linked
<1> HIDE DEF free
<1>10. by = Measure(A.size, left) /\ by \in Nat /\ by <= A.resident
  BY <1>7, <1>8, <1>9
<1> HIDE DEF left, by
<1>11. D \in BufferStates
  BY <1>1, <1>3, <1>4, <1>10 DEF BufferStates
<1>12. /\ D.nodes = left /\ D.resident = by /\ D.cons = cons /\ D.size = A.size
       /\ D.nextSeq = A.nextSeq /\ D.closed = A.closed /\ D.sealed = A.sealed
  BY <1>1, <1>2, <1>3 DEF BufferStates
<1>13. Linked(D)
  <2>1. D.nodes = UNION {D.cons[c].pend : c \in Consumers}
    BY <1>6, <1>12, Zenon
  <2>2. D.resident = Measure(D.size, D.nodes)
    BY <1>10, <1>12
  <2> QED
    BY <2>1, <2>2 DEF Linked
<1> QED
  BY <1>2, <1>10, <1>11, <1>12, <1>13 DEF Relinked

\* A consumer waits only for chunks that have been written.
LEMMA PendingWritten ==
  ASSUME NEW B \in BufferStates, NEW c \in Consumers, ConsumerOK(B, c)
  PROVE  B.cons[c].pend \subseteq 1..B.nextSeq /\ B.cons[c] \in ConsumerStates /\ B.nextSeq \in Nat
         /\ B.nextSeq \in 0..MaxSeq
<1> DEFINE cs == B.cons[c]
           n == B.nextSeq
<1>1. cs \in ConsumerStates /\ n \in 0..MaxSeq /\ n \in Nat
  BY Bounds DEF BufferStates
<1>2. CASE c \in Enabled /\ ~cs.unavailable
  <2>1. Spans(cs) /\ Awaits(n, cs)
    BY <1>2 DEF ConsumerOK, Serving
  <2>2. Front(cs) \in Nat /\ Back(cs) \in Nat /\ cs.completedSeq \in Nat
    BY <1>1, Ends
  <2>3. cs.batch \subseteq (cs.completedSeq + 1)..Front(cs) /\ Front(cs) <= Back(cs) /\ Back(cs) <= n
        /\ cs.pend = cs.batch \cup (Back(cs) + 1)..n
    BY <2>1 DEF Spans, Awaits
  <2> HIDE DEF cs, n
  <2>4. \A m \in cs.pend : m \in 1..n
    BY <1>1, <2>2, <2>3
  <2> QED
    BY <1>1, <2>4 DEF cs, n
<1>3. CASE ~(c \in Enabled /\ ~cs.unavailable)
  <2>1. cs.pend = {}
    BY <1>3 DEF ConsumerOK, Dead
  <2> QED
    BY <1>1, <2>1
<1> QED
  BY <1>2, <1>3

\* The next sequence number is given to a chunk that nobody holds yet.
LEMMA SeqTaken ==
  ASSUME NEW B \in BufferStates, Linked(B), \A c \in Consumers : ConsumerOK(B, c),
         B.nextSeq < MaxSeq, NEW bytes \in 0..ChunkBytes, NEW A, A = TakeSeq(B, bytes)
  PROVE  /\ A \in BufferStates /\ Linked(A) /\ A.nextSeq = B.nextSeq + 1
         /\ A.cons = B.cons /\ A.nodes = B.nodes /\ A.resident = B.resident
         /\ A.closed = B.closed /\ A.sealed = B.sealed
         /\ A.size[B.nextSeq + 1] = bytes /\ \A s \in 1..B.nextSeq : B.size[s] = A.size[s]
<1> DEFINE n == B.nextSeq
           f == [B.size EXCEPT ![n + 1] = bytes]
<1>1. n \in Nat /\ n + 1 \in Seqs /\ n + 1 \in 0..MaxSeq /\ B.size \in [Seqs -> 0..ChunkBytes]
  BY Bounds DEF BufferStates, Seqs
<1>2. f \in [Seqs -> 0..ChunkBytes] /\ f[n + 1] = bytes
  BY <1>1
<1>3. \A s \in 1..n : B.size[s] = f[s]
  <2>1. \A s \in 1..n : s \in Seqs /\ s # n + 1
    BY <1>1, Bounds DEF Seqs
  <2> QED
    BY <1>1, <2>1
<1>4. A = [B EXCEPT !.nextSeq = n + 1, !.size = f]
  BY DEF TakeSeq, BufferStates
<1> HIDE DEF f
<1>5. A \in BufferStates
  BY <1>1, <1>2, <1>4 DEF BufferStates
<1>6. /\ A.nextSeq = n + 1 /\ A.size = f /\ A.cons = B.cons /\ A.nodes = B.nodes
      /\ A.resident = B.resident /\ A.closed = B.closed /\ A.sealed = B.sealed
  BY <1>4 DEF BufferStates
<1>7. Linked(A)
  <2>1. B.nodes = UNION {B.cons[c].pend : c \in Consumers} /\ B.resident = Measure(B.size, B.nodes)
    BY DEF Linked
  <2>2. \A s \in B.nodes : s \in 1..n
    BY <2>1, PendingWritten
  <2>3. \A s \in B.nodes : B.size[s] = f[s]
    BY <1>3, <2>2
  <2>4. Measure(B.size, B.nodes) = Measure(f, B.nodes)
    BY <2>3, MeasureSame
  <2> QED
    BY <1>6, <2>1, <2>4 DEF Linked
<1> QED
  BY <1>2, <1>3, <1>5, <1>6, <1>7

\* D is B after queued chunks of its consumers were dropped.
Dropped(B, D) ==
  /\ BufferOK(D) /\ D.resident <= B.resident
  /\ D.nextSeq = B.nextSeq /\ D.closed = B.closed /\ D.sealed = B.sealed
  /\ \A c \in Consumers : Kept(B.cons[c], D.cons[c])

\* dropOldestLocked
LEMMA OldestDropped ==
  ASSUME NEW B, BufferOK(B), NEW required \in Int, NEW D, D = DropOldest(B, required)
  PROVE  Dropped(B, D)
<1> DEFINE V == Oldest(B, required)
           D0(cs) == V \cap Queued(cs)
           ds(cs) == DropQueued(B, cs, D0(cs))
           es(cs) == [ds(cs) EXCEPT !.next = IF @ \in D0(cs) THEN FirstAfter(ds(cs).pend, @) ELSE @]
           cons == [c \in Consumers |-> es(B.cons[c])]
<1>1. B \in BufferStates /\ Linked(B) /\ \A c \in Consumers : ConsumerOK(B, c)
  BY DEF BufferOK
<1>2. D = Reclaim([B EXCEPT !.cons = cons])
  BY DEF DropOldest
<1>3. B.nodes \in SUBSET Nat
  BY <1>1, Bounds DEF BufferStates, Seqs
<1>4. \A x \in B.nodes, y \in V : x <= y => x \in V
  <2> DEFINE emptied(n) == {m \in B.nodes : m <= n /\ \A c \in Consumers :
                              ~(m \in B.cons[c].pend /\ InFlight(B.cons[c], m))}
             Few(n) == Bytes(B, emptied(n)) < required
  <2>1. V = {n \in B.nodes : \A m \in B.nodes : m < n => Few(m)}
    BY DEF Oldest
  <2> HIDE DEF V, Few
  <2> SUFFICES ASSUME NEW x \in B.nodes, NEW y \in V, x <= y PROVE x \in V
    OBVIOUS
  <2>2. y \in B.nodes /\ \A m \in B.nodes : m < y => Few(m)
    BY <2>1
  <2>3. \A m \in B.nodes : m < x => m < y
    BY <1>3, <2>2
  <2> QED
    BY <2>1, <2>2, <2>3
<1> HIDE DEF V
<1>5. ASSUME NEW c \in Consumers
      PROVE  /\ cons[c] \in ConsumerStates /\ Kept(B.cons[c], cons[c])
             /\ cons[c].pend \subseteq B.cons[c].pend
             /\ IF c \in Enabled /\ ~cons[c].unavailable
                THEN /\ Serving(B.nextSeq, B.size, cons[c]) /\ (cons[c].active <=> ~B.closed)
                     /\ B.closed => Back(cons[c]) = B.nextSeq
                ELSE Dead(cons[c])
  <2> DEFINE cs == B.cons[c]
  <2>1. cs \in ConsumerStates /\ ConsumerOK(B, c) /\ cons[c] = es(cs)
    BY <1>1 DEF BufferStates
  <2>2. CASE c \in Enabled /\ ~cs.unavailable
    <3>1. Serving(B.nextSeq, B.size, cs) /\ (cs.active <=> ~B.closed) /\ (B.closed => Back(cs) = B.nextSeq)
      BY <2>1, <2>2 DEF ConsumerOK
    <3>2. Queued(cs) \subseteq B.nodes
      BY <1>1 DEF Linked, Queued
    <3>3. \A x \in Queued(cs), y \in V \cap Queued(cs) : x <= y => x \in V
      BY <1>4, <3>2
    <3> HIDE DEF cs
    <3>4. \E k \in Nat : Back(cs) <= k /\ k <= B.nextSeq /\ Drops(B.nextSeq, B.size, cs, es(cs), k)
      BY <1>1, <2>1, <3>1, <3>3, DropVisited
    <3>5. PICK k \in Nat : Back(cs) <= k /\ k <= B.nextSeq /\ Drops(B.nextSeq, B.size, cs, es(cs), k)
      BY <3>4
    <3> HIDE DEF es
    <3>6. /\ es(cs) \in ConsumerStates /\ Kept(cs, es(cs)) /\ Serving(B.nextSeq, B.size, es(cs))
          /\ Back(es(cs)) = k /\ es(cs).pend = cs.pend \ ((Back(cs) + 1)..k)
      BY <3>5 DEF Drops
    <3>7. es(cs).unavailable = cs.unavailable /\ es(cs).active = cs.active
      BY <3>6 DEF Kept
    <3>8. B.closed => k = B.nextSeq
      <4>1. B.nextSeq \in Nat
        BY <1>1, Bounds DEF BufferStates
      <4> QED
        BY <3>1, <3>5, <4>1
    <3> QED
      BY <2>1, <2>2, <3>1, <3>6, <3>7, <3>8 DEF cs
  <2>3. CASE ~(c \in Enabled /\ ~cs.unavailable)
    <3>1. Dead(cs)
      BY <2>1, <2>3 DEF ConsumerOK
    <3>2. D0(cs) = {}
      BY <3>1 DEF Dead, Queued
    <3>3. ds(cs) = cs
      BY <3>2 DEF DropQueued
    <3> HIDE DEF cs
    <3>4. es(cs) = cs
      BY <2>1, <3>2, <3>3 DEF ConsumerStates
    <3> QED
      BY <2>1, <2>3, <3>1, <3>4 DEF Kept, cs
  <2> QED
    BY <2>2, <2>3
<1> DEFINE A == [B EXCEPT !.cons = cons]
<1>6. cons \in [Consumers -> ConsumerStates]
  BY <1>5
<1>7. D = Reclaim(A)
  BY <1>2
<1> HIDE DEF cons
<1>8. Relinked(B, D, cons)
  BY <1>1, <1>5, <1>6, <1>7, Reclaimed
<1>9. \A c \in Consumers : ConsumerOK(D, c)
  BY <1>5, <1>8 DEF ConsumerOK, Relinked
<1> QED
  BY <1>5, <1>8, <1>9 DEF Dropped, BufferOK, Relinked

\* D is B after one more chunk, dropped by every active consumer with a gap.
Grown(B, D) ==
  /\ BufferOK(D) /\ D.nextSeq = B.nextSeq + 1 /\ D.closed = B.closed /\ D.sealed = B.sealed
  /\ \A c \in Consumers : Kept(B.cons[c], D.cons[c])

\* What either way of dropping the incoming chunk needs of one consumer.
NewDropped(B, A, c, es) ==
  /\ es \in ConsumerStates /\ Kept(B.cons[c], es) /\ es.pend \subseteq B.cons[c].pend
  /\ IF c \in Enabled /\ ~es.unavailable
     THEN Serving(A.nextSeq, A.size, es) /\ es.active
     ELSE Dead(es)

\* The chunk joins the gap of an active consumer.
LEMMA JoinsGap ==
  ASSUME NEW B, BufferOK(B), ~B.closed, B.nextSeq < MaxSeq, NEW bytes \in 0..ChunkBytes,
         NEW A, A = TakeSeq(B, bytes), NEW c \in Consumers, B.cons[c].active,
         NEW ds, ds = DropQueued(A, B.cons[c], Queued(B.cons[c]) \cup {A.nextSeq}),
         NEW x \in 0..MaxSeq, B.cons[c].inFlight = 0 => x = 0,
         NEW es, es = [ds EXCEPT !.next = x]
  PROVE  NewDropped(B, A, c, es)
<1> DEFINE cs == B.cons[c]
           n == B.nextSeq
<1>1. B \in BufferStates /\ Linked(B) /\ \A d \in Consumers : ConsumerOK(B, d)
  BY DEF BufferOK
<1>2. n \in Nat /\ n < MaxSeq /\ cs \in ConsumerStates
  BY <1>1, Bounds DEF BufferStates
<1>3. /\ A \in BufferStates /\ A.nextSeq = n + 1
      /\ \A s \in 1..n : B.size[s] = A.size[s]
  BY <1>1, SeqTaken
<1>4. c \in Enabled /\ ~cs.unavailable /\ Serving(n, B.size, cs)
  BY <1>1 DEF ConsumerOK, Dead
<1>5. A.size \in [Seqs -> 0..ChunkBytes]
  BY <1>3 DEF BufferStates
<1>6. ds = DropQueued(A, cs, Queued(cs) \cup {n + 1})
  BY <1>3
<1> HIDE DEF cs, n
<1>7. Drops(n + 1, A.size, cs, es, n + 1)
  BY <1>2, <1>3, <1>4, <1>5, <1>6, DropNew DEF cs
<1>8. /\ es \in ConsumerStates /\ Kept(cs, es) /\ Serving(n + 1, A.size, es) /\ es.pend \subseteq cs.pend
  BY <1>7 DEF Drops
<1>9. es.active /\ ~es.unavailable
  BY <1>4, <1>8 DEF Kept, cs
<1> QED
  BY <1>3, <1>4, <1>8, <1>9 DEF NewDropped, cs, n

\* dropIncomingLocked
LEMMA IncomingDropped ==
  ASSUME NEW B, BufferOK(B), ~B.closed, B.nextSeq < MaxSeq, NEW bytes \in 0..ChunkBytes,
         NEW D, D = DropIncoming(B, bytes)
  PROVE  Grown(B, D) /\ D.resident <= B.resident
<1> DEFINE A == TakeSeq(B, bytes)
           ds(cs) == DropQueued(A, cs, Queued(cs) \cup {A.nextSeq})
           es(cs) == [ds(cs) EXCEPT !.next = 0]
           cons == [c \in Consumers |-> IF A.cons[c].active THEN es(A.cons[c]) ELSE A.cons[c]]
<1>1. B \in BufferStates /\ Linked(B) /\ \A d \in Consumers : ConsumerOK(B, d)
  BY DEF BufferOK
<1>2. /\ A \in BufferStates /\ Linked(A) /\ A.nextSeq = B.nextSeq + 1 /\ A.cons = B.cons
      /\ A.resident = B.resident /\ A.closed = B.closed /\ A.sealed = B.sealed
  BY <1>1, SeqTaken
<1>3. D = Reclaim([A EXCEPT !.cons = cons])
  BY DEF DropIncoming
<1>4. \A c \in Consumers : B.cons[c] \in ConsumerStates
  BY <1>1 DEF BufferStates
<1>5. ASSUME NEW c \in Consumers PROVE NewDropped(B, A, c, cons[c])
  <2>1. cons[c] = IF B.cons[c].active THEN es(B.cons[c]) ELSE B.cons[c]
    BY <1>2
  <2> HIDE DEF A
  <2>2. CASE B.cons[c].active
    <3>1. 0 \in 0..MaxSeq
      BY Bounds
    <3>2. NewDropped(B, A, c, es(B.cons[c]))
      BY <2>2, <3>1, JoinsGap DEF A
    <3> QED
      BY <2>1, <2>2, <3>2
  <2>3. CASE ~B.cons[c].active
    <3>1. Dead(B.cons[c]) /\ ~(c \in Enabled /\ ~B.cons[c].unavailable)
      BY <1>1, <2>3 DEF ConsumerOK
    <3> QED
      BY <1>4, <2>1, <2>3, <3>1 DEF NewDropped, Kept
  <2> QED
    BY <2>2, <2>3
<1> DEFINE A1 == [A EXCEPT !.cons = cons]
<1>6. cons \in [Consumers -> ConsumerStates] /\ \A c \in Consumers : cons[c].pend \subseteq A.cons[c].pend
  BY <1>2, <1>5 DEF NewDropped
<1>7. D = Reclaim(A1)
  BY <1>3
<1> HIDE DEF cons, A
<1>8. Relinked(A, D, cons)
  BY <1>2, <1>6, <1>7, Reclaimed
<1>9. \A c \in Consumers : ConsumerOK(D, c)
  BY <1>2, <1>5, <1>8 DEF ConsumerOK, Relinked, NewDropped
<1> QED
  BY <1>2, <1>5, <1>8, <1>9 DEF Grown, BufferOK, Relinked, NewDropped

\* writeChunk after reserve returned true: the chunk joins the gap of the
\* consumers that have one and is linked for the others.
LEMMA ChunkAppended ==
  ASSUME NEW B, BufferOK(B), ~B.closed, B.nextSeq < MaxSeq, NEW bytes \in 0..ChunkBytes,
         NEW A, A = AssignChunk(B, bytes),
         NEW mask, mask = {c \in Consumers : B.cons[c].active /\ ~Gapped(B.cons[c])},
         NEW D, D = LinkNode(A, mask)
  PROVE  /\ Grown(B, D)
         /\ A.resident \in Nat /\ A.resident <= B.resident
         /\ D.resident = A.resident + IF mask = {} THEN 0 ELSE bytes
         /\ \A c \in mask : D.cons[c].gap = B.cons[c].gap
<1> DEFINE T == TakeSeq(B, bytes)
           n == B.nextSeq
           s == n + 1
           ds(cs) == DropQueued(T, cs, Queued(cs) \cup {T.nextSeq})
           es(cs) == IF cs.inFlight = 0 THEN [ds(cs) EXCEPT !.next = 0] ELSE ds(cs)
           cons == [c \in Consumers |-> IF T.cons[c].active /\ Gapped(T.cons[c]) THEN es(T.cons[c]) ELSE T.cons[c]]
<1>1. B \in BufferStates /\ Linked(B) /\ \A d \in Consumers : ConsumerOK(B, d)
  BY DEF BufferOK
<1>2. /\ T \in BufferStates /\ Linked(T) /\ T.nextSeq = s /\ T.cons = B.cons
      /\ T.resident = B.resident /\ T.closed = B.closed /\ T.sealed = B.sealed
      /\ T.size[s] = bytes /\ \A q \in 1..n : B.size[q] = T.size[q]
  BY <1>1, SeqTaken
<1>3. A = Reclaim([T EXCEPT !.cons = cons])
  BY DEF AssignChunk
<1>4. \A c \in Consumers : B.cons[c] \in ConsumerStates /\ B.cons[c].pend \subseteq 1..n
  BY <1>1, PendingWritten
<1>5. n \in Nat /\ s \in Seqs /\ s \in 0..MaxSeq /\ n < MaxSeq
  BY <1>1, Bounds DEF BufferStates, Seqs
<1> HIDE DEF T
<1>6. ASSUME NEW c \in Consumers, c \notin mask PROVE NewDropped(B, T, c, cons[c])
  <2> DEFINE cs == B.cons[c]
  <2>1. cons[c] = IF cs.active /\ Gapped(cs) THEN es(cs) ELSE cs
    BY <1>2
  <2>2. CASE cs.active
    <3>1. cons[c] = es(cs)
      BY <1>6, <2>1, <2>2
    <3>2. CASE cs.inFlight = 0
      <4>1. 0 \in 0..MaxSeq
        BY Bounds
      <4>2. NewDropped(B, T, c, [ds(cs) EXCEPT !.next = 0])
        BY <2>2, <3>2, <4>1, JoinsGap DEF T
      <4> QED
        BY <3>1, <3>2, <4>2
    <3>3. CASE cs.inFlight # 0
      <4> DEFINE x == cs.next
      <4>1. x \in 0..MaxSeq
        BY <1>4 DEF ConsumerStates
      <4>2. ds(cs) = [ds(cs) EXCEPT !.next = x]
        <5> DEFINE D0 == Queued(cs) \cup {T.nextSeq}
                   p == cs.pend \ D0
                   k == IF cs.gap = {} THEN cs.gapCount + 1 ELSE cs.gapCount
                   g == cs.gap \cup D0
                   q == Max(D0 \cup {cs.gapSeq})
                   r == cs.dropped + Bytes(T, D0)
        <5>1. ds(cs) = [cs EXCEPT !.pend = p, !.gapCount = k, !.gap = g, !.gapSeq = q, !.dropped = r]
          BY DEF DropQueued
        <5>2. cs \in ConsumerStates
          BY <1>4
        <5> HIDE DEF ds, p, k, g, q, r, cs
        <5> QED
          BY <5>1, <5>2 DEF ConsumerStates
      <4> HIDE DEF ds
      <4>4. NewDropped(B, T, c, [ds(cs) EXCEPT !.next = x])
        BY <2>2, <3>3, <4>1, JoinsGap DEF T, ds
      <4> QED
        BY <3>1, <3>3, <4>2, <4>4
    <3> QED
      BY <3>2, <3>3
  <2>3. CASE ~cs.active
    <3>1. Dead(cs) /\ ~(c \in Enabled /\ ~cs.unavailable)
      BY <1>1, <2>3 DEF ConsumerOK
    <3> QED
      BY <1>4, <2>1, <2>3, <3>1 DEF NewDropped, Kept
  <2> QED
    BY <2>2, <2>3
<1>7. ASSUME NEW c \in mask PROVE cons[c] = B.cons[c] /\ c \in Consumers
  BY <1>2
<1> DEFINE T1 == [T EXCEPT !.cons = cons]
<1>8. /\ cons \in [Consumers -> ConsumerStates]
      /\ \A c \in Consumers : cons[c].pend \subseteq T.cons[c].pend
  <2>1. \A c \in Consumers : cons[c] \in ConsumerStates /\ cons[c].pend \subseteq B.cons[c].pend
    <3> SUFFICES ASSUME NEW c \in Consumers
                 PROVE  cons[c] \in ConsumerStates /\ cons[c].pend \subseteq B.cons[c].pend
      OBVIOUS
    <3> HIDE DEF cons
    <3>1. CASE c \in mask
      BY <1>4, <1>7, <3>1
    <3>2. CASE c \notin mask
      BY <1>6, <3>2 DEF NewDropped
    <3> QED
      BY <3>1, <3>2
  <2> QED
    BY <1>2, <2>1
<1>9. A = Reclaim(T1)
  BY <1>3
<1> HIDE DEF cons
<1>10. Relinked(T, A, cons)
  BY <1>2, <1>8, <1>9, Reclaimed
<1>11. /\ A \in BufferStates /\ Linked(A) /\ A.resident <= B.resident /\ A.cons = cons
       /\ A.size = T.size /\ A.nextSeq = s /\ A.closed = B.closed /\ A.sealed = B.sealed
       /\ A.resident \in Nat
  BY <1>2, <1>10 DEF Relinked, BufferStates
<1>12. CASE mask = {}
  <2>1. D = A
    BY <1>12 DEF LinkNode
  <2>2. \A c \in Consumers : ConsumerOK(D, c)
    BY <1>2, <1>6, <1>11, <1>12, <2>1 DEF ConsumerOK, NewDropped
  <2>3. \A c \in Consumers : Kept(B.cons[c], D.cons[c])
    BY <1>6, <1>11, <1>12, <2>1 DEF NewDropped
  <2> QED
    BY <1>5, <1>11, <1>12, <2>1, <2>2, <2>3 DEF Grown, BufferOK
<1>13. CASE mask # {}
  <2> DEFINE link(cs) == [cs EXCEPT !.pend = @ \cup {s}, !.next = IF @ = 0 /\ cs.inFlight = 0 THEN s ELSE @]
             linked == [c \in Consumers |-> IF c \in mask THEN link(A.cons[c]) ELSE A.cons[c]]
             nodes == A.nodes \cup {s}
             sum == A.resident + bytes
  <2>1. D = [A EXCEPT !.nodes = nodes, !.resident = sum, !.cons = linked]
    BY <1>2, <1>11, <1>13 DEF LinkNode, BufferStates
  <2>2. ASSUME NEW c \in mask
        PROVE  /\ linked[c] \in ConsumerStates /\ Kept(B.cons[c], linked[c])
               /\ Serving(s, T.size, linked[c]) /\ linked[c].gap = B.cons[c].gap
               /\ linked[c].pend = cons[c].pend \cup {s}
               /\ c \in Enabled /\ ~linked[c].unavailable /\ linked[c].active
    <3> DEFINE cs == B.cons[c]
               ls == link(cs)
    <3>1. c \in Consumers /\ cs.active /\ linked[c] = ls /\ cons[c] = cs
      BY <1>7, <1>11
    <3>2. c \in Enabled /\ ~cs.unavailable /\ Serving(n, B.size, cs)
      BY <1>1, <3>1 DEF ConsumerOK, Dead
    <3>3. ls = [cs EXCEPT !.pend = @ \cup {n + 1}, !.next = IF @ = 0 /\ cs.inFlight = 0 THEN n + 1 ELSE @]
      OBVIOUS
    <3> HIDE DEF link, cs, ls, s
    <3>4. Queues(n, T.size, cs, ls)
      <4>1. cs \in ConsumerStates /\ \A q \in 1..n : B.size[q] = T.size[q]
        BY <1>2, <1>4, <3>1 DEF cs
      <4> HIDE DEF n, T
      <4> QED
        BY <1>5, <3>2, <3>3, <4>1, Link
    <3>5. ~ls.unavailable /\ ls.active
      BY <3>1, <3>2, <3>4 DEF Kept, Queues
    <3> QED
      BY <3>1, <3>2, <3>4, <3>5 DEF Queues, cs, s
  <2>3. ASSUME NEW c \in Consumers, c \notin mask PROVE linked[c] = cons[c]
    BY <1>11, <2>3
  <2>4. linked \in [Consumers -> ConsumerStates]
    <3>1. \A c \in Consumers : linked[c] \in ConsumerStates
      BY <1>8, <2>2, <2>3
    <3> QED
      BY <3>1
  <2>5. A.nodes \in SUBSET Seqs /\ s \notin A.nodes
    <3>1. A.nodes \in SUBSET Seqs /\ A.nodes = UNION {cons[c].pend : c \in Consumers}
      BY <1>11 DEF BufferStates, Linked
    <3>2. \A c \in Consumers : s \notin cons[c].pend
      BY <1>2, <1>4, <1>5, <1>8
    <3> QED
      BY <3>1, <3>2
  <2>6. nodes = UNION {linked[c].pend : c \in Consumers}
    <3>1. A.nodes = UNION {cons[c].pend : c \in Consumers}
      BY <1>11 DEF Linked
    <3>2. PICK d \in mask : TRUE
      BY <1>13
    <3>3. d \in Consumers /\ s \in linked[d].pend
      BY <1>7, <2>2
    <3> HIDE DEF linked
    <3>4. \A c \in Consumers : cons[c].pend \subseteq linked[c].pend /\ linked[c].pend \subseteq cons[c].pend \cup {s}
      BY <2>2, <2>3
    <3> QED
      BY <3>1, <3>3, <3>4
  <2>7. sum = Measure(T.size, nodes) /\ sum \in Nat
    <3>1. A.resident = Measure(T.size, A.nodes)
      BY <1>11 DEF Linked
    <3>2. Measure(T.size, {s}) = bytes
      <4>1. T.size \in [Seqs -> 0..ChunkBytes]
        BY <1>2 DEF BufferStates
      <4> QED
        BY <1>2, <1>5, <4>1, MeasureSingle
    <3>3. {s} \in SUBSET Seqs /\ A.nodes \cap {s} = {}
      BY <1>5, <2>5
    <3>4. Measure(T.size, A.nodes \cup {s}) = Measure(T.size, A.nodes) + Measure(T.size, {s})
      BY <2>5, <3>3, MeasureUnion
    <3> QED
      BY <1>11, <3>1, <3>2, <3>4, Bounds
  <2>8. nodes \in SUBSET Seqs
    BY <1>5, <2>5
  <2> HIDE DEF linked, nodes, sum, s
  <2>9. D \in BufferStates
    BY <1>11, <2>1, <2>4, <2>7, <2>8 DEF BufferStates
  <2>10. /\ D.nodes = nodes /\ D.resident = sum /\ D.cons = linked /\ D.size = A.size
         /\ D.nextSeq = A.nextSeq /\ D.closed = A.closed /\ D.sealed = A.sealed
    BY <1>11, <2>1 DEF BufferStates
  <2>11. Linked(D)
    <3>1. D.nodes = UNION {D.cons[c].pend : c \in Consumers}
      BY <2>6, <2>10, Zenon
    <3>2. D.resident = Measure(D.size, D.nodes)
      BY <1>11, <2>7, <2>10
    <3> QED
      BY <3>1, <3>2 DEF Linked
  <2>12. ASSUME NEW c \in Consumers PROVE ConsumerOK(D, c) /\ Kept(B.cons[c], D.cons[c])
    <3>1. CASE c \in mask
      BY <1>11, <2>2, <2>10, <3>1 DEF ConsumerOK
    <3>2. CASE c \notin mask
      <4>1. NewDropped(B, T, c, D.cons[c])
        BY <1>6, <2>3, <2>10, <3>2
      <4> QED
        BY <1>2, <1>11, <2>10, <4>1 DEF ConsumerOK, NewDropped
    <3> QED
      BY <3>1, <3>2
  <2>13. \A c \in mask : D.cons[c].gap = B.cons[c].gap
    BY <2>2, <2>10
  <2> QED
    BY <1>11, <1>13, <2>9, <2>10, <2>11, <2>12, <2>13 DEF Grown, BufferOK, s, sum
<1> QED
  BY <1>12, <1>13

\* ds is cs but for its life: active, started, done and the error.
Alike(cs, ds) ==
  /\ ds.next = cs.next /\ ds.pend = cs.pend /\ ds.inFlight = cs.inFlight
  /\ ds.inFlightLast = cs.inFlightLast /\ ds.batch = cs.batch /\ ds.gap = cs.gap
  /\ ds.gapSeq = cs.gapSeq /\ ds.gapFly = cs.gapFly /\ ds.gapFlySeq = cs.gapFlySeq
  /\ ds.completedSeq = cs.completedSeq /\ ds.epoch = cs.epoch /\ ds.gapCount = cs.gapCount
  /\ ds.dropped = cs.dropped /\ ds.ingested = cs.ingested /\ ds.acked = cs.acked

\* Starting, ending and closing do not move the stream.
LEMMA AlikeServes ==
  ASSUME NEW n, NEW f, NEW cs, NEW ds, Alike(cs, ds)
  PROVE  Front(ds) = Front(cs) /\ Back(ds) = Back(cs) /\ (Serving(n, f, cs) => Serving(n, f, ds))
<1>1. Front(ds) = Front(cs) /\ Back(ds) = Back(cs)
  BY DEF Front, Back, Alike
<1>2. Tidy(cs) => Tidy(ds)
  BY DEF Tidy, Alike
<1>3. Spans(cs) => Spans(ds)
  BY <1>1 DEF Spans, Alike
<1>4. Counts(f, cs) => Counts(f, ds)
  BY DEF Counts, OpenGaps, Alike
<1>5. Awaits(n, cs) => Awaits(n, ds)
  BY <1>1 DEF Awaits, Alike
<1> QED
  BY <1>1, <1>2, <1>3, <1>4, <1>5 DEF Serving

\* Close: every consumer ends, with all it was owed in its gap.
LEMMA BufferClosed ==
  ASSUME NEW B, BufferOK(B), ~B.closed, NEW D, D = CloseBuffer(B)
  PROVE  /\ BufferOK(D) /\ D.resident <= B.resident /\ D.nextSeq = B.nextSeq
         /\ D.closed /\ D.sealed = B.sealed
         /\ \A c \in Consumers :
              /\ D.cons[c].inFlight = B.cons[c].inFlight /\ D.cons[c].gapFly = B.cons[c].gapFly
              /\ D.cons[c].completedSeq = B.cons[c].completedSeq
              /\ D.cons[c].unavailable = B.cons[c].unavailable
              /\ D.cons[c].ingested = B.cons[c].ingested /\ D.cons[c].acked = B.cons[c].acked
              /\ B.cons[c].done => D.cons[c].done
<1> DEFINE ds(cs) == DropQueued(B, cs, Queued(cs))
           drop(cs) == IF cs.active THEN [ds(cs) EXCEPT !.next = 0] ELSE cs
           shut(cs) == [drop(cs) EXCEPT !.active = FALSE, !.done = @ \/ ~cs.started]
           cons == [c \in Consumers |-> shut(B.cons[c])]
           B1 == [B EXCEPT !.closed = TRUE]
           A == [B1 EXCEPT !.cons = cons]
<1>1. B \in BufferStates /\ Linked(B) /\ \A d \in Consumers : ConsumerOK(B, d)
  BY DEF BufferOK
<1>2. D = Reclaim([B EXCEPT !.closed = TRUE, !.cons = cons])
  BY DEF CloseBuffer
<1>3. ASSUME NEW c \in Consumers
      PROVE  /\ cons[c] \in ConsumerStates /\ cons[c].pend \subseteq B.cons[c].pend
             /\ cons[c].inFlight = B.cons[c].inFlight /\ cons[c].gapFly = B.cons[c].gapFly
             /\ cons[c].completedSeq = B.cons[c].completedSeq
             /\ cons[c].unavailable = B.cons[c].unavailable
             /\ cons[c].ingested = B.cons[c].ingested /\ cons[c].acked = B.cons[c].acked
             /\ B.cons[c].done => cons[c].done
             /\ ~cons[c].active
             /\ IF c \in Enabled /\ ~cons[c].unavailable
                THEN Serving(B.nextSeq, B.size, cons[c]) /\ Back(cons[c]) = B.nextSeq
                ELSE Dead(cons[c])
  <2> DEFINE cs == B.cons[c]
             es == drop(cs)
             ss == shut(cs)
             fin == es.done \/ ~cs.started
             no == FALSE
  <2>1. cs \in ConsumerStates /\ cons[c] = ss
    BY <1>1 DEF BufferStates
  <2>2. /\ es \in ConsumerStates /\ es.pend \subseteq cs.pend /\ Kept(cs, es)
        /\ IF c \in Enabled /\ ~es.unavailable
           THEN Serving(B.nextSeq, B.size, es) /\ Back(es) = B.nextSeq
           ELSE Dead(es)
    <3>1. CASE cs.active
      <4>1. c \in Enabled /\ ~cs.unavailable /\ Serving(B.nextSeq, B.size, cs)
        BY <1>1, <3>1 DEF ConsumerOK, Dead
      <4>2. es = [ds(cs) EXCEPT !.next = 0]
        BY <3>1
      <4> HIDE DEF cs, es
      <4>3. Drops(B.nextSeq, B.size, cs, es, B.nextSeq)
        BY <1>1, <2>1, <4>1, <4>2, DropAll
      <4>4. es.unavailable = cs.unavailable
        BY <4>3 DEF Drops, Kept
      <4> QED
        BY <4>1, <4>3, <4>4 DEF Drops
    <3>2. CASE ~cs.active
      <4>1. Dead(cs) /\ ~(c \in Enabled /\ ~cs.unavailable)
        BY <1>1, <3>2 DEF ConsumerOK
      <4> QED
        BY <2>1, <3>2, <4>1 DEF Kept
    <3> QED
      BY <3>1, <3>2
  <2> HIDE DEF cs, es
  <2>3. ss = [es EXCEPT !.active = no, !.done = fin]
    BY <2>2 DEF ConsumerStates, es
  <2>4. fin \in BOOLEAN /\ no \in BOOLEAN
    OBVIOUS
  <2> HIDE DEF ss, fin, no
  <2>5. ss \in ConsumerStates
    BY <2>2, <2>3, <2>4 DEF ConsumerStates
  <2>6. Alike(es, ss) /\ ss.active = no /\ ss.done = fin /\ ss.unavailable = es.unavailable
    BY <2>2, <2>3 DEF ConsumerStates, Alike
  <2>7. ~ss.active /\ (cs.done => ss.done)
    BY <2>2, <2>6 DEF Kept, no, fin
  <2>8. IF c \in Enabled /\ ~ss.unavailable
        THEN Serving(B.nextSeq, B.size, ss) /\ Back(ss) = B.nextSeq
        ELSE Dead(ss)
    <3>1. Back(ss) = Back(es) /\ (Serving(B.nextSeq, B.size, es) => Serving(B.nextSeq, B.size, ss))
      BY <2>6, AlikeServes
    <3>2. Dead(es) => Dead(ss)
      BY <2>6, <2>7 DEF Dead, Alike
    <3> QED
      BY <2>2, <2>6, <3>1, <3>2
  <2>9. /\ ss.pend \subseteq cs.pend /\ ss.inFlight = cs.inFlight /\ ss.gapFly = cs.gapFly
        /\ ss.completedSeq = cs.completedSeq /\ ss.unavailable = cs.unavailable
        /\ ss.ingested = cs.ingested /\ ss.acked = cs.acked
    BY <2>2, <2>6 DEF Alike, Kept
  <2> QED
    BY <2>1, <2>5, <2>7, <2>8, <2>9 DEF cs
<1>4. cons \in [Consumers -> ConsumerStates]
  BY <1>3
<1> HIDE DEF cons
<1>5. B1 \in BufferStates
  BY <1>1 DEF BufferStates
<1>6. /\ B1.closed = TRUE /\ B1.nodes = B.nodes /\ B1.size = B.size /\ B1.resident = B.resident
      /\ B1.nextSeq = B.nextSeq /\ B1.sealed = B.sealed /\ B1.cons = B.cons
  BY <1>1 DEF BufferStates
<1>7. D = Reclaim(A)
  BY <1>2
<1> HIDE DEF B1
<1>8. Linked(B1)
  BY <1>1, <1>6, Zenon DEF Linked
<1>9. Relinked(B1, D, cons)
  BY <1>3, <1>4, <1>5, <1>6, <1>7, <1>8, Reclaimed
<1>10. /\ D \in BufferStates /\ Linked(D) /\ D.resident <= B.resident /\ D.cons = cons /\ D.size = B.size
       /\ D.nextSeq = B.nextSeq /\ D.closed /\ D.sealed = B.sealed
  BY <1>6, <1>9 DEF Relinked
<1>11. \A c \in Consumers : ConsumerOK(D, c)
  BY <1>3, <1>10 DEF ConsumerOK
<1> QED
  BY <1>3, <1>10, <1>11 DEF BufferOK

\* D is B after the callback of consumer c has returned.
Completed(B, D, c) ==
  /\ BufferOK(D) /\ D.resident <= B.resident
  /\ D.nextSeq = B.nextSeq /\ D.closed = B.closed /\ D.sealed = B.sealed
  /\ \A d \in Consumers \ {c} : D.cons[d] = B.cons[d]
  /\ Progress(B.nextSeq, B.size, B.cons[c], D.cons[c])

\* completeBatch and completeGap, whatever the consumer has become.
LEMMA ProgressMade ==
  ASSUME NEW B, BufferOK(B), NEW c \in Enabled, c \in Consumers, ~B.cons[c].unavailable,
         NEW es, Progress(B.nextSeq, B.size, B.cons[c], es),
         NEW D, D = Reclaim([B EXCEPT !.cons = [@ EXCEPT ![c] = es]])
  PROVE  Completed(B, D, c) /\ D.cons[c] = es
<1> DEFINE cs == B.cons[c]
           cons == [B.cons EXCEPT ![c] = es]
           A == [B EXCEPT !.cons = cons]
<1>1. B \in BufferStates /\ Linked(B) /\ \A d \in Consumers : ConsumerOK(B, d)
  BY DEF BufferOK
<1>2. B.cons \in [Consumers -> ConsumerStates] /\ cs \in ConsumerStates /\ B.nextSeq \in 0..MaxSeq
  BY <1>1 DEF BufferStates
<1>3. Serving(B.nextSeq, B.size, cs) /\ (cs.active <=> ~B.closed) /\ (B.closed => Back(cs) = B.nextSeq)
  BY <1>1 DEF ConsumerOK
<1>4. es \in ConsumerStates /\ es.pend \subseteq cs.pend
  <2>1. CASE Serving(B.nextSeq, B.size, es) /\ Back(es) = Back(cs) /\ es.inFlight = 0
    <3>1. es.batch = {} /\ es.pend = es.batch \cup (Back(cs) + 1)..B.nextSeq
      BY <2>1 DEF Serving, Tidy, Awaits
    <3>2. cs.pend = cs.batch \cup (Back(cs) + 1)..B.nextSeq
      BY <1>3 DEF Serving, Awaits
    <3> QED
      BY <3>1, <3>2 DEF Progress
  <2>2. CASE Dead(es)
    BY <2>2 DEF Progress, Dead
  <2> QED
    BY <2>1, <2>2 DEF Progress
<1>5. D = Reclaim(A)
  BY <1>1 DEF BufferStates
<1>6. /\ cons \in [Consumers -> ConsumerStates] /\ cons[c] = es
      /\ \A d \in Consumers : d # c => cons[d] = B.cons[d]
  BY <1>2, <1>4
<1>7. \A d \in Consumers : cons[d].pend \subseteq B.cons[d].pend
  BY <1>4, <1>6
<1> HIDE DEF cons
<1>8. Relinked(B, D, cons)
  BY <1>1, <1>5, <1>6, <1>7, Reclaimed
<1>9. ConsumerOK(D, c)
  <2>1. CASE /\ Serving(B.nextSeq, B.size, es) /\ Back(es) = Back(cs)
             /\ es.active = cs.active /\ es.unavailable = cs.unavailable
    BY <1>3, <1>6, <1>8, <2>1 DEF ConsumerOK, Relinked
  <2>2. CASE Dead(es) /\ es.unavailable
    BY <1>6, <1>8, <2>2 DEF ConsumerOK, Relinked
  <2> QED
    BY <2>1, <2>2 DEF Progress
<1>10. \A d \in Consumers : d # c => ConsumerOK(D, d)
  BY <1>1, <1>6, <1>8 DEF ConsumerOK, Relinked
<1> QED
  BY <1>6, <1>8, <1>9, <1>10 DEF Completed, BufferOK, Relinked

\* completeBatch
LEMMA BatchCompleted ==
  ASSUME NEW B, BufferOK(B), NEW c \in Enabled, c \in Consumers, B.cons[c].inFlight # 0,
         NEW err \in BOOLEAN, NEW D, D = CompleteBatch(B, c, err)
  PROVE  Completed(B, D, c) /\ (err => D.cons[c].unavailable)
<1> DEFINE cs == B.cons[c]
           ds == Finished(cs)
           gs == [ds EXCEPT !.dropped = @ + Bytes(B, cs.batch),
                            !.gapCount = IF cs.gap = {} THEN @ + 1 ELSE @]
           es == IF err THEN FailConsumer(B, gs, cs.batch) ELSE [ds EXCEPT !.ingested = @ \cup cs.batch]
<1>1. B \in BufferStates /\ ConsumerOK(B, c) /\ cs \in ConsumerStates /\ B.nextSeq \in 0..MaxSeq
  BY DEF BufferOK, BufferStates
<1>2. ~cs.unavailable /\ Serving(B.nextSeq, B.size, cs)
  BY <1>1 DEF ConsumerOK, Dead
<1>3. D = Reclaim([B EXCEPT !.cons = [@ EXCEPT ![c] = es]])
  BY DEF CompleteBatch, Finished
<1>4. Progress(B.nextSeq, B.size, cs, es) /\ (err => es.unavailable)
  <2> HIDE DEF cs
  <2>1. CASE err
    BY <1>1, <1>2, <2>1, BatchFailed DEF cs
  <2>2. CASE ~err
    BY <1>1, <1>2, <2>2, BatchIngested DEF cs
  <2> QED
    BY <2>1, <2>2
<1> HIDE DEF es
<1> QED
  BY <1>2, <1>3, <1>4, ProgressMade

\* completeGap
LEMMA GapCompleted ==
  ASSUME NEW B, BufferOK(B), NEW c \in Enabled, c \in Consumers, B.cons[c].gapFly # {},
         NEW err \in BOOLEAN, NEW D, D = CompleteGap(B, c, err)
  PROVE  Completed(B, D, c) /\ (err => D.cons[c].unavailable)
<1> DEFINE cs == B.cons[c]
           ds == [cs EXCEPT !.gapFly = {}, !.gapFlySeq = 0]
           es == IF err THEN FailConsumer(B, ds, cs.gapFly)
                 ELSE [ds EXCEPT !.epoch = @ + 1, !.completedSeq = Max({@, cs.gapFlySeq}),
                                 !.acked = @ \cup cs.gapFly]
<1>1. B \in BufferStates /\ ConsumerOK(B, c) /\ cs \in ConsumerStates /\ B.nextSeq \in 0..MaxSeq
  BY DEF BufferOK, BufferStates
<1>2. ~cs.unavailable /\ Serving(B.nextSeq, B.size, cs)
  BY <1>1 DEF ConsumerOK, Dead
<1>3. D = Reclaim([B EXCEPT !.cons = [@ EXCEPT ![c] = es]])
  BY DEF CompleteGap
<1>4. Progress(B.nextSeq, B.size, cs, es) /\ (err => es.unavailable)
  <2> HIDE DEF cs
  <2>1. CASE err
    BY <1>1, <1>2, <2>1, GapFailed DEF cs
  <2>2. CASE ~err
    BY <1>1, <1>2, <2>2, GapAcked DEF cs
  <2> QED
    BY <2>1, <2>2
<1> HIDE DEF es
<1> QED
  BY <1>2, <1>3, <1>4, ProgressMade

\* D is B with consumer c in the state es, and nothing else changed.
OnlyConsumer(B, D, c, es) ==
  /\ BufferOK(D) /\ D.resident = B.resident
  /\ D.nextSeq = B.nextSeq /\ D.closed = B.closed /\ D.sealed = B.sealed
  /\ D.cons[c] = es /\ \A d \in Consumers \ {c} : D.cons[d] = B.cons[d]

\* A runner that takes work, starts or ends changes its own consumer only.
LEMMA ConsumerSet ==
  ASSUME NEW B, BufferOK(B), NEW c \in Consumers, NEW es \in ConsumerStates,
         es.pend = B.cons[c].pend,
         IF c \in Enabled /\ ~es.unavailable
         THEN /\ Serving(B.nextSeq, B.size, es) /\ (es.active <=> ~B.closed)
              /\ B.closed => Back(es) = B.nextSeq
         ELSE Dead(es),
         NEW D, D = [B EXCEPT !.cons = [@ EXCEPT ![c] = es]]
  PROVE  OnlyConsumer(B, D, c, es)
<1> DEFINE cons == [B.cons EXCEPT ![c] = es]
<1>1. B \in BufferStates /\ Linked(B) /\ \A d \in Consumers : ConsumerOK(B, d)
  BY DEF BufferOK
<1>2. D = [B EXCEPT !.cons = cons] /\ B.cons \in [Consumers -> ConsumerStates]
  BY <1>1 DEF BufferStates
<1>3. /\ cons \in [Consumers -> ConsumerStates] /\ cons[c] = es
      /\ \A d \in Consumers : d # c => cons[d] = B.cons[d]
  BY <1>2
<1> HIDE DEF cons
<1>4. D \in BufferStates
  BY <1>1, <1>2, <1>3 DEF BufferStates
<1>5. /\ D.cons = cons /\ D.nodes = B.nodes /\ D.size = B.size /\ D.resident = B.resident
      /\ D.nextSeq = B.nextSeq /\ D.closed = B.closed /\ D.sealed = B.sealed
  BY <1>1, <1>2 DEF BufferStates
<1>6. Linked(D)
  <2>1. \A d \in Consumers : D.cons[d].pend = B.cons[d].pend
    BY <1>3, <1>5
  <2>2. UNION {D.cons[d].pend : d \in Consumers} = UNION {B.cons[d].pend : d \in Consumers}
    BY <2>1
  <2> QED
    BY <1>1, <1>5, <2>2 DEF Linked
<1>7. ConsumerOK(D, c)
  BY <1>3, <1>5 DEF ConsumerOK
<1>8. \A d \in Consumers : d # c => ConsumerOK(D, d)
  BY <1>1, <1>3, <1>5 DEF ConsumerOK
<1> QED
  BY <1>3, <1>4, <1>5, <1>6, <1>7, <1>8 DEF OnlyConsumer, BufferOK

\* Seal
LEMMA BufferSealed ==
  ASSUME NEW B, BufferOK(B), NEW D, D = [B EXCEPT !.sealed = TRUE]
  PROVE  /\ BufferOK(D) /\ D.resident = B.resident /\ D.cons = B.cons
         /\ D.nextSeq = B.nextSeq /\ D.closed = B.closed /\ D.sealed
<1>1. B \in BufferStates /\ Linked(B) /\ \A d \in Consumers : ConsumerOK(B, d)
  BY DEF BufferOK
<1>2. D \in BufferStates
  BY <1>1 DEF BufferStates
<1>3. /\ D.cons = B.cons /\ D.nodes = B.nodes /\ D.size = B.size /\ D.resident = B.resident
      /\ D.nextSeq = B.nextSeq /\ D.closed = B.closed /\ D.sealed = TRUE
  BY <1>1 DEF BufferStates
<1>4. Linked(D)
  BY <1>1, <1>3, Zenon DEF Linked
<1>5. \A d \in Consumers : ConsumerOK(D, d)
  BY <1>1, <1>3 DEF ConsumerOK
<1> QED
  BY <1>2, <1>3, <1>4, <1>5 DEF BufferOK
=============================================================================
