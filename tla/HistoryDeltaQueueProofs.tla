----------------------- MODULE HistoryDeltaQueueProofs -----------------------
(***************************************************************************)
(* Proofs about HistoryDeltaQueue, for every capacity, every set of delta  *)
(* sizes and every bound on the number of deltas.                          *)
(*                                                                         *)
(* None of the properties is inductive by itself.  IndInv adds: which pc   *)
(* of the worker goes with which work in flight (Shape), that the places   *)
(* of OwedInOrder are in ascending order (Places), how far the store is    *)
(* ahead of completedSeq (Stored), and what Seal, Close and the end of the *)
(* worker imply for each other (Life).                                     *)
(***************************************************************************)
EXTENDS HistoryDeltaQueue, FiniteSetTheorems, TLAPS

Shape ==
  /\ (inFlight # 0) <=> worker.pc \in {"apply", "applied"}
  /\ (gapFly # {}) <=> worker.pc \in {"gap", "gapDone"}
  /\ worker.pc = "applied" => worker.result \in {"ok", "recovered", "failed"}
  /\ worker.pc = "gapDone" => worker.result \in {"ok", "failed"}
  /\ gap = {} => gapThrough = 0
  /\ gapFly = {} => gapFlyThrough = 0

Places == completedSeq <= Front /\ Front <= Back /\ Back <= nextSeq

\* The callback has put the work in flight into the store, or a gap for it.
JustStored == worker.pc \in {"applied", "gapDone"} /\ worker.result # "failed"
StoredUpTo == IF JustStored THEN Front ELSE completedSeq

Stored ==
  /\ unavailable => worker.pc \in {"failed", "end"}
  /\ worker.pc = "failed" => unavailable
  /\ ~unavailable => applied \cup gapped = 1..StoredUpTo

Life ==
  /\ closer = "idle" => ~sealed /\ ~closed
  /\ closer \in {"wait", "close"} => sealed /\ ~closed
  /\ closer = "close" => done
  /\ done /\ ~closed => worker.pc = "end"
  /\ worker.pc = "end" /\ ~closed /\ ~unavailable => sealed /\ gap = {} /\ queue = {}

OrderInv == Shape /\ Places /\ OwedInOrder

InFlightSet == IF inFlight # 0 THEN {inFlight} ELSE {}

\* Bytes for any assignment of sizes, before a step or after it.
Measure(f, S) == Cardinality({p \in S \X (1..MaxSize) : p[2] <= f[p[1]]})

\* resident is what the list and the delta in flight hold, and within the bound.
Resident == resident = Measure(size, queue) + Measure(size, InFlightSet) /\ resident <= Capacity

IndInv == TypeOK /\ OrderInv /\ Stored /\ Life /\ FlushFence /\ Resident
-----------------------------------------------------------------------------
(* Lemmas about the operators.                                             *)

\* The largest number of an interval is its last: how far a gap reaches.
LEMMA IntervalMax ==
  ASSUME NEW a \in Int, NEW b \in Int, a <= b
  PROVE  Max(a..b) = b
<1> DEFINE M == CHOOSE x \in a..b : \A y \in a..b : x >= y
<1>1. b \in a..b /\ \A y \in a..b : b >= y
  OBVIOUS
<1>2. M \in a..b /\ \A y \in a..b : M >= y
  BY <1>1, Zenon
<1>3. M >= b /\ b >= M
  BY <1>1, <1>2
<1> QED
  BY <1>2, <1>3 DEF Max

\* The smallest number of an interval is its first: which delta next() takes when
\* the list is an interval of sequence numbers.
LEMMA IntervalMin ==
  ASSUME NEW a \in Int, NEW b \in Int, a <= b
  PROVE  Min(a..b) = a
<1> DEFINE M == CHOOSE x \in a..b : \A y \in a..b : x <= y
<1>1. a \in a..b /\ \A y \in a..b : a <= y
  OBVIOUS
<1>2. M \in a..b /\ \A y \in a..b : M <= y
  BY <1>1, Zenon
<1>3. M >= a /\ a >= M
  BY <1>1, <1>2
<1> QED
  BY <1>2, <1>3 DEF Min

\* Sets of deltas are finite, and so is the set of their bytes.
LEMMA DeltasFinite ==
  ASSUME NEW S \in SUBSET Seqs
  PROVE  /\ IsFiniteSet(S) /\ Cardinality(S) \in Nat
         /\ IsFiniteSet({p \in S \X (1..MaxSize) : p[2] <= size[p[1]]})
         /\ Bytes(S) \in Nat
<1> DEFINE P == S \X (1..MaxSize)
           B == {p \in P : p[2] <= size[p[1]]}
<1>0. IsFiniteSet(1..MaxSeq) /\ IsFiniteSet(1..MaxSize)
  BY FS_Interval, QueueAssumption
<1>1. IsFiniteSet(S)
  BY <1>0, FS_Subset DEF Seqs
<1>2. IsFiniteSet(P)
  BY <1>0, <1>1, FS_Product
<1>3. B \subseteq P
  OBVIOUS
<1>4. IsFiniteSet(B)
  BY <1>2, <1>3, FS_Subset
<1>5. Cardinality(B) \in Nat /\ Cardinality(S) \in Nat
  BY <1>1, <1>4, FS_CardinalityType
<1> QED
  BY <1>1, <1>4, <1>5 DEF Bytes

\* The ends of the list: it reaches from the gap to the newest delta.
LEMMA QueueEnds ==
  ASSUME TypeOK, OrderInv
  PROVE  /\ Front \in 0..MaxSeq /\ Back \in 0..MaxSeq
         /\ queue # {} => Max(queue) = nextSeq /\ Min(queue) = Back + 1
         /\ Max(queue \cup {nextSeq + 1}) = nextSeq + 1
<1>1. Front \in 0..MaxSeq /\ Back \in 0..MaxSeq /\ nextSeq \in Nat
  BY QueueAssumption DEF TypeOK, Front, Back
<1>2. queue = (Back + 1)..nextSeq /\ Back <= nextSeq
  BY DEF OrderInv, OwedInOrder, Places
<1>3. ASSUME queue # {} PROVE Max(queue) = nextSeq /\ Min(queue) = Back + 1
  BY <1>1, <1>2, <1>3, IntervalMax, IntervalMin
<1>4. queue \cup {nextSeq + 1} = (Back + 1)..(nextSeq + 1)
  BY <1>1, <1>2
<1>5. Max((Back + 1)..(nextSeq + 1)) = nextSeq + 1
  BY <1>1, <1>2, IntervalMax
<1> QED
  BY <1>1, <1>3, <1>4, <1>5

\* What joining the gap makes of it, for the sets that are ever added.
LEMMA GapGrows ==
  ASSUME TypeOK, OrderInv, NEW D,
         D = {} \/ D = queue \/ (D = queue \cup {nextSeq + 1} /\ nextSeq < MaxSeq),
         AddGap(D)
  PROVE  /\ gap' = gap \cup D
         /\ D = {} => gapThrough' = gapThrough
         /\ D = queue /\ D # {} => gapThrough' = nextSeq
         /\ D = queue \cup {nextSeq + 1} => gapThrough' = nextSeq + 1
         /\ gap' \subseteq Seqs /\ gapThrough' \in 0..MaxSeq /\ gapCount' \in Nat
<1>1. /\ nextSeq \in 0..MaxSeq /\ gapThrough \in 0..MaxSeq /\ gapCount \in Nat
      /\ queue \subseteq 1..MaxSeq /\ gap \subseteq 1..MaxSeq /\ MaxSeq \in Nat
  BY QueueAssumption DEF TypeOK, Seqs
<1>2. queue = (Back + 1)..nextSeq /\ Back <= nextSeq /\ Back \in Nat
  BY QueueEnds, QueueAssumption DEF OrderInv, OwedInOrder, Places
<1>3. gapThrough <= nextSeq
  <2>1. gap = {} => gapThrough = 0
    BY DEF OrderInv, Shape
  <2>2. gap # {} => gapThrough = Back
    BY DEF Back
  <2> QED
    BY <1>1, <1>2, <2>1, <2>2
<1>4. gap' = gap \cup D /\ gapCount' \in Nat
  BY <1>1 DEF AddGap
<1>5. nextSeq + 1 \notin queue
  BY <1>1, <1>2
<1>6. CASE D = {}
  BY <1>1, <1>4, <1>6 DEF AddGap, Seqs
<1>7. CASE D = queue /\ D # {}
  <2>1. D # {} /\ Max(D) = nextSeq /\ D # queue \cup {nextSeq + 1}
    BY <1>5, <1>7, QueueEnds
  <2>2. gapThrough' = nextSeq
    BY <1>1, <1>3, <2>1 DEF AddGap, Later
  <2> QED
    BY <1>1, <1>4, <1>7, <2>1, <2>2 DEF Seqs
<1>8. CASE D = queue \cup {nextSeq + 1} /\ nextSeq < MaxSeq
  <2>1. D # {} /\ Max(D) = nextSeq + 1 /\ D # queue
    BY <1>5, <1>8, QueueEnds
  <2>2. gapThrough' = nextSeq + 1
    BY <1>1, <1>3, <2>1 DEF AddGap, Later
  <2>3. nextSeq + 1 \in 1..MaxSeq
    BY <1>1, <1>8
  <2> QED
    BY <1>1, <1>4, <1>8, <2>1, <2>2, <2>3 DEF Seqs
<1> QED
  BY <1>6, <1>7, <1>8
-----------------------------------------------------------------------------
(* Every step preserves the type invariant.                                *)

\* Whoever is notified, or has a new pc, is still in a known state.
LEMMA NotifiedType ==
  ASSUME TypeOK
  PROVE  /\ WorkerNotified \in WorkerStates /\ FlushNotified \in FlushStates
         /\ \A pc \in {"start", "next", "gap", "apply", "sleep", "end"} :
              [worker EXCEPT !.pc = pc] \in WorkerStates
BY DEF TypeOK, WorkerNotified, FlushNotified, WorkerStates, FlushStates

\* Every method of the queue, and every step of its worker, leaves the fields of
\* the queue in their types.
LEMMA TypeStep ==
  ASSUME TypeOK, OrderInv, [Next]_vars
  PROVE  TypeOK'
<1> USE QueueAssumption
<1>a. /\ Cardinality(queue) \in Nat /\ Bytes(queue) \in Nat
      /\ Cardinality({}) \in Nat /\ Bytes({}) \in Nat
      /\ Cardinality(gapFly) \in Nat
  BY DeltasFinite DEF TypeOK
<1>b. /\ Front \in 0..MaxSeq /\ Back \in 0..MaxSeq
      /\ queue # {} => Min(queue) = Back + 1 /\ Back + 1 \in Seqs
  <2>1. queue # {} => Min(queue) = Back + 1
    BY QueueEnds
  <2>2. queue = (Back + 1)..nextSeq /\ nextSeq \in 0..MaxSeq /\ Front \in 0..MaxSeq
        /\ Back \in 0..MaxSeq
    BY QueueEnds DEF TypeOK, OrderInv, OwedInOrder
  <2> QED
    BY <2>1, <2>2 DEF Seqs
<1>c. /\ Cardinality(queue \cup {nextSeq + 1}) \in Nat
  BY <1>b, DeltasFinite, FS_AddElement, FS_CardinalityType DEF TypeOK
<1>1. ASSUME NEW bytes \in Sizes, EnqueueNode(bytes) PROVE TypeOK'
  <2> DEFINE drop == IF resident + bytes > Capacity THEN queue ELSE {}
  <2>1. AddGap(drop) /\ drop \subseteq queue /\ nextSeq + 1 \in 1..MaxSeq
    BY <1>1 DEF EnqueueNode, TypeOK, Accepting
  <2>2. gap' \subseteq Seqs /\ gapThrough' \in 0..MaxSeq /\ gapCount' \in Nat
    BY <2>1, GapGrows
  <2>3. Cardinality(drop) \in Nat /\ Bytes(drop) \in Nat
    BY <1>a
  <2>4. dropped' \in Nat
    BY <1>1, <2>3 DEF EnqueueNode, TypeOK
  <2>5. Less(Bytes(drop)) \in Nat /\ bytes \in 1..MaxSize
    BY <2>3 DEF Less, Later, TypeOK
  <2>6. resident' \in Nat
    BY <1>1, <2>5 DEF EnqueueNode
  <2>7. queue' \subseteq Seqs /\ size' \in [Seqs -> 0..MaxSize] /\ nextSeq' \in 0..MaxSeq
    BY <1>1, <2>1, <2>5 DEF EnqueueNode, TypeOK, Seqs
  <2> QED
    BY <1>1, <2>2, <2>4, <2>6, <2>7, NotifiedType
    DEF EnqueueNode, TypeOK, lifeVars, storeVars
<1>2. ASSUME NEW bytes \in Sizes, EnqueueGap(bytes) PROVE TypeOK'
  <2> DEFINE D == queue \cup {nextSeq + 1}
  <2>1. AddGap(D) /\ nextSeq < MaxSeq /\ nextSeq + 1 \in 1..MaxSeq
    BY <1>2 DEF EnqueueGap, TypeOK, Accepting
  <2>2. gap' \subseteq Seqs /\ gapThrough' \in 0..MaxSeq /\ gapCount' \in Nat
    BY <2>1, GapGrows
  <2>3. dropped' \in Nat
    BY <1>2, <1>c DEF EnqueueGap, TypeOK
  <2>4. resident' \in Nat
    BY <1>2, <1>a DEF EnqueueGap, Less, Later, TypeOK
  <2>5. queue' \subseteq Seqs /\ size' \in [Seqs -> 0..MaxSize] /\ nextSeq' \in 0..MaxSeq
    BY <1>2, <2>1 DEF EnqueueGap, TypeOK, Seqs
  <2> QED
    BY <1>2, <2>2, <2>3, <2>4, <2>5, NotifiedType
    DEF EnqueueGap, TypeOK, lifeVars, storeVars
<1>3. CASE StartRun \/ Sleep \/ Stop
  BY <1>3, NotifiedType
  DEF StartRun, Sleep, Stop, Finish, TypeOK, queueVars, listVars, gapVars, countVars,
      lifeVars, storeVars
<1>4. CASE TakeGap
  BY <1>4, NotifiedType DEF TakeGap, TypeOK, listVars, countVars, lifeVars, storeVars
<1>5. CASE TakeNode
  BY <1>5, <1>b, NotifiedType DEF TakeNode, TypeOK, gapVars, countVars, lifeVars, storeVars, Seqs
<1>6. ASSUME NEW result, Apply(result) \/ PersistGap(result) PROVE TypeOK'
  <2>1. inFlight # 0 => inFlight \in Seqs
    BY DEF TypeOK, Seqs
  <2>2. Apply(result) => inFlight # 0
    BY DEF Apply, OrderInv, Shape
  <2>3. worker' \in WorkerStates
    BY <1>6 DEF Apply, PersistGap, WorkerStates
  <2>4. applied' \subseteq Seqs /\ gapped' \subseteq Seqs
    BY <1>6, <2>1, <2>2 DEF Apply, PersistGap, TypeOK
  <2> QED
    BY <1>6, <2>3, <2>4
    DEF Apply, PersistGap, TypeOK, queueVars, listVars, gapVars, countVars, lifeVars
<1>7. CASE CompleteNode
  <2>1. worker' \in WorkerStates
    BY <1>7 DEF CompleteNode, WorkerStates
  <2>2. inFlight \in Seqs /\ size[inFlight] \in Nat
    BY <1>7 DEF CompleteNode, TypeOK, Seqs, OrderInv, Shape
  <2>3. resident' \in Nat /\ completedSeq' \in 0..MaxSeq
    BY <1>7, <2>2 DEF CompleteNode, Less, Later, TypeOK
  <2> QED
    BY <1>7, <2>1, <2>3, NotifiedType
    DEF CompleteNode, TypeOK, gapVars, countVars, lifeVars, storeVars
<1>8. CASE FailNode
  <2>1. worker' \in WorkerStates
    BY <1>8 DEF FailNode, WorkerStates
  <2>2. inFlight \in Seqs /\ size[inFlight] \in Nat
    BY <1>8 DEF FailNode, TypeOK, Seqs, OrderInv, Shape
  <2>3. resident' \in Nat /\ completedSeq' \in 0..MaxSeq /\ dropped' \in Nat
    BY <1>8, <1>a, <2>2 DEF FailNode, Fail, Less, Later, TypeOK
  <2>4. gap' \subseteq Seqs /\ gapThrough' \in 0..MaxSeq /\ gapCount' \in Nat
    BY <1>8, GapGrows DEF FailNode, Fail
  <2> QED
    BY <1>8, <2>1, <2>3, <2>4, NotifiedType
    DEF FailNode, Fail, TypeOK, lifeVars, storeVars
<1>9. CASE CompleteGap
  <2>1. worker' \in WorkerStates
    BY <1>9 DEF CompleteGap, WorkerStates
  <2> QED
    BY <1>9, <2>1, NotifiedType
    DEF CompleteGap, Later, TypeOK, listVars, lifeVars, storeVars
<1>10. CASE FailGap
  <2>1. worker' \in WorkerStates
    BY <1>10 DEF FailGap, WorkerStates
  <2>2. resident' \in Nat /\ completedSeq' \in 0..MaxSeq /\ dropped' \in Nat
    BY <1>10, <1>a DEF FailGap, Fail, Less, Later, TypeOK
  <2>3. gap' \subseteq Seqs /\ gapThrough' \in 0..MaxSeq /\ gapCount' \in Nat
    BY <1>10, GapGrows DEF FailGap, Fail
  <2> QED
    BY <1>10, <2>1, <2>2, <2>3, NotifiedType
    DEF FailGap, Fail, TypeOK, lifeVars, storeVars
<1>11. CASE ReportFailure
  BY <1>11, NotifiedType
  DEF ReportFailure, Finish, TypeOK, queueVars, listVars, gapVars, countVars, storeVars
<1>12. ASSUME NEW target \in 0..MaxSeq, FlushLook(target) PROVE TypeOK'
  <2>1. flush' \in FlushStates
    BY <1>12 DEF FlushLook, FlushStates
  <2> QED
    BY <1>12, <2>1
    DEF FlushLook, TypeOK, queueVars, listVars, gapVars, countVars, lifeVars, storeVars
<1>13. CASE StartFlush \/ ResumeFlush
  BY <1>12, <1>13 DEF StartFlush, ResumeFlush, TypeOK, FlushStates
<1>14. CASE CancelFlush
  <2>1. flush' \in FlushStates
    BY <1>14 DEF CancelFlush, FlushStates, TypeOK
  <2> QED
    BY <1>14, <2>1
    DEF CancelFlush, TypeOK, queueVars, listVars, gapVars, countVars, lifeVars, storeVars
<1>15. CASE Seal \/ Wait
  BY <1>15, NotifiedType
  DEF Seal, Wait, TypeOK, queueVars, listVars, gapVars, countVars, lifeVars, storeVars
<1>16. CASE Close
  <2>1. resident' \in Nat /\ dropped' \in Nat
    BY <1>16, <1>a DEF Close, CloseQueue, Less, Later, TypeOK
  <2>2. gap' \subseteq Seqs /\ gapThrough' \in 0..MaxSeq /\ gapCount' \in Nat
    BY <1>16, GapGrows DEF Close, CloseQueue
  <2> QED
    BY <1>16, <2>1, <2>2, NotifiedType DEF Close, CloseQueue, TypeOK, storeVars
<1>17. CASE UNCHANGED vars
  BY <1>17 DEF TypeOK, vars, queueVars, listVars, gapVars, countVars, lifeVars, storeVars
<1> QED
  BY <1>1, <1>2, <1>3, <1>4, <1>5, <1>6, <1>7, <1>8, <1>9, <1>10, <1>11, <1>13, <1>14,
     <1>15, <1>16, <1>17 DEF Next, Worker
-----------------------------------------------------------------------------
(* Every step preserves the order of what is owed.                         *)

\* Every method of the queue keeps what it owes in one interval, the delta in
\* flight before the gap and the gap before the list: addGapLocked only ever
\* joins the end of what is already lost.
LEMMA OrderStep ==
  ASSUME TypeOK, OrderInv, [Next]_vars
  PROVE  OrderInv'
<1> DEFINE F == Front  B == Back  c == completedSeq  n == nextSeq
<1> USE QueueAssumption
<1>a. /\ F \in Nat /\ B \in Nat /\ c \in Nat /\ n \in Nat /\ c <= F /\ F <= B /\ B <= n
      /\ Busy = (c + 1)..F /\ gap = (F + 1)..B /\ queue = (B + 1)..n
  BY QueueEnds DEF TypeOK, OrderInv, Places, OwedInOrder
<1>b. Shape /\ inFlight \in Nat
  BY DEF OrderInv, TypeOK
<1>c. /\ gap # {} => B = gapThrough
      /\ gap = {} => B = F
  BY DEF Back
<1>d. /\ worker.pc \in {"apply", "applied"} => inFlight = c + 1 /\ F = c + 1
      /\ worker.pc \in {"gap", "gapDone"} => gapFlyThrough = F /\ gapFly = (c + 1)..F /\ c < F
      /\ worker.pc \notin {"apply", "applied", "gap", "gapDone"} => F = c
  <2>1. inFlight # 0 => gapFly = {} /\ F = inFlight /\ Busy = {inFlight}
    BY <1>b DEF Shape, Front, Busy
  <2>2. gapFly # {} => inFlight = 0 /\ F = gapFlyThrough /\ Busy = gapFly
    BY <1>b DEF Shape, Front, Busy
  <2>3. inFlight = 0 /\ gapFly = {} => F = c
    BY DEF Front
  <2>4. inFlight # 0 => inFlight = c + 1
    BY <1>a, <2>1
  <2>5. gapFly # {} => c < F
    BY <1>a, <2>2
  <2> QED
    BY <1>a, <1>b, <2>1, <2>2, <2>3, <2>4, <2>5 DEF Shape
\* A step that changes neither the work in flight nor its end.
<1>e. ASSUME UNCHANGED <<inFlight, gapFly, gapFlyThrough, completedSeq>>
      PROVE  Front' = F /\ Busy' = Busy
  BY <1>e DEF Front, Busy
\* A notification does not touch the work in flight.
<1>f. ASSUME worker' = WorkerNotified \/ worker' = worker,
             UNCHANGED <<inFlight, gapFly, gapFlyThrough>>, gap' = {} => gapThrough' = 0
      PROVE  Shape'
  BY <1>b, <1>f DEF Shape, WorkerNotified, TypeOK, WorkerStates
\* The whole list joins the gap.
<1>g. ASSUME AddGap(queue)
      PROVE  /\ gap' = (F + 1)..n
             /\ gap' # {} => gapThrough' = n
             /\ gap' = {} => gapThrough' = 0 /\ F = n
  <2>1. gap' = gap \cup queue /\ (queue = {} => gapThrough' = gapThrough)
        /\ (queue # {} => gapThrough' = n)
    BY <1>g, GapGrows
  <2>2. gap' = (F + 1)..n
    BY <1>a, <2>1
  <2>3. CASE queue # {}
    BY <1>a, <2>1, <2>2, <2>3
  <2>4. CASE queue = {}
    <3>1. B = n /\ gap' = gap /\ gapThrough' = gapThrough
      BY <1>a, <2>1, <2>4
    <3> QED
      BY <1>b, <1>c, <2>2, <3>1 DEF Shape
  <2> QED
    BY <2>3, <2>4
<1>1. ASSUME NEW bytes \in Sizes, EnqueueNode(bytes) PROVE OrderInv'
  <2>1. /\ n' = n + 1 /\ worker' = WorkerNotified
        /\ UNCHANGED <<inFlight, gapFly, gapFlyThrough, completedSeq>>
    BY <1>1 DEF EnqueueNode
  <2>2. Front' = F /\ Busy' = Busy
    BY <1>e, <2>1
  <2>3. CASE resident + bytes > Capacity
    <3>1. AddGap(queue) /\ queue' = {n + 1}
      BY <1>1, <2>3 DEF EnqueueNode
    <3>2. gap' = (F + 1)..n /\ Back' = n /\ (gap' = {} => gapThrough' = 0)
      BY <1>g, <2>2, <3>1 DEF Back
    <3>3. Shape'
      BY <1>f, <2>1, <3>2
    <3>4. queue' = (n + 1)..(n + 1)
      BY <1>a, <3>1
    <3> QED
      BY <1>a, <2>1, <2>2, <3>2, <3>3, <3>4 DEF OrderInv, Places, OwedInOrder
  <2>4. CASE ~(resident + bytes > Capacity)
    <3>1. AddGap({}) /\ queue' = queue \cup {n + 1}
      BY <1>1, <2>4 DEF EnqueueNode
    <3>2. gap' = gap /\ gapThrough' = gapThrough
      BY <3>1 DEF AddGap
    <3>3. Back' = B
      BY <2>2, <3>2 DEF Back
    <3>4. Shape'
      BY <1>b, <1>f, <2>1, <3>2 DEF Shape
    <3>5. queue' = (B + 1)..(n + 1)
      BY <1>a, <3>1
    <3> QED
      BY <1>a, <2>1, <2>2, <3>2, <3>3, <3>4, <3>5 DEF OrderInv, Places, OwedInOrder
  <2> QED
    BY <2>3, <2>4
<1>2. ASSUME NEW bytes \in Sizes, EnqueueGap(bytes) PROVE OrderInv'
  <2>1. /\ n' = n + 1 /\ worker' = WorkerNotified /\ queue' = {} /\ n < MaxSeq
        /\ UNCHANGED <<inFlight, gapFly, gapFlyThrough, completedSeq>>
        /\ AddGap(queue \cup {n + 1})
    BY <1>2 DEF EnqueueGap, Accepting
  <2>2. gap' = gap \cup (queue \cup {n + 1}) /\ gapThrough' = n + 1
    BY <2>1, GapGrows
  <2>3. gap' = (F + 1)..(n + 1) /\ gap' # {}
    BY <1>a, <2>2
  <2>4. Front' = F /\ Busy' = Busy
    BY <1>e, <2>1
  <2>5. Back' = n + 1
    BY <2>2, <2>3 DEF Back
  <2>6. Shape'
    BY <1>f, <2>1, <2>3
  <2>7. queue' = (n + 2)..(n + 1)
    BY <1>a, <2>1
  <2> QED
    BY <1>a, <2>1, <2>3, <2>4, <2>5, <2>6, <2>7 DEF OrderInv, Places, OwedInOrder
\* Steps of callers that leave the queue as it is.
<1>3. ASSUME UNCHANGED queueVars, worker' \in {WorkerNotified, worker} \/ (
               /\ worker.pc \notin {"apply", "applied", "gap", "gapDone"}
               /\ worker'.pc \notin {"apply", "applied", "gap", "gapDone"})
      PROVE  OrderInv'
  <2>1. UNCHANGED <<nextSeq, completedSeq, queue, inFlight, gap, gapThrough, gapFly, gapFlyThrough>>
    BY <1>3 DEF queueVars, listVars, gapVars
  <2>2. Shape'
    BY <1>3, <1>b, <2>1 DEF Shape, WorkerNotified, TypeOK, WorkerStates
  <2> QED
    BY <2>1, <2>2 DEF OrderInv, Places, OwedInOrder, Front, Back, Busy
<1>4. CASE TakeGap
  <2>1. gapFly' = gap /\ gapFlyThrough' = B /\ gap' = {} /\ inFlight' = 0 /\ F = c
    BY <1>4, <1>b, <1>c, <1>d DEF TakeGap, listVars, Shape
  <2>2. Front' = B /\ Back' = B /\ Busy' = gap
    BY <1>4, <2>1 DEF TakeGap, Front, Back, Busy
  <2>3. Shape'
    BY <1>4, <1>b, <2>1 DEF TakeGap, Shape, listVars, TypeOK, WorkerStates
  <2>4. c' = c /\ n' = n /\ queue' = queue
    BY <1>4 DEF TakeGap, listVars
  <2> QED
    BY <1>a, <2>1, <2>2, <2>3, <2>4 DEF OrderInv, Places, OwedInOrder
<1>5. CASE TakeNode
  <2>1. inFlight' = B + 1 /\ gapFly = {} /\ gap = {} /\ F = c /\ B = c /\ queue' = queue \ {B + 1}
        /\ queue # {}
    BY <1>5, <1>b, <1>c, <1>d, QueueEnds DEF TakeNode, Shape
  <2>2. gapVars' = gapVars /\ c' = c /\ n' = n
    BY <1>5 DEF TakeNode, gapVars
  <2>3. Front' = B + 1 /\ Back' = B + 1 /\ Busy' = {B + 1}
    BY <1>a, <2>1, <2>2 DEF gapVars, Front, Back, Busy
  <2>4. Shape'
    BY <1>5, <1>a, <1>b, <2>1, <2>2 DEF TakeNode, Shape, gapVars, TypeOK, WorkerStates
  <2>5. B + 1 <= n /\ queue' = (B + 2)..n
    BY <1>a, <2>1
  <2> QED
    BY <1>a, <2>1, <2>2, <2>3, <2>4, <2>5 DEF OrderInv, Places, OwedInOrder, gapVars
<1>6. ASSUME NEW result, Apply(result) \/ PersistGap(result) PROVE OrderInv'
  <2>1. Shape'
    BY <1>6, <1>b DEF Apply, PersistGap, Shape, queueVars, listVars, gapVars
  <2>2. (Places /\ OwedInOrder)'
    BY <1>6 DEF Apply, PersistGap, OrderInv, Places, OwedInOrder, Front, Back, Busy,
                queueVars, listVars, gapVars
  <2> QED
    BY <2>1, <2>2 DEF OrderInv
<1>7. CASE CompleteNode
  <2>1. /\ gapFly = {} /\ F = inFlight /\ inFlight = c + 1 /\ worker'.pc = "next"
        /\ inFlight' = 0 /\ UNCHANGED <<nextSeq, queue, gap, gapThrough, gapFly, gapFlyThrough>>
    BY <1>7, <1>b, <1>d DEF CompleteNode, Shape, gapVars
  <2>2. completedSeq' = F
    BY <1>7, <1>a, <2>1 DEF CompleteNode, Later
  <2>3. Front' = F /\ Back' = B /\ Busy' = {}
    BY <2>1, <2>2 DEF Front, Back, Busy
  <2>4. Shape'
    BY <1>b, <2>1 DEF Shape
  <2> QED
    BY <1>a, <2>1, <2>2, <2>3, <2>4 DEF OrderInv, Places, OwedInOrder
<1>8. CASE FailNode
  <2>1. /\ gapFly = {} /\ F = inFlight /\ inFlight = c + 1 /\ worker'.pc = "failed"
        /\ inFlight' = 0 /\ queue' = {} /\ UNCHANGED <<nextSeq, gapFly, gapFlyThrough>>
        /\ AddGap(queue)
    BY <1>8, <1>b, <1>d DEF FailNode, Fail, Shape
  <2>2. completedSeq' = F
    BY <1>8, <1>a, <2>1 DEF FailNode, Fail, Later
  <2>3. Front' = F /\ Busy' = {}
    BY <2>1, <2>2 DEF Front, Busy
  <2>4. Back' = n /\ gap' = (F + 1)..n /\ (gap' = {} => gapThrough' = 0)
    BY <1>g, <2>1, <2>3 DEF Back
  <2>5. Shape'
    BY <1>b, <2>1, <2>4 DEF Shape
  <2> QED
    BY <1>a, <2>1, <2>2, <2>3, <2>4, <2>5 DEF OrderInv, Places, OwedInOrder
<1>9. CASE CompleteGap
  <2>1. /\ gapFlyThrough = F /\ c < F /\ worker'.pc = "next" /\ inFlight = 0
        /\ gapFly' = {} /\ gapFlyThrough' = 0 /\ UNCHANGED <<inFlight, nextSeq, queue, gap, gapThrough>>
    BY <1>9, <1>b, <1>d DEF CompleteGap, Shape, listVars
  <2>2. completedSeq' = F
    BY <1>9, <1>a, <2>1 DEF CompleteGap, Later
  <2>3. Front' = F /\ Back' = B /\ Busy' = {}
    BY <2>1, <2>2 DEF Front, Back, Busy
  <2>4. Shape'
    BY <1>b, <2>1 DEF Shape
  <2> QED
    BY <1>a, <2>1, <2>2, <2>3, <2>4 DEF OrderInv, Places, OwedInOrder
<1>10. CASE FailGap
  <2>1. /\ gapFlyThrough = F /\ c < F /\ worker'.pc = "failed" /\ inFlight = 0
        /\ gapFly' = {} /\ gapFlyThrough' = 0 /\ queue' = {} /\ UNCHANGED <<inFlight, nextSeq>>
        /\ AddGap(queue)
    BY <1>10, <1>b, <1>d DEF FailGap, Fail, Shape
  <2>2. completedSeq' = F
    BY <1>10, <1>a, <2>1 DEF FailGap, Fail, Later
  <2>3. Front' = F /\ Busy' = {}
    BY <2>1, <2>2 DEF Front, Busy
  <2>4. Back' = n /\ gap' = (F + 1)..n /\ (gap' = {} => gapThrough' = 0)
    BY <1>g, <2>1, <2>3 DEF Back
  <2>5. Shape'
    BY <1>b, <2>1, <2>4 DEF Shape
  <2> QED
    BY <1>a, <2>1, <2>2, <2>3, <2>4, <2>5 DEF OrderInv, Places, OwedInOrder
<1>11. CASE Close
  <2>1. /\ AddGap(queue) /\ queue' = {} /\ worker' = WorkerNotified
        /\ UNCHANGED <<nextSeq, completedSeq, inFlight, gapFly, gapFlyThrough>>
    BY <1>11 DEF Close, CloseQueue
  <2>2. Front' = F /\ Busy' = Busy
    BY <1>e, <2>1
  <2>3. Back' = n /\ gap' = (F + 1)..n /\ (gap' = {} => gapThrough' = 0)
    BY <1>g, <2>1, <2>2 DEF Back
  <2>4. Shape'
    BY <1>f, <2>1, <2>3
  <2> QED
    BY <1>a, <2>1, <2>2, <2>3, <2>4 DEF OrderInv, Places, OwedInOrder
<1>12. CASE StartRun \/ Sleep \/ Stop \/ ReportFailure
  BY <1>3, <1>12 DEF StartRun, Sleep, Stop, ReportFailure, TypeOK, WorkerStates
<1>13. CASE StartFlush \/ ResumeFlush \/ CancelFlush \/ Seal \/ Wait
  BY <1>3, <1>13 DEF StartFlush, ResumeFlush, FlushLook, CancelFlush, Seal, Wait
<1>14. CASE UNCHANGED vars
  BY <1>3, <1>14 DEF vars
<1> QED
  BY <1>1, <1>2, <1>4, <1>5, <1>6, <1>7, <1>8, <1>9, <1>10, <1>11, <1>12, <1>13, <1>14
  DEF Next, Worker
-----------------------------------------------------------------------------
(* Every step preserves what is known of the store, and of the life of the *)
(* queue.                                                                  *)

\* Every method of the queue keeps the store at the deltas that precede what is
\* owed: a callback that returns nil removes exactly the oldest element.
LEMMA StoredStep ==
  ASSUME TypeOK, OrderInv, Stored, [Next]_vars
  PROVE  Stored'
<1> USE QueueAssumption
<1>a. Shape /\ Front \in Nat /\ completedSeq \in Nat /\ completedSeq <= Front
  BY QueueEnds DEF OrderInv, Places, TypeOK
\* The work in flight is all there is between completedSeq and Front.
<1>b. /\ worker.pc \in {"apply", "applied"} => Front = inFlight /\ inFlight = completedSeq + 1
      /\ worker.pc \in {"gap", "gapDone"} => /\ Front = gapFlyThrough
                                            /\ gapFly = (completedSeq + 1)..Front
  <2>1. Busy = (completedSeq + 1)..Front
    BY DEF OrderInv, OwedInOrder
  <2>2. inFlight # 0 => Front = inFlight /\ Busy = {inFlight}
    BY <1>a DEF Shape, Front, Busy
  <2>3. gapFly # {} => Front = gapFlyThrough /\ Busy = gapFly
    BY <1>a DEF Shape, Front, Busy
  <2> QED
    BY <1>a, <2>1, <2>2, <2>3 DEF Shape
\* Steps that leave the store, completedSeq and the work in flight alone.
<1>c. ASSUME UNCHANGED <<applied, gapped, completedSeq, inFlight, gapFly, gapFlyThrough, unavailable>>,
             worker' \in {WorkerNotified, worker}
      PROVE  Stored'
  <2>1. Front' = Front
    BY <1>c DEF Front
  <2>2. worker'.result = worker.result
        /\ (worker'.pc = worker.pc \/ (worker.pc = "sleep" /\ worker'.pc = "next"))
    BY <1>c DEF WorkerNotified, TypeOK, WorkerStates
  <2>3. JustStored' = JustStored
    BY <2>2 DEF JustStored
  <2>4. StoredUpTo' = StoredUpTo
    BY <1>c, <2>1, <2>3 DEF StoredUpTo
  <2> QED
    BY <1>c, <2>2, <2>4 DEF Stored
<1>1. ASSUME NEW bytes \in Sizes, EnqueueNode(bytes) \/ EnqueueGap(bytes) PROVE Stored'
  BY <1>1, <1>c DEF EnqueueNode, EnqueueGap, storeVars
<1>2. CASE StartRun \/ Sleep \/ Stop \/ TakeGap \/ TakeNode \/ ReportFailure
  <2>1. UNCHANGED <<applied, gapped, completedSeq, unavailable>>
    BY <1>2 DEF StartRun, Sleep, Stop, TakeGap, TakeNode, ReportFailure, queueVars, storeVars
  <2>2. ~JustStored /\ ~JustStored'
    BY <1>2 DEF StartRun, Sleep, Stop, TakeGap, TakeNode, ReportFailure, JustStored,
                TypeOK, WorkerStates
  <2>3. (unavailable => worker'.pc \in {"failed", "end"}) /\ worker'.pc # "failed"
    BY <1>2 DEF StartRun, Sleep, Stop, TakeGap, TakeNode, ReportFailure, Stored,
                TypeOK, WorkerStates
  <2> QED
    BY <2>1, <2>2, <2>3 DEF Stored, StoredUpTo
<1>3. ASSUME NEW result, Apply(result) \/ PersistGap(result) PROVE Stored'
  <2>1. /\ ~unavailable /\ applied \cup gapped = 1..completedSeq
        /\ UNCHANGED <<completedSeq, inFlight, gapFly, gapFlyThrough, unavailable>>
    BY <1>3 DEF Apply, PersistGap, Stored, StoredUpTo, JustStored, queueVars, listVars, gapVars
  <2>2. Front' = Front
    BY <2>1 DEF Front
  <2>3. CASE result = "failed"
    <3>1. ~JustStored' /\ applied' = applied /\ gapped' = gapped
      BY <1>3, <2>3 DEF JustStored, Apply, PersistGap
    <3>2. worker'.pc # "failed"
      BY <1>3 DEF Apply, PersistGap
    <3> QED
      BY <2>1, <3>1, <3>2 DEF Stored, StoredUpTo
  <2>4. CASE result # "failed"
    <3>1. JustStored'
      BY <1>3, <2>4 DEF JustStored, Apply, PersistGap
    <3>2. applied' \cup gapped' = (applied \cup gapped) \cup (completedSeq + 1)..Front
      BY <1>3, <1>a, <1>b, <2>4 DEF Apply, PersistGap
    <3>3. applied' \cup gapped' = 1..Front
      BY <1>a, <2>1, <3>2
    <3> QED
      BY <2>1, <2>2, <3>1, <3>3 DEF Stored, StoredUpTo, JustStored
  <2> QED
    BY <2>3, <2>4
<1>4. CASE CompleteNode \/ CompleteGap
  <2>1. JustStored /\ ~unavailable
    BY <1>4, <1>a DEF CompleteNode, CompleteGap, JustStored, Shape, Stored
  <2>2. completedSeq' = Front
    BY <1>4, <1>a, <1>b DEF CompleteNode, CompleteGap, Later
  <2>3. ~JustStored' /\ worker'.pc # "failed" /\ UNCHANGED <<unavailable, applied, gapped>>
    BY <1>4 DEF CompleteNode, CompleteGap, JustStored, storeVars
  <2> QED
    BY <2>1, <2>2, <2>3 DEF Stored, StoredUpTo
<1>5. CASE FailNode \/ FailGap
  BY <1>5 DEF FailNode, FailGap, Fail, Stored
<1>6. CASE StartFlush \/ ResumeFlush \/ CancelFlush \/ Seal \/ Wait \/ Close
  BY <1>6, <1>c DEF StartFlush, ResumeFlush, FlushLook, CancelFlush, Seal, Wait, Close,
                    CloseQueue, queueVars, listVars, gapVars, storeVars
<1>7. CASE UNCHANGED vars
  BY <1>7, <1>c DEF vars, queueVars, listVars, gapVars, storeVars
<1> QED
  BY <1>1, <1>2, <1>3, <1>4, <1>5, <1>6, <1>7 DEF Next, Worker

\* Every method of the queue keeps the order of Seal, Wait and Close: nobody
\* accepts after the seal, and the worker's end is what Wait saw.
LEMMA LifeStep ==
  ASSUME TypeOK, Stored, Life, [Next]_vars
  PROVE  Life'
<1> USE DEF Life
<1>1. ASSUME NEW bytes \in Sizes, EnqueueNode(bytes) \/ EnqueueGap(bytes) PROVE Life'
  BY <1>1 DEF EnqueueNode, EnqueueGap, Accepting, WorkerNotified, lifeVars, TypeOK, WorkerStates
<1>2. CASE StartRun \/ Sleep \/ Stop \/ TakeGap \/ TakeNode \/ ReportFailure
  BY <1>2 DEF StartRun, Sleep, Stop, TakeGap, TakeNode, ReportFailure, Finish, Stored,
              queueVars, listVars, gapVars, lifeVars, TypeOK, WorkerStates
<1>3. ASSUME NEW result, Apply(result) \/ PersistGap(result) PROVE Life'
  BY <1>3 DEF Apply, PersistGap, lifeVars
<1>4. CASE CompleteNode \/ CompleteGap \/ FailNode \/ FailGap
  BY <1>4 DEF CompleteNode, CompleteGap, FailNode, FailGap, lifeVars
<1>5. CASE StartFlush \/ ResumeFlush \/ CancelFlush
  BY <1>5 DEF StartFlush, ResumeFlush, FlushLook, CancelFlush, queueVars, listVars, gapVars, lifeVars
<1>6. CASE Seal \/ Wait
  BY <1>6 DEF Seal, Wait, WorkerNotified, queueVars, listVars, gapVars, lifeVars, TypeOK, WorkerStates
<1>7. CASE Close
  BY <1>7 DEF Close, CloseQueue
<1>8. CASE UNCHANGED vars
  BY <1>8 DEF vars, queueVars, listVars, gapVars, lifeVars
<1> QED
  BY <1>1, <1>2, <1>3, <1>4, <1>5, <1>6, <1>7, <1>8 DEF Next, Worker

\* Every step keeps the fence of a pending Flush: the deltas up to its target are
\* owed until the worker has settled them.
LEMMA FenceStep ==
  ASSUME TypeOK, OrderInv, Stored, FlushFence, [Next]_vars
  PROVE  FlushFence'
<1> USE QueueAssumption
\* The store only grows, and closed stays; a notification gives no result.
<1>a. ASSUME applied \subseteq applied', gapped \subseteq gapped', closed => closed',
             flush'.result = flush.result, flush'.target = flush.target
      PROVE  FlushFence'
  BY <1>a DEF FlushFence
<1>b. FlushNotified.result = flush.result /\ FlushNotified.target = flush.target
  BY DEF FlushNotified, TypeOK, FlushStates
<1>1. ASSUME NEW bytes \in Sizes, EnqueueNode(bytes) \/ EnqueueGap(bytes) PROVE FlushFence'
  BY <1>1, <1>a, <1>b DEF EnqueueNode, EnqueueGap, lifeVars, storeVars
<1>2. CASE StartRun \/ Sleep \/ Stop \/ TakeGap \/ TakeNode \/ ReportFailure
  BY <1>2, <1>a DEF StartRun, Sleep, Stop, TakeGap, TakeNode, ReportFailure, Finish,
                    lifeVars, storeVars
<1>3. ASSUME NEW result, Apply(result) \/ PersistGap(result) PROVE FlushFence'
  BY <1>3, <1>a DEF Apply, PersistGap, lifeVars
<1>4. CASE CompleteNode \/ CompleteGap \/ FailNode \/ FailGap
  BY <1>4, <1>a, <1>b DEF CompleteNode, CompleteGap, FailNode, FailGap, lifeVars, storeVars
<1>5. ASSUME NEW target \in 0..MaxSeq, FlushLook(target) PROVE FlushFence'
  <2>1. CASE flush'.result = "ok"
    <3>1. ~unavailable /\ (completedSeq >= target \/ closed) /\ flush'.target = target
          /\ UNCHANGED <<applied, gapped, closed>>
      BY <1>5, <2>1 DEF FlushLook, Settled, lifeVars, storeVars
    <3>2. applied \cup gapped = 1..StoredUpTo /\ StoredUpTo >= completedSeq
          /\ StoredUpTo \in Nat /\ completedSeq \in Nat
      BY <3>1, QueueEnds DEF Stored, StoredUpTo, OrderInv, Places, TypeOK
    <3>3. completedSeq >= target => 1..target \subseteq applied \cup gapped
      BY <3>2
    <3> QED
      BY <3>1, <3>3 DEF FlushFence
  <2> QED
    BY <2>1 DEF FlushFence
<1>6. CASE StartFlush \/ ResumeFlush
  BY <1>5, <1>6 DEF StartFlush, ResumeFlush, TypeOK, FlushStates
<1>7. CASE CancelFlush
  BY <1>7 DEF CancelFlush, FlushFence, TypeOK, FlushStates
<1>8. CASE Seal \/ Wait \/ Close
  BY <1>8, <1>a, <1>b DEF Seal, Wait, Close, CloseQueue, lifeVars, storeVars
<1>9. CASE UNCHANGED vars
  BY <1>9, <1>a DEF vars, lifeVars, storeVars
<1> QED
  BY <1>1, <1>2, <1>3, <1>4, <1>6, <1>7, <1>8, <1>9 DEF Next, Worker
-----------------------------------------------------------------------------
(* The memory bound.                                                       *)

\* Bytes is a measure: of one delta it is its size, and it adds up.
LEMMA MeasureSingle ==
  ASSUME NEW f \in [Seqs -> 0..MaxSize], NEW s \in Seqs
  PROVE  Measure(f, {s}) = f[s]
<1> DEFINE B == {p \in {s} \X (1..MaxSize) : p[2] <= f[p[1]]}
           h == [k \in 1..f[s] |-> <<s, k>>]
<1>1. f[s] \in 0..MaxSize /\ MaxSize \in Nat
  BY QueueAssumption
<1>2. h \in [1..f[s] -> B]
  BY <1>1
<1>3. \A x, y \in 1..f[s] : h[x] = h[y] => x = y
  OBVIOUS
<1>4. \A p \in B : \E k \in 1..f[s] : h[k] = p
  <2>1. TAKE p \in B
  <2>2. p[1] = s /\ p[2] \in 1..f[s] /\ p = <<s, p[2]>>
    BY <1>1, <2>1
  <2> WITNESS p[2] \in 1..f[s]
  <2> QED
    BY <2>2
<1>5. ExistsBijection(1..f[s], B)
  BY <1>2, <1>3, <1>4, Zenon DEF ExistsBijection, Bijection, Injection, Surjection, IsInjective
<1>6. IsFiniteSet(1..f[s]) /\ Cardinality(1..f[s]) = f[s]
  <2>1. ASSUME NEW n \in Nat PROVE IsFiniteSet(1..n) /\ Cardinality(1..n) = n
    BY FS_Interval
  <2> QED
    BY <1>1, <2>1
<1> QED
  BY <1>5, <1>6, FS_Bijection DEF Measure

\* The bytes of two disjoint sets of deltas add up: what Enqueue charges and
\* completeNode gives back.
LEMMA MeasureUnion ==
  ASSUME NEW f, NEW S \in SUBSET Seqs, NEW T \in SUBSET Seqs, S \cap T = {}
  PROVE  /\ Measure(f, S \cup T) = Measure(f, S) + Measure(f, T)
         /\ Measure(f, S) \in Nat /\ Measure(f, T) \in Nat
<1> DEFINE P == Seqs \X (1..MaxSize)
           B(X) == {p \in X \X (1..MaxSize) : p[2] <= f[p[1]]}
<1>1. IsFiniteSet(Seqs) /\ IsFiniteSet(1..MaxSize)
  BY QueueAssumption, FS_Interval DEF Seqs
<1>2. IsFiniteSet(P)
  BY <1>1, FS_Product
<1>3. B(S) \in SUBSET P /\ B(T) \in SUBSET P
  OBVIOUS
<1>4. IsFiniteSet(B(S)) /\ IsFiniteSet(B(T))
  BY <1>2, <1>3, FS_Subset
<1>5. Cardinality(B(S)) \in Nat /\ Cardinality(B(T)) \in Nat
  BY <1>4, FS_CardinalityType
<1>6. B(S \cup T) = B(S) \cup B(T) /\ B(S) \cap B(T) = {}
  OBVIOUS
<1>7. Cardinality(B(S) \cup B(T)) = Cardinality(B(S)) + Cardinality(B(T)) - Cardinality(B(S) \cap B(T))
  BY <1>4, FS_Union
<1>8. Cardinality(B(S) \cap B(T)) = 0
  BY <1>6, FS_EmptySet
<1>9. Measure(f, S) = Cardinality(B(S)) /\ Measure(f, T) = Cardinality(B(T))
      /\ Measure(f, S \cup T) = Cardinality(B(S) \cup B(T))
  BY <1>6 DEF Measure
<1> HIDE DEF B
<1> QED
  BY <1>5, <1>7, <1>8, <1>9

\* No deltas have no bytes: a new queue has pendingBytes = 0.
LEMMA MeasureEmpty ==
  ASSUME NEW f
  PROVE  Measure(f, {}) = 0
<1>1. {p \in {} \X (1..MaxSize) : p[2] <= f[p[1]]} = {}
  OBVIOUS
<1> QED
  BY <1>1, FS_EmptySet DEF Measure

\* It depends on the sizes of the deltas it measures only.
LEMMA MeasureSame ==
  ASSUME NEW f, NEW g, NEW S, \A s \in S : f[s] = g[s]
  PROVE  Measure(f, S) = Measure(g, S)
<1>1. {p \in S \X (1..MaxSize) : p[2] <= f[p[1]]} = {p \in S \X (1..MaxSize) : p[2] <= g[p[1]]}
  OBVIOUS
<1> QED
  BY <1>1 DEF Measure

\* Every method of the queue keeps pendingBytes equal to the bytes of the list and
\* of the delta in flight, and within the capacity.
LEMMA ResidentStep ==
  ASSUME TypeOK, OrderInv, Resident, [Next]_vars
  PROVE  Resident'
<1> USE QueueAssumption
<1>a. /\ queue \subseteq Seqs /\ InFlightSet \subseteq Seqs /\ resident \in Nat
      /\ size \in [Seqs -> 0..MaxSize]
  BY DEF TypeOK, InFlightSet, Seqs
<1>b. /\ Measure(size, queue) \in Nat /\ Measure(size, InFlightSet) \in Nat
      /\ Measure(size, {}) = 0
  <2>1. Measure(size, {}) = 0
    BY MeasureEmpty
  <2>2. ASSUME NEW S \in SUBSET Seqs PROVE Measure(size, S) \in Nat
    <3>1. {} \in SUBSET Seqs /\ S \cap {} = {}
      OBVIOUS
    <3> QED
      BY <3>1, MeasureUnion
  <2> QED
    BY <1>a, <2>1, <2>2
<1>c. Less(Measure(size, queue)) = Measure(size, InFlightSet)
  BY <1>a, <1>b DEF Less, Later, Resident
<1>d. inFlight # 0 => Measure(size, InFlightSet) = size[inFlight]
  BY <1>a, MeasureSingle DEF InFlightSet
\* The incoming delta is new.
<1>e. /\ nextSeq \in Nat
      /\ \A s \in queue \cup InFlightSet : s # nextSeq + 1
  <2>1. Front \in Nat /\ Back \in Nat /\ nextSeq \in Nat /\ Front <= nextSeq /\ completedSeq \in Nat
    BY QueueEnds DEF OrderInv, Places, TypeOK
  <2>2. inFlight # 0 => inFlight = Front
    BY DEF OrderInv, Shape, Front
  <2> QED
    BY <2>1, <2>2 DEF OrderInv, OwedInOrder, InFlightSet
<1>f. ASSUME NEW bytes, nextSeq < MaxSeq, bytes \in 1..MaxSize,
             size' = [size EXCEPT ![nextSeq + 1] = bytes], inFlight' = inFlight
      PROVE  /\ nextSeq + 1 \in Seqs
             /\ Measure(size', queue) = Measure(size, queue)
             /\ Measure(size', InFlightSet') = Measure(size, InFlightSet)
             /\ Measure(size', {nextSeq + 1}) = bytes
             /\ Measure(size', queue \cup {nextSeq + 1}) = Measure(size, queue) + bytes
  <2>1. nextSeq + 1 \in Seqs /\ size' \in [Seqs -> 0..MaxSize] /\ size'[nextSeq + 1] = bytes
    BY <1>a, <1>e, <1>f DEF Seqs
  <2>2. \A s \in queue \cup InFlightSet : size'[s] = size[s]
    BY <1>a, <1>e, <1>f
  <2>3. InFlightSet' = InFlightSet
    BY <1>f DEF InFlightSet
  <2>4. Measure(size', queue) = Measure(size, queue)
    BY <2>2, MeasureSame
  <2>5. Measure(size', InFlightSet) = Measure(size, InFlightSet)
    BY <2>2, MeasureSame
  <2>6. Measure(size', {nextSeq + 1}) = bytes
    BY <2>1, MeasureSingle
  <2>7. queue \cap {nextSeq + 1} = {} /\ {nextSeq + 1} \in SUBSET Seqs
    BY <1>e, <2>1
  <2>8. Measure(size', queue \cup {nextSeq + 1}) = Measure(size', queue) + Measure(size', {nextSeq + 1})
    BY <1>a, <2>7, MeasureUnion
  <2> QED
    BY <2>1, <2>3, <2>4, <2>5, <2>6, <2>8
<1>1. ASSUME NEW bytes \in Sizes, EnqueueNode(bytes) PROVE Resident'
  <2>1. /\ size' = [size EXCEPT ![nextSeq + 1] = bytes] /\ inFlight' = inFlight
        /\ nextSeq < MaxSeq /\ bytes \in 1..MaxSize
    BY <1>1 DEF EnqueueNode, Accepting
  <2>a. /\ Measure(size', InFlightSet') = Measure(size, InFlightSet)
        /\ Measure(size', {nextSeq + 1}) = bytes
        /\ Measure(size', queue \cup {nextSeq + 1}) = Measure(size, queue) + bytes
    BY <1>f, <2>1
  <2>b. Resident' <=> /\ resident' = Measure(size', queue') + Measure(size', InFlightSet')
                      /\ resident' <= Capacity
    BY DEF Resident
  <2>2. CASE resident + bytes > Capacity
    <3>1. queue' = {nextSeq + 1} /\ resident' = Less(Measure(size, queue)) + bytes
          /\ resident' <= Capacity
      BY <1>1, <2>2 DEF EnqueueNode, Bytes, Measure
    <3> QED
      BY <1>b, <1>c, <2>1, <2>a, <2>b, <3>1
  <2>3. CASE ~(resident + bytes > Capacity)
    <3>1. queue' = queue \cup {nextSeq + 1} /\ resident' = Less(Measure(size, {})) + bytes
          /\ resident' <= Capacity
      BY <1>1, <2>3 DEF EnqueueNode, Bytes, Measure
    <3>2. resident' = resident + bytes
      BY <1>a, <1>b, <2>1, <3>1 DEF Less, Later
    <3>3. resident = Measure(size, queue) + Measure(size, InFlightSet)
      BY DEF Resident
    <3> QED
      BY <1>b, <2>1, <2>a, <2>b, <3>1, <3>2, <3>3
  <2> QED
    BY <2>2, <2>3
<1>2. ASSUME NEW bytes \in Sizes, EnqueueGap(bytes) PROVE Resident'
  <2>1. /\ size' = [size EXCEPT ![nextSeq + 1] = bytes] /\ inFlight' = inFlight
        /\ nextSeq < MaxSeq /\ bytes \in 1..MaxSize
        /\ queue' = {} /\ resident' = Less(Measure(size, queue))
    BY <1>2 DEF EnqueueGap, Accepting, Bytes, Measure
  <2>2. Measure(size', {}) = 0
    BY MeasureEmpty
  <2>3. Measure(size', InFlightSet') = Measure(size, InFlightSet)
    BY <1>f, <2>1
  <2>4. Resident' <=> /\ resident' = Measure(size', queue') + Measure(size', InFlightSet')
                      /\ resident' <= Capacity
    BY DEF Resident
  <2>5. resident = Measure(size, queue) + Measure(size, InFlightSet) /\ resident <= Capacity
    BY DEF Resident
  <2> QED
    BY <1>b, <1>c, <2>1, <2>2, <2>3, <2>4, <2>5
<1>3. CASE TakeNode
  <2> DEFINE m == Min(queue)
  <2>1. /\ inFlight = 0 /\ m \in queue /\ m # 0 /\ inFlight' = m /\ queue' = queue \ {m}
        /\ size' = size /\ resident' = resident
    <3>1. queue = (Back + 1)..nextSeq /\ m = Back + 1 /\ queue # {} /\ Back \in Nat
      BY <1>3, QueueEnds DEF TakeNode, OrderInv, OwedInOrder
    <3> QED
      BY <1>3, <1>e, <3>1 DEF TakeNode, OrderInv, Shape
  <2>2. InFlightSet = {} /\ InFlightSet' = {m}
    BY <2>1 DEF InFlightSet
  <2>3. queue = queue' \cup {m} /\ queue' \cap {m} = {} /\ queue' \in SUBSET Seqs
        /\ {m} \in SUBSET Seqs
    BY <1>a, <2>1
  <2>4. /\ Measure(size, queue' \cup {m}) = Measure(size, queue') + Measure(size, {m})
    BY <2>3, MeasureUnion
  <2>5. Measure(size, queue) = Measure(size, queue') + Measure(size, {m})
    BY <2>3, <2>4
  <2>6. Measure(size, InFlightSet) = 0 /\ Measure(size', InFlightSet') = Measure(size, {m})
        /\ Measure(size', queue') = Measure(size, queue')
    BY <1>b, <2>1, <2>2
  <2> QED
    BY <1>a, <1>b, <2>1, <2>5, <2>6 DEF Resident
<1>4. CASE CompleteNode
  <2>1. inFlight # 0 /\ inFlight' = 0 /\ size' = size /\ queue' = queue
        /\ resident' = Less(size[inFlight])
    BY <1>4 DEF CompleteNode, OrderInv, Shape
  <2>2. InFlightSet' = {}
    BY <2>1 DEF InFlightSet
  <2> QED
    BY <1>a, <1>b, <1>d, <2>1, <2>2 DEF Resident, Less, Later
<1>5. CASE FailNode
  <2>1. inFlight # 0 /\ inFlight' = 0 /\ size' = size /\ queue' = {}
        /\ resident' = Later(0, Less(size[inFlight]) - Measure(size, queue))
    BY <1>5 DEF FailNode, Fail, OrderInv, Shape, Bytes, Measure
  <2>2. InFlightSet' = {}
    BY <2>1 DEF InFlightSet
  <2> QED
    BY <1>a, <1>b, <1>d, <2>1, <2>2 DEF Resident, Less, Later
<1>6. CASE FailGap \/ Close
  <2>1. inFlight' = inFlight /\ size' = size /\ queue' = {}
        /\ resident' = Less(Measure(size, queue))
    BY <1>6 DEF FailGap, Fail, Close, CloseQueue, Bytes, Measure
  <2>2. InFlightSet' = InFlightSet
    BY <2>1 DEF InFlightSet
  <2> QED
    BY <1>a, <1>b, <1>c, <2>1, <2>2 DEF Resident
<1>7. ASSUME UNCHANGED listVars PROVE Resident'
  BY <1>7 DEF Resident, InFlightSet, listVars
<1>8. ASSUME NEW result, Apply(result) \/ PersistGap(result) PROVE Resident'
  BY <1>7, <1>8 DEF Apply, PersistGap, queueVars
<1>9. CASE \/ StartRun \/ Sleep \/ Stop \/ TakeGap \/ CompleteGap \/ ReportFailure
           \/ StartFlush \/ ResumeFlush \/ CancelFlush \/ Seal \/ Wait \/ UNCHANGED vars
  BY <1>7, <1>9 DEF StartRun, Sleep, Stop, TakeGap, CompleteGap, ReportFailure, StartFlush,
     ResumeFlush, FlushLook, CancelFlush, Seal, Wait, vars, queueVars
<1> QED
  BY <1>1, <1>2, <1>3, <1>4, <1>5, <1>6, <1>8, <1>9 DEF Next, Worker
-----------------------------------------------------------------------------
(* The theorems.                                                           *)

\* A queue as newTerminalHistoryDeltaQueue makes it satisfies the inductive
\* invariant.
LEMMA InitInv == Init => IndInv
<1> SUFFICES ASSUME Init PROVE IndInv
  OBVIOUS
<1> USE QueueAssumption
<1>1. TypeOK
  <2>1. worker \in WorkerStates /\ flush \in FlushStates
    BY DEF Init, WorkerStates, FlushStates
  <2>2. size \in [Seqs -> 0..MaxSize]
    BY DEF Init
  <2>3. /\ nextSeq \in 0..MaxSeq /\ completedSeq \in 0..MaxSeq /\ inFlight \in 0..MaxSeq
        /\ gapThrough \in 0..MaxSeq /\ gapFlyThrough \in 0..MaxSeq /\ resident \in Nat
        /\ dropped \in Nat /\ gapCount \in Nat /\ epoch \in Nat
    BY DEF Init
  <2>4. /\ queue \subseteq Seqs /\ gap \subseteq Seqs /\ gapFly \subseteq Seqs
        /\ applied \subseteq Seqs /\ gapped \subseteq Seqs
    BY DEF Init
  <2>5. /\ started \in BOOLEAN /\ sealed \in BOOLEAN /\ closed \in BOOLEAN
        /\ done \in BOOLEAN /\ unavailable \in BOOLEAN
        /\ closer \in {"idle", "wait", "close", "end"}
    BY DEF Init
  <2> QED
    BY <2>1, <2>2, <2>3, <2>4, <2>5 DEF TypeOK
<1>2. OrderInv
  BY DEF Init, OrderInv, Shape, Places, OwedInOrder, Front, Back, Busy
<1>3. Stored /\ Life /\ FlushFence
  BY DEF Init, Stored, StoredUpTo, JustStored, Life, FlushFence
<1>4. Resident
  <2>1. queue = {} /\ InFlightSet = {} /\ resident = 0
    BY DEF Init, InFlightSet
  <2>2. Measure(size, {}) = 0
    BY MeasureEmpty
  <2> QED
    BY <2>1, <2>2 DEF Resident
<1> QED
  BY <1>1, <1>2, <1>3, <1>4 DEF IndInv

\* Every step of the queue, of its worker and of its callers preserves the
\* inductive invariant.
LEMMA Inductive == IndInv /\ [Next]_vars => IndInv'
<1> SUFFICES ASSUME IndInv, [Next]_vars PROVE IndInv'
  OBVIOUS
<1>1. TypeOK /\ OrderInv /\ Stored /\ Life /\ FlushFence /\ Resident
  BY DEF IndInv
<1>2. TypeOK' /\ OrderInv'
  BY <1>1, TypeStep, OrderStep
<1>3. Stored' /\ Life'
  BY <1>1, StoredStep, LifeStep
<1>4. FlushFence' /\ Resident'
  BY <1>1, FenceStep, ResidentStep
<1> QED
  BY <1>2, <1>3, <1>4 DEF IndInv

\* The inductive invariant holds in every state of every behaviour of the queue.
THEOREM Invariance == Spec => []IndInv
BY InitInv, Inductive, PTL DEF Spec

\* The queue is type correct.
THEOREM TypeCorrect == Spec => []TypeOK
<1>1. IndInv => TypeOK
  BY DEF IndInv
<1> QED
  BY <1>1, Invariance, PTL

\* Whatever Enqueue, Close and the failures of the store do, the deltas the
\* queue still owes lie in sequence order: in flight, gap, list.
THEOREM OrderCorrect == Spec => []OwedInOrder
<1>1. IndInv => OwedInOrder
  BY DEF IndInv, OrderInv
<1> QED
  BY <1>1, Invariance, PTL

\* A Flush that returns nil is a fence for everything enqueued before it.
THEOREM FenceCorrect == Spec => []FlushFence
<1>1. IndInv => FlushFence
  BY DEF IndInv
<1> QED
  BY <1>1, Invariance, PTL

\* The list and the delta in flight share no delta, so that resident counts
\* exactly what both hold.
LEMMA BoundFollows ==
  ASSUME IndInv
  PROVE  ResidentBounded
<1>1. queue \in SUBSET Seqs /\ InFlightSet \in SUBSET Seqs /\ queue \cap InFlightSet = {}
  <2>1. TypeOK /\ OrderInv
    BY DEF IndInv
  <2>2. inFlight # 0 => inFlight = Front /\ Front <= Back /\ Front \in Nat /\ Back \in Nat
    BY <2>1, QueueEnds, QueueAssumption DEF OrderInv, Shape, Front, Places
  <2>3. queue = (Back + 1)..nextSeq /\ nextSeq \in Nat
    BY <2>1, QueueAssumption DEF OrderInv, OwedInOrder, TypeOK
  <2> QED
    BY <2>1, <2>2, <2>3 DEF TypeOK, InFlightSet, Seqs
<1>2. Measure(size, queue \cup InFlightSet) = Measure(size, queue) + Measure(size, InFlightSet)
  BY <1>1, MeasureUnion
<1>3. Bytes(queue \cup InFlightSet) = Measure(size, queue \cup InFlightSet)
  BY DEF Bytes, Measure
<1>4. resident = Measure(size, queue) + Measure(size, InFlightSet) /\ resident <= Capacity
  BY DEF IndInv, Resident
<1> QED
  BY <1>2, <1>3, <1>4 DEF ResidentBounded, InFlightSet

\* The resident bytes are exact and never exceed the capacity.
THEOREM BoundCorrect == Spec => []ResidentBounded
<1>1. IndInv => ResidentBounded
  BY BoundFollows
<1> QED
  BY <1>1, Invariance, PTL

\* A worker that has ended in a sealed queue has left nothing behind.
LEMMA DrainFollows ==
  ASSUME IndInv
  PROVE  SealDrains
<1>1. ASSUME IndInv, closer = "close", ~unavailable PROVE applied \cup gapped = 1..nextSeq
  <2>1. worker.pc = "end" /\ gap = {} /\ queue = {}
    BY <1>1 DEF IndInv, Life
  <2>2. inFlight = 0 /\ gapFly = {} /\ ~JustStored
    BY <1>1, <2>1 DEF IndInv, OrderInv, Shape, JustStored
  <2>3. Front = completedSeq /\ Back = completedSeq
    BY <2>1, <2>2 DEF Front, Back
  <2>4. queue = (completedSeq + 1)..nextSeq /\ completedSeq <= nextSeq
        /\ completedSeq \in Nat /\ nextSeq \in Nat
    BY <1>1, <2>3, QueueAssumption DEF IndInv, OrderInv, OwedInOrder, Places, TypeOK
  <2>5. completedSeq = nextSeq
    BY <2>1, <2>4
  <2> QED
    BY <1>1, <2>2, <2>5 DEF IndInv, Stored, StoredUpTo
<1> QED
  BY <1>1 DEF SealDrains

\* Seal, Wait, Close puts everything the queue accepted into the store, unless
\* the store fails.
THEOREM DrainCorrect == Spec => []SealDrains
<1>1. IndInv => SealDrains
  BY DrainFollows
<1> QED
  BY <1>1, Invariance, PTL

\* Every step of the queue is a step of the stream that the store is promised:
\* Enqueue produces, a successful callback ingests or loses the next elements,
\* a failure breaks the stream, and everything else leaves it alone.
LEMMA StepRefines ==
  ASSUME IndInv, [Next]_vars
  PROVE  [Store!Next]_(Store!vars)
<1> USE QueueAssumption
<1>a. TypeOK /\ OrderInv /\ Stored /\ Shape
  BY DEF IndInv, OrderInv
<1>b. /\ Front \in Nat /\ completedSeq \in Nat /\ nextSeq \in Nat
      /\ completedSeq <= Front /\ Front <= nextSeq
      /\ Busy = (completedSeq + 1)..Front
  BY <1>a, QueueEnds DEF OrderInv, Places, TypeOK, OwedInOrder
<1>1. ASSUME UNCHANGED <<nextSeq, applied, gapped, unavailable>> PROVE UNCHANGED Store!vars
  BY <1>1 DEF Store!vars
<1>2. ASSUME NEW bytes \in Sizes, EnqueueNode(bytes) \/ EnqueueGap(bytes) PROVE Store!Next
  BY <1>2 DEF EnqueueNode, EnqueueGap, storeVars, Store!Next, Store!Produce
<1>3. ASSUME NEW result, Apply(result) PROVE [Store!Next]_(Store!vars)
  <2>1. /\ ~unavailable /\ applied \cup gapped = 1..completedSeq
        /\ UNCHANGED <<nextSeq, unavailable>>
    BY <1>3, <1>a DEF Apply, Stored, StoredUpTo, JustStored, queueVars
  <2>2. inFlight = completedSeq + 1 /\ inFlight <= nextSeq
    <3>1. inFlight # 0 /\ gapFly = {}
      BY <1>3, <1>a DEF Apply, Shape
    <3>2. Front = inFlight /\ Busy = {inFlight}
      BY <3>1 DEF Front, Busy
    <3> QED
      BY <1>b, <3>2
  <2>3. completedSeq \in 0..nextSeq /\ inFlight \in 0..nextSeq /\ completedSeq < inFlight
        /\ {inFlight} = (completedSeq + 1)..inFlight
    BY <1>b, <2>2
  <2>4. CASE result = "ok"
    <3>1. applied' = applied \cup (completedSeq + 1)..inFlight /\ gapped' = gapped
      BY <1>3, <2>3, <2>4 DEF Apply
    <3>2. Store!Ingest
      BY <2>1, <2>3, <3>1 DEF Store!Ingest, Store!Settled
    <3> QED
      BY <3>2 DEF Store!Next
  <2>5. CASE result = "recovered"
    <3>1. gapped' = gapped \cup (completedSeq + 1)..inFlight /\ applied' = applied
      BY <1>3, <2>3, <2>5 DEF Apply
    <3>2. Store!Lose
      BY <2>1, <2>3, <3>1 DEF Store!Lose, Store!Settled
    <3> QED
      BY <3>2 DEF Store!Next
  <2>6. CASE result = "failed"
    BY <1>1, <1>3, <2>1, <2>6 DEF Apply
  <2> QED
    BY <1>3, <2>4, <2>5, <2>6 DEF Apply
<1>4. ASSUME NEW result, PersistGap(result) PROVE [Store!Next]_(Store!vars)
  <2>1. /\ ~unavailable /\ applied \cup gapped = 1..completedSeq
        /\ UNCHANGED <<nextSeq, unavailable, applied>>
    BY <1>4, <1>a DEF PersistGap, Stored, StoredUpTo, JustStored, queueVars
  <2>2. gapFly # {} /\ gapFly = (completedSeq + 1)..Front
    BY <1>4, <1>a, <1>b DEF PersistGap, Shape, Busy
  <2>3. completedSeq \in 0..nextSeq /\ Front \in 0..nextSeq /\ completedSeq < Front
    BY <1>b, <2>2
  <2>4. CASE result = "ok"
    <3>1. gapped' = gapped \cup (completedSeq + 1)..Front
      BY <1>4, <2>2, <2>4 DEF PersistGap
    <3>2. Store!Lose
      BY <2>1, <2>3, <3>1 DEF Store!Lose, Store!Settled
    <3> QED
      BY <3>2 DEF Store!Next
  <2>5. CASE result = "failed"
    BY <1>1, <1>4, <2>1, <2>5 DEF PersistGap
  <2> QED
    BY <1>4, <2>4, <2>5 DEF PersistGap
<1>5. CASE FailNode \/ FailGap
  <2>1. ~unavailable
    BY <1>5, <1>a DEF FailNode, FailGap, Stored
  <2>2. Store!Break
    BY <1>5, <2>1 DEF FailNode, FailGap, Fail, storeVars, Store!Break
  <2> QED
    BY <2>2 DEF Store!Next
<1>6. CASE \/ StartRun \/ Sleep \/ Stop \/ TakeGap \/ TakeNode \/ CompleteNode \/ CompleteGap
           \/ ReportFailure \/ StartFlush \/ ResumeFlush \/ CancelFlush \/ Seal \/ Wait
           \/ Close \/ UNCHANGED vars
  BY <1>1, <1>6 DEF StartRun, Sleep, Stop, TakeGap, TakeNode, CompleteNode, CompleteGap,
     ReportFailure, StartFlush, ResumeFlush, FlushLook, CancelFlush, Seal, Wait, Close,
     CloseQueue, vars, queueVars, storeVars
<1> QED
  BY <1>2, <1>3, <1>4, <1>5, <1>6 DEF Next, Worker

\* The queue implements the GapStream that the history store is promised.
THEOREM Refinement == Spec => ImplementsGapStream
<1>1. Init => Store!Init
  BY DEF Init, Store!Init
<1>2. IndInv /\ [Next]_vars => [Store!Next]_(Store!vars)
  BY StepRefines
<1> QED
  BY <1>1, <1>2, Invariance, PTL DEF Spec, ImplementsGapStream, Store!Spec
-----------------------------------------------------------------------------
(* The diagnostics.                                                        *)

Lost == gapped \cup gapFly \cup gap
Recovering == IF worker.pc = "applied" /\ worker.result = "recovered" THEN 1 ELSE 0

\* Between the gap callback and completeGap the store already holds the gap
\* that the queue still counts as in flight.
Marked == worker.pc = "gapDone" /\ worker.result = "ok" => gapFly \subseteq gapped

\* The gap that waits and the gap in flight are two, one or none: addGapLocked
\* opens a gap when none waits, and gapCount counts every opening once.
LEMMA OpenGaps ==
  ASSUME NEW a, NEW b, a \cap b = {}
  PROVE  Cardinality({g \in {a, b} : g # {}})
           = (IF a # {} THEN 1 ELSE 0) + (IF b # {} THEN 1 ELSE 0)
<1> DEFINE G == {g \in {a, b} : g # {}}
<1> SUFFICES Cardinality(G) = (IF a # {} THEN 1 ELSE 0) + (IF b # {} THEN 1 ELSE 0)
  OBVIOUS
<1>0. Cardinality({}) = 0 /\ \A g : g \in G <=> g # {} /\ (g = a \/ g = b)
  BY FS_EmptySet
<1> HIDE DEF G
<1>1. CASE a = {} /\ b = {}
  <2>1. G = {}
    BY <1>0, <1>1
  <2> QED
    BY <1>0, <1>1, <2>1
<1>2. CASE a # {} /\ b = {}
  <2>1. G = {a} /\ Cardinality({a}) = 1
    BY <1>0, <1>2, FS_Singleton
  <2> QED
    BY <1>2, <2>1
<1>3. CASE a = {} /\ b # {}
  <2>1. G = {b} /\ Cardinality({b}) = 1
    BY <1>0, <1>3, FS_Singleton
  <2> QED
    BY <1>3, <2>1
<1>4. CASE a # {} /\ b # {}
  <2>1. G = {a} \cup {b} /\ b \notin {a}
    BY <1>0, <1>4
  <2>2. IsFiniteSet({a}) /\ Cardinality({a}) = 1
    BY FS_Singleton
  <2>3. Cardinality({a} \cup {b}) = Cardinality({a}) + 1
    BY <2>1, <2>2, FS_AddElement
  <2> QED
    BY <1>4, <2>1, <2>2, <2>3
<1> QED
  BY <1>1, <1>2, <1>3, <1>4

\* What joins the lost deltas for the first time is counted in full: droppedBytes
\* grows by what dropQueuedLocked hands over.
LEMMA LostGrows ==
  ASSUME NEW S \in SUBSET Seqs, NEW D, IsFiniteSet(D), S \cap D = {}
  PROVE  Cardinality(S \cup D) = Cardinality(S) + Cardinality(D)
<1>1. IsFiniteSet(S) /\ Cardinality(S) \in Nat
  BY DeltasFinite
<1>2. Cardinality(D) \in Nat
  BY FS_CardinalityType
<1>3. Cardinality(S \cup D) = Cardinality(S) + Cardinality(D) - Cardinality(S \cap D)
  BY <1>1, FS_Union
<1>4. Cardinality(S \cap D) = 0
  BY FS_EmptySet
<1> QED
  BY <1>1, <1>2, <1>3, <1>4

\* Where a healthy queue keeps its losses: behind the last gap lie only deltas
\* that are in the list or not yet enqueued.
LEMMA LossesInOrder ==
  ASSUME TypeOK, OrderInv, Stored, ~unavailable
  PROVE  /\ Lost \in SUBSET Seqs /\ Lost \subseteq 1..Back
         /\ queue \cap Lost = {} /\ nextSeq + 1 \notin Lost /\ nextSeq + 1 \notin queue
         /\ gap \cap gapFly = {}
         /\ inFlight # 0 => inFlight \notin gap /\ inFlight \notin gapFly
         /\ ~JustStored => /\ inFlight \notin applied /\ inFlight \notin gapped
                           /\ gapFly \cap applied = {}
<1> USE QueueAssumption
<1>1. /\ Front \in Nat /\ Back \in Nat /\ completedSeq \in Nat /\ nextSeq \in Nat
      /\ completedSeq <= Front /\ Front <= Back /\ Back <= nextSeq
      /\ Busy = (completedSeq + 1)..Front /\ gap = (Front + 1)..Back
      /\ queue = (Back + 1)..nextSeq
  BY QueueEnds DEF TypeOK, OrderInv, Places, OwedInOrder
<1>2. gapFly \subseteq Busy /\ (inFlight # 0 => inFlight \in Busy /\ gapFly = {})
  BY DEF Busy, OrderInv, Shape
<1>3. applied \cup gapped = 1..StoredUpTo /\ StoredUpTo \in Nat /\ StoredUpTo <= Front
      /\ (~JustStored => StoredUpTo = completedSeq)
  BY <1>1 DEF Stored, StoredUpTo
<1>4. Lost \in SUBSET Seqs
  BY DEF Lost, TypeOK
<1>5. gapped \subseteq 1..Front /\ gapFly \subseteq 1..Front
  BY <1>1, <1>2, <1>3
<1>6. Lost \subseteq 1..Back
  BY <1>1, <1>5 DEF Lost
<1>7. queue \cap Lost = {} /\ nextSeq + 1 \notin Lost /\ nextSeq + 1 \notin queue
  BY <1>1, <1>6
<1>8. gap \cap gapFly = {} /\ (inFlight # 0 => inFlight \notin gap /\ inFlight \notin gapFly)
  BY <1>1, <1>2
<1>9. ASSUME ~JustStored
      PROVE  /\ inFlight \notin applied /\ inFlight \notin gapped /\ gapFly \cap applied = {}
  <2>1. applied \subseteq 1..completedSeq /\ gapped \subseteq 1..completedSeq
    BY <1>3, <1>9
  <2>2. inFlight = 0 \/ inFlight \in Busy
    BY <1>2
  <2> QED
    BY <1>1, <1>2, <2>1, <2>2
<1> QED
  BY <1>4, <1>6, <1>7, <1>8, <1>9

\* The parts of DiagnosticsExact, with the open gaps counted one by one.
Counted ==
  /\ applied \cap gapped = {}
  /\ dropped + Recovering = Cardinality(Lost)
  /\ gapCount = epoch + (IF gap # {} THEN 1 ELSE 0) + (IF gapFly # {} THEN 1 ELSE 0)
Books == Marked /\ (~unavailable => Counted)

\* The diagnostics as they are stated, from the books that are kept.
LEMMA BooksSay ==
  ASSUME TypeOK, OrderInv, Stored, Books
  PROVE  DiagnosticsExact
<1> SUFFICES ASSUME ~unavailable
             PROVE  /\ applied \cap gapped = {}
                    /\ dropped = Cardinality(gapped \cup gapFly \cup gap)
                        - (IF worker.pc = "applied" /\ worker.result = "recovered" THEN 1 ELSE 0)
                    /\ gapCount = epoch + Cardinality({g \in {gap, gapFly} : g # {}})
  BY DEF DiagnosticsExact
<1>1. Counted /\ dropped \in Nat /\ gapCount \in Nat /\ epoch \in Nat
  BY DEF Books, TypeOK
<1>2. gap \cap gapFly = {} /\ Lost \in SUBSET Seqs
  BY LossesInOrder
<1>3. Cardinality({g \in {gap, gapFly} : g # {}})
        = (IF gap # {} THEN 1 ELSE 0) + (IF gapFly # {} THEN 1 ELSE 0)
  BY <1>2, OpenGaps
<1>4. Cardinality(Lost) \in Nat /\ Recovering \in {0, 1}
  BY <1>2, DeltasFinite DEF Recovering
<1>5. dropped = Cardinality(Lost) - Recovering
  BY <1>1, <1>4 DEF Counted
<1>6. gapCount = epoch + Cardinality({g \in {gap, gapFly} : g # {}})
  BY <1>1, <1>3 DEF Counted
<1> QED
  BY <1>1, <1>5, <1>6 DEF Counted, Lost, Recovering

\* Enqueue and Close: what leaves the list is counted once, and opens a gap only
\* when none waits.
LEMMA DropCounted ==
  ASSUME TypeOK, OrderInv, Stored, Books, NEW D,
         D = {} \/ D = queue \/ (D = queue \cup {nextSeq + 1} /\ nextSeq < MaxSeq),
         AddGap(D), dropped' = dropped + Cardinality(D), worker' = WorkerNotified,
         UNCHANGED <<gapFly, epoch, unavailable, applied, gapped>>
  PROVE  Books'
<1>1. /\ (worker'.pc = "applied") <=> (worker.pc = "applied")
      /\ (worker'.pc = "gapDone") <=> (worker.pc = "gapDone")
      /\ worker'.result = worker.result
  BY DEF WorkerNotified, TypeOK, WorkerStates
<1>2. Marked' /\ Recovering' = Recovering
  BY <1>1 DEF Books, Marked, Recovering
<1>3. ASSUME ~unavailable PROVE Counted'
  <2>1. Counted /\ dropped \in Nat /\ gapCount \in Nat /\ epoch \in Nat
    BY <1>3 DEF Books, TypeOK
  <2>2. Lost \in SUBSET Seqs /\ Lost \cap D = {}
    BY <1>3, LossesInOrder
  <2>3. IsFiniteSet(D) /\ Cardinality(D) \in Nat
    <3>1. IsFiniteSet(queue) /\ IsFiniteSet({})
      BY DeltasFinite, FS_EmptySet DEF TypeOK
    <3>2. IsFiniteSet(queue \cup {nextSeq + 1})
      BY <3>1, FS_AddElement
    <3> QED
      BY <3>1, <3>2, FS_CardinalityType
  <2>4. Cardinality(Lost \cup D) = Cardinality(Lost) + Cardinality(D)
    BY <2>2, <2>3, LostGrows
  <2>5. Lost' = Lost \cup D
    BY DEF AddGap, Lost
  <2>6. Cardinality(Lost) \in Nat /\ Recovering \in {0, 1}
    BY <2>2, DeltasFinite DEF Recovering
  <2>7. dropped' + Recovering' = Cardinality(Lost')
    BY <1>2, <2>1, <2>3, <2>4, <2>5, <2>6 DEF Counted
  <2>8. gapCount' = epoch' + (IF gap' # {} THEN 1 ELSE 0) + (IF gapFly' # {} THEN 1 ELSE 0)
    BY <2>1 DEF Counted, AddGap
  <2>9. applied' \cap gapped' = {}
    BY <2>1 DEF Counted
  <2> QED
    BY <2>7, <2>8, <2>9 DEF Counted
<1> QED
  BY <1>2, <1>3 DEF Books

\* Every step of the queue and of its worker keeps the books: a loss is counted
\* when it leaves the list or when the store has isolated it, and never again.
LEMMA BooksStep ==
  ASSUME TypeOK, OrderInv, Stored, Books, [Next]_vars
  PROVE  Books'
<1> USE QueueAssumption
<1>a. Shape /\ dropped \in Nat /\ gapCount \in Nat /\ epoch \in Nat
  BY DEF OrderInv, TypeOK
<1>b. ~unavailable => Counted /\ Lost \in SUBSET Seqs /\ Cardinality(Lost) \in Nat
  BY LossesInOrder, DeltasFinite DEF Books
<1>1. ASSUME NEW bytes \in Sizes, EnqueueNode(bytes) PROVE Books'
  <2> DEFINE drop == IF resident + bytes > Capacity THEN queue ELSE {}
  <2>1. /\ AddGap(drop) /\ dropped' = dropped + Cardinality(drop) /\ worker' = WorkerNotified
        /\ UNCHANGED <<gapFly, epoch, unavailable, applied, gapped>>
    BY <1>1 DEF EnqueueNode, storeVars
  <2>2. drop = {} \/ drop = queue
    OBVIOUS
  <2> HIDE DEF drop
  <2> QED
    BY <2>1, <2>2, DropCounted
<1>2. ASSUME NEW bytes \in Sizes, EnqueueGap(bytes) PROVE Books'
  <2> DEFINE D == queue \cup {nextSeq + 1}
  <2>1. /\ AddGap(D) /\ dropped' = dropped + Cardinality(D) /\ worker' = WorkerNotified
        /\ UNCHANGED <<gapFly, epoch, unavailable, applied, gapped>> /\ nextSeq < MaxSeq
    BY <1>2 DEF EnqueueGap, Accepting, storeVars
  <2> QED
    BY <2>1, DropCounted
<1>3. CASE Close
  <2>1. /\ AddGap(queue) /\ dropped' = dropped + Cardinality(queue) /\ worker' = WorkerNotified
        /\ UNCHANGED <<gapFly, epoch, unavailable, applied, gapped>>
    BY <1>3 DEF Close, CloseQueue, storeVars
  <2> QED
    BY <2>1, DropCounted
<1>4. CASE TakeGap
  <2>1. /\ ~unavailable /\ gapFly = {} /\ gap # {} /\ gapFly' = gap /\ gap' = {}
        /\ worker.pc = "next" /\ worker'.pc = "gap"
        /\ UNCHANGED <<dropped, gapCount, epoch, unavailable, applied, gapped>>
    BY <1>4, <1>a DEF TakeGap, Shape, countVars, storeVars, TypeOK, WorkerStates
  <2>2. Lost' = Lost /\ Recovering' = Recovering
    BY <2>1 DEF Lost, Recovering
  <2> QED
    BY <1>a, <1>b, <2>1, <2>2 DEF Books, Marked, Counted
<1>5. ASSUME NEW result, Apply(result) PROVE Books'
  <2>1. /\ worker.pc = "apply" /\ inFlight # 0 /\ ~JustStored
        /\ worker' = [pc |-> "applied", result |-> result]
        /\ UNCHANGED <<dropped, gapCount, epoch, unavailable, gap, gapFly>>
    BY <1>5, <1>a DEF Apply, Shape, JustStored, queueVars, gapVars, countVars
  <2>2. ~unavailable
    BY <2>1 DEF Stored
  <2>3. /\ inFlight \notin applied /\ inFlight \notin gapped /\ inFlight \notin Lost
        /\ Lost \in SUBSET Seqs
    BY <2>1, <2>2, LossesInOrder DEF Lost
  <2>4. Marked' /\ Recovering = 0 /\ Recovering' = IF result = "recovered" THEN 1 ELSE 0
    BY <2>1 DEF Marked, Recovering
  <2>5. Counted
    BY <1>b, <2>2
  <2>6. applied' \cap gapped' = {}
    BY <1>5, <2>3, <2>5 DEF Apply, Counted
  <2>7. dropped' + Recovering' = Cardinality(Lost')
    <3>1. CASE result = "recovered"
      <4>1. Lost' = Lost \cup {inFlight}
        BY <1>5, <2>1, <3>1 DEF Apply, Lost
      <4>2. IsFiniteSet({inFlight}) /\ Cardinality({inFlight}) = 1
        BY FS_Singleton
      <4>3. Cardinality(Lost \cup {inFlight}) = Cardinality(Lost) + Cardinality({inFlight})
        BY <2>3, <4>2, LostGrows
      <4> QED
        BY <1>a, <1>b, <2>1, <2>2, <2>4, <2>5, <3>1, <4>1, <4>2, <4>3 DEF Counted
    <3>2. CASE result # "recovered"
      <4>1. Lost' = Lost
        BY <1>5, <2>1, <3>2 DEF Apply, Lost
      <4> QED
        BY <2>1, <2>4, <2>5, <3>2, <4>1 DEF Counted
    <3> QED
      BY <3>1, <3>2
  <2>8. gapCount' = epoch' + (IF gap' # {} THEN 1 ELSE 0) + (IF gapFly' # {} THEN 1 ELSE 0)
    BY <2>1, <2>5 DEF Counted
  <2> QED
    BY <2>4, <2>6, <2>7, <2>8 DEF Books, Counted
<1>6. ASSUME NEW result, PersistGap(result) PROVE Books'
  <2>1. /\ worker.pc = "gap" /\ ~JustStored
        /\ worker' = [pc |-> "gapDone", result |-> result]
        /\ gapped' = (IF result = "ok" THEN gapped \cup gapFly ELSE gapped)
        /\ UNCHANGED <<dropped, gapCount, epoch, unavailable, gap, gapFly, applied>>
    BY <1>6 DEF PersistGap, JustStored, queueVars, gapVars, countVars
  <2>2. ~unavailable
    BY <2>1 DEF Stored
  <2>3. gapFly \cap applied = {}
    BY <2>1, <2>2, LossesInOrder
  <2>4. Marked' /\ Recovering = 0 /\ Recovering' = 0
    BY <2>1 DEF Marked, Recovering
  <2>5. Lost' = Lost
    BY <2>1 DEF Lost
  <2>6. Counted
    BY <1>b, <2>2
  <2>7. applied' \cap gapped' = {}
    BY <2>1, <2>3, <2>6 DEF Counted
  <2> QED
    BY <2>1, <2>4, <2>5, <2>6, <2>7 DEF Books, Counted
<1>7. CASE CompleteNode
  <2>1. /\ worker.pc = "applied" /\ worker' = [pc |-> "next", result |-> "none"]
        /\ UNCHANGED <<unavailable, gap, gapFly, applied, gapped>>
    BY <1>7 DEF CompleteNode, gapVars, storeVars
  <2>2. /\ dropped' = dropped + Recovering /\ gapCount' = gapCount + Recovering
        /\ epoch' = epoch + Recovering
    BY <1>7, <1>a, <2>1 DEF CompleteNode, Recovering, countVars
  <2>3. Lost' = Lost /\ Recovering' = 0 /\ Marked' /\ Recovering \in {0, 1}
    BY <2>1 DEF Lost, Recovering, Marked
  <2>4. ASSUME ~unavailable PROVE Counted'
    <3>1. dropped' + Recovering' = Cardinality(Lost')
      BY <1>a, <1>b, <2>2, <2>3, <2>4 DEF Counted
    <3>2. gapCount' = epoch' + (IF gap' # {} THEN 1 ELSE 0) + (IF gapFly' # {} THEN 1 ELSE 0)
      <4>1. gapCount = epoch + (IF gap # {} THEN 1 ELSE 0) + (IF gapFly # {} THEN 1 ELSE 0)
        BY <1>b, <2>4 DEF Counted
      <4>2. gap' = gap /\ gapFly' = gapFly
        BY <2>1
      <4> QED
        BY <1>a, <2>2, <2>3, <4>1, <4>2
    <3>3. applied' \cap gapped' = {}
      BY <1>b, <2>1, <2>4 DEF Counted
    <3> QED
      BY <3>1, <3>2, <3>3 DEF Counted
  <2> QED
    BY <2>1, <2>3, <2>4 DEF Books
<1>8. CASE CompleteGap
  <2>1. /\ worker.pc = "gapDone" /\ worker.result = "ok"
        /\ worker' = [pc |-> "next", result |-> "none"]
        /\ gapFly # {} /\ gapFly' = {} /\ epoch' = epoch + 1
        /\ UNCHANGED <<dropped, gapCount, unavailable, gap, applied, gapped>>
    BY <1>8, <1>a DEF CompleteGap, Shape, storeVars
  <2>2. gapFly \subseteq gapped
    BY <2>1 DEF Books, Marked
  <2>3. Lost' = Lost /\ Recovering = 0 /\ Recovering' = 0 /\ Marked'
    BY <2>1, <2>2 DEF Lost, Recovering, Marked
  <2> QED
    BY <1>a, <1>b, <2>1, <2>3 DEF Books, Counted
<1>9. CASE FailNode \/ FailGap
  <2>1. unavailable' /\ worker'.pc = "failed"
    BY <1>9 DEF FailNode, FailGap, Fail
  <2> QED
    BY <2>1 DEF Books, Marked
<1>10. ASSUME UNCHANGED <<dropped, gapCount, epoch, unavailable, gap, gapFly, applied, gapped>>,
              \/ UNCHANGED worker
              \/ worker.pc # "applied" /\ worker'.pc \notin {"applied", "gapDone"}
              \/ worker' = WorkerNotified
       PROVE  Books'
  <2>1. Marked' /\ Recovering' = Recovering
    <3>1. CASE worker' = WorkerNotified
      <4>1. /\ (worker'.pc = "applied") <=> (worker.pc = "applied")
            /\ (worker'.pc = "gapDone") <=> (worker.pc = "gapDone")
            /\ worker'.result = worker.result
        BY <3>1 DEF WorkerNotified, TypeOK, WorkerStates
      <4> QED
        BY <1>10, <4>1 DEF Books, Marked, Recovering
    <3>2. CASE UNCHANGED worker \/ (worker.pc # "applied" /\ worker'.pc \notin {"applied", "gapDone"})
      BY <1>10, <3>2 DEF Books, Marked, Recovering
    <3> QED
      BY <1>10, <3>1, <3>2
  <2>2. Lost' = Lost
    BY <1>10 DEF Lost
  <2> QED
    BY <1>10, <1>b, <2>1, <2>2 DEF Books, Counted
<1>11. CASE StartRun \/ Sleep \/ Stop \/ TakeNode \/ ReportFailure
  <2>1. UNCHANGED <<dropped, gapCount, epoch, unavailable, gap, gapFly, applied, gapped>>
    BY <1>11 DEF StartRun, Sleep, Stop, TakeNode, ReportFailure, queueVars, gapVars, countVars,
       storeVars
  <2>2. worker.pc # "applied" /\ worker'.pc \notin {"applied", "gapDone"}
    BY <1>11 DEF StartRun, Sleep, Stop, TakeNode, ReportFailure, TypeOK, WorkerStates
  <2> QED
    BY <1>10, <2>1, <2>2
<1>12. CASE StartFlush \/ ResumeFlush \/ CancelFlush \/ Seal \/ Wait \/ UNCHANGED vars
  <2>1. UNCHANGED <<dropped, gapCount, epoch, unavailable, gap, gapFly, applied, gapped>>
    BY <1>12 DEF StartFlush, ResumeFlush, FlushLook, CancelFlush, Seal, Wait, vars, queueVars,
       gapVars, countVars, storeVars
  <2>2. UNCHANGED worker \/ worker' = WorkerNotified
    BY <1>12 DEF StartFlush, ResumeFlush, FlushLook, CancelFlush, Seal, Wait, vars
  <2> QED
    BY <1>10, <2>1, <2>2
<1> QED
  BY <1>1, <1>2, <1>3, <1>4, <1>5, <1>6, <1>7, <1>8, <1>9, <1>11, <1>12 DEF Next, Worker

\* A new queue has lost nothing and counts nothing.
LEMMA InitBooks == Init => Books
<1> SUFFICES ASSUME Init PROVE Books
  OBVIOUS
<1>1. Lost = {} /\ Recovering = 0 /\ Cardinality({}) = 0
  BY FS_EmptySet DEF Init, Lost, Recovering
<1> QED
  BY <1>1 DEF Init, Books, Marked, Counted

\* The diagnostics of a queue that has not failed are exact: every delta is
\* stored once or counted once in droppedBytes, and epoch and gapCount agree on
\* the gaps that are still open.
THEOREM DiagnosticsCorrect == Spec => []DiagnosticsExact
<1>1. Init => Books
  BY InitBooks
<1>2. IndInv /\ Books /\ [Next]_vars => Books'
  BY BooksStep DEF IndInv
<1>3. IndInv /\ Books => DiagnosticsExact
  BY BooksSay DEF IndInv
<1> QED
  BY <1>1, <1>2, <1>3, Invariance, PTL DEF Spec
=============================================================================
