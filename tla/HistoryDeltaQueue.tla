-------------------------- MODULE HistoryDeltaQueue --------------------------
(***************************************************************************)
(* pool/core/terminal_history_delta_queue.go: the queue that decouples the *)
(* live parser of a terminal from its history store.  Enqueue never waits: *)
(* when the memory bound is reached the queued deltas collapse into a gap, *)
(* which the worker persists before the deltas behind it.                  *)
(*                                                                         *)
(* Every critical section of queue.mu is one action, and so is every       *)
(* callback of the worker, which runs without the lock.  notifyLocked      *)
(* replaces the `changed` channel: whoever waits on the old one, at pc     *)
(* "sleep", looks again.                                                   *)
(*                                                                         *)
(* Data: a delta is its sequence number.  The linked list is the set of    *)
(* its members; pendingGapBytes and gapInFlightBytes are the sets of the   *)
(* deltas they count (every delta counts for at least one source byte);    *)
(* droppedBytes counts every delta as one.                                 *)
(***************************************************************************)
EXTENDS Integers, FiniteSets, FiniteSetsExt

CONSTANTS
  Capacity,     \* queue.capacity
  Sizes,        \* historyTransactionResidentBytes of the deltas that are tried
  MaxSize,      \* bound on Sizes
  MaxSeq        \* bound: deltas enqueued

ASSUME QueueAssumption ==
  /\ Capacity \in Nat \ {0} /\ MaxSize \in Nat /\ MaxSeq \in Nat
  /\ Sizes \subseteq 1..MaxSize

Seqs == 1..MaxSeq

VARIABLES
  nextSeq, completedSeq,
  queue,                   \* head .. tail: the deltas that wait
  inFlight,                \* the delta the worker applies, 0 for none
  size,                    \* residentBytes of every delta
  resident,
  gap, gapThrough,         \* pendingGapBytes, pendingGapThrough
  gapFly, gapFlyThrough,   \* gapInFlightBytes, gapInFlightThrough
  dropped, gapCount, epoch,
  started, sealed, closed, done, unavailable,
  worker,                  \* pc of Run and the result of its last callback
  flush,                   \* pc, target and result of a caller of Flush
  closer,                  \* pc of closeHistoryDeltaQueue
  applied, gapped          \* history: the deltas the store holds, and those
                           \* it holds a gap for

lifeVars == <<started, sealed, closed, done>>
gapVars == <<gap, gapThrough, gapFly, gapFlyThrough>>
countVars == <<dropped, gapCount, epoch>>
listVars == <<queue, inFlight, size, resident>>
storeVars == <<applied, gapped>>
queueVars == <<nextSeq, completedSeq, listVars, gapVars, countVars, unavailable>>
vars == <<queueVars, lifeVars, worker, flush, closer, storeVars>>
-----------------------------------------------------------------------------
\* Resident bytes of the deltas in S.
Bytes(S) == Cardinality({p \in S \X (1..MaxSize) : p[2] <= size[p[1]]})

\* completedSeq and pendingGapThrough only ever grow to the larger number, and
\* resident is kept from becoming negative.
Later(a, b) == IF b > a THEN b ELSE a
\* Faulty variant of Less: the bytes are taken off twice.
LessTwice(bytes) == resident - 2 * bytes

Less(bytes) == Later(0, resident - bytes)

Init ==
  /\ nextSeq = 0 /\ completedSeq = 0
  /\ queue = {} /\ inFlight = 0 /\ size = [s \in Seqs |-> 0] /\ resident = 0
  /\ gap = {} /\ gapThrough = 0 /\ gapFly = {} /\ gapFlyThrough = 0
  /\ dropped = 0 /\ gapCount = 0 /\ epoch = 0
  /\ started = FALSE /\ sealed = FALSE /\ closed = FALSE /\ done = FALSE
  /\ unavailable = FALSE
  /\ worker = [pc |-> "start", result |-> "none"]
  /\ flush = [pc |-> "idle", target |-> 0, result |-> "none"]
  /\ closer = "idle"
  /\ applied = {} /\ gapped = {}

\* notifyLocked, as seen by the worker and by the caller of Flush
WorkerNotified == [worker EXCEPT !.pc = IF @ = "sleep" THEN "next" ELSE @]
FlushNotified == [flush EXCEPT !.pc = IF @ = "sleep" THEN "check" ELSE @]

\* dropQueuedLocked and addGapLocked: the deltas of D, in order, join the
\* pending gap; D is the whole list, with the incoming delta or without it.
AddGap(D) ==
  /\ gap' = gap \cup D
  /\ gapThrough' = IF D = {} THEN gapThrough ELSE Later(gapThrough, Max(D))
  /\ gapCount' = IF gap = {} /\ D # {} THEN gapCount + 1 ELSE gapCount
-----------------------------------------------------------------------------
(* Enqueue.                                                                *)

Accepting == ~closed /\ ~sealed /\ ~unavailable /\ nextSeq < MaxSeq

\* Faulty variant of EnqueueNode: no room is made for the delta.
EnqueueNodeUnbounded(bytes) ==
  /\ Accepting
  /\ nextSeq' = nextSeq + 1
  /\ size' = [size EXCEPT ![nextSeq + 1] = bytes]
  /\ queue' = queue \cup {nextSeq + 1}
  /\ resident' = resident + bytes
  /\ worker' = WorkerNotified /\ flush' = FlushNotified
  /\ UNCHANGED <<completedSeq, inFlight, gapVars, countVars, unavailable,
                 lifeVars, closer, storeVars>>

\* The delta fits: the list is dropped first when that is what makes room.
EnqueueNode(bytes) ==
  /\ Accepting
  /\ LET s == nextSeq + 1
         over == resident + bytes > Capacity
         drop == IF over THEN queue ELSE {}
         left == Less(Bytes(drop))
     IN  /\ left + bytes <= Capacity
         /\ nextSeq' = s
         /\ size' = [size EXCEPT ![s] = bytes]
         /\ queue' = (queue \ drop) \cup {s}
         /\ resident' = left + bytes
         /\ AddGap(drop)
         /\ dropped' = dropped + Cardinality(drop)
  /\ worker' = WorkerNotified /\ flush' = FlushNotified
  /\ UNCHANGED <<completedSeq, inFlight, gapFly, gapFlyThrough, epoch, unavailable,
                 lifeVars, closer, storeVars>>

\* Faulty variant of EnqueueGap: the list stays where it is, before the gap.
EnqueueGapKeepsList(bytes) ==
  /\ Accepting
  /\ resident + bytes > Capacity
  /\ Less(Bytes(queue)) + bytes > Capacity
  /\ nextSeq' = nextSeq + 1
  /\ size' = [size EXCEPT ![nextSeq + 1] = bytes]
  /\ AddGap({nextSeq + 1})
  /\ dropped' = dropped + 1
  /\ worker' = WorkerNotified /\ flush' = FlushNotified
  /\ UNCHANGED <<completedSeq, queue, resident, inFlight, gapFly, gapFlyThrough, epoch,
                 unavailable, lifeVars, closer, storeVars>>

\* It does not fit even so: it joins the gap.
EnqueueGap(bytes) ==
  /\ Accepting
  /\ LET s == nextSeq + 1
         left == Less(Bytes(queue))
     IN  /\ resident + bytes > Capacity
         /\ left + bytes > Capacity
         /\ nextSeq' = s
         /\ size' = [size EXCEPT ![s] = bytes]
         /\ queue' = {}
         /\ resident' = left
         /\ AddGap(queue \cup {s})
         /\ dropped' = dropped + Cardinality(queue \cup {s})
  /\ worker' = WorkerNotified /\ flush' = FlushNotified
  /\ UNCHANGED <<completedSeq, inFlight, gapFly, gapFlyThrough, epoch, unavailable,
                 lifeVars, closer, storeVars>>
-----------------------------------------------------------------------------
(* Run: the worker.                                                        *)

\* finish
Finish ==
  /\ done' = TRUE
  /\ UNCHANGED <<started, sealed, closed>>

StartRun ==
  /\ worker.pc = "start"
  /\ IF closed THEN /\ worker' = [worker EXCEPT !.pc = "end"]
                    /\ UNCHANGED lifeVars
               ELSE /\ worker' = [worker EXCEPT !.pc = "next"]
                    /\ started' = TRUE
                    /\ UNCHANGED <<sealed, closed, done>>
  /\ UNCHANGED <<queueVars, flush, closer, storeVars>>

\* next waits on the changed channel.
Sleep ==
  /\ worker.pc = "next"
  /\ ~closed /\ ~unavailable /\ gap = {} /\ queue = {} /\ ~sealed
  /\ worker' = [worker EXCEPT !.pc = "sleep"]
  /\ UNCHANGED <<queueVars, lifeVars, flush, closer, storeVars>>

\* Faulty variant of Stop: a sealed queue is left with what it still holds.
StopSealed ==
  /\ worker.pc = "next"
  /\ closed \/ unavailable \/ sealed
  /\ worker' = [worker EXCEPT !.pc = "end"]
  /\ Finish
  /\ UNCHANGED <<queueVars, flush, closer, storeVars>>

\* next returns false, and Run returns.
Stop ==
  /\ worker.pc = "next"
  /\ closed \/ unavailable \/ (sealed /\ gap = {} /\ queue = {})
  /\ worker' = [worker EXCEPT !.pc = "end"]
  /\ Finish
  /\ UNCHANGED <<queueVars, flush, closer, storeVars>>

\* next takes the pending gap, which goes before the list.
TakeGap ==
  /\ worker.pc = "next"
  /\ ~closed /\ ~unavailable /\ gap # {}
  /\ gapFly' = gap /\ gapFlyThrough' = gapThrough
  /\ gap' = {} /\ gapThrough' = 0
  /\ worker' = [worker EXCEPT !.pc = "gap"]
  /\ UNCHANGED <<nextSeq, completedSeq, listVars, countVars, unavailable,
                 lifeVars, flush, closer, storeVars>>

\* Faulty variant of TakeNode: the list goes before the gap.
TakeNodeFirst ==
  /\ worker.pc = "next"
  /\ ~closed /\ ~unavailable /\ queue # {}
  /\ inFlight' = Min(queue)
  /\ queue' = queue \ {Min(queue)}
  /\ worker' = [worker EXCEPT !.pc = "apply"]
  /\ UNCHANGED <<nextSeq, completedSeq, size, resident, gapVars, countVars, unavailable,
                 lifeVars, flush, closer, storeVars>>

\* next takes the head of the list.
TakeNode ==
  /\ worker.pc = "next"
  /\ ~closed /\ ~unavailable /\ gap = {} /\ queue # {}
  /\ inFlight' = Min(queue)
  /\ queue' = queue \ {Min(queue)}
  /\ worker' = [worker EXCEPT !.pc = "apply"]
  /\ UNCHANGED <<nextSeq, completedSeq, size, resident, gapVars, countVars, unavailable,
                 lifeVars, flush, closer, storeVars>>

\* The apply callback: ApplyTransaction, and when it fails ApplyGapBoundary in
\* its place.  "recovered" is a terminalHistoryDeltaFailure without a gapErr.
Apply(result) ==
  /\ worker.pc = "apply"
  /\ result \in {"ok", "recovered", "failed"}
  /\ applied' = IF result = "ok" THEN applied \cup {inFlight} ELSE applied
  /\ gapped' = IF result = "recovered" THEN gapped \cup {inFlight} ELSE gapped
  /\ worker' = [pc |-> "applied", result |-> result]
  /\ UNCHANGED <<queueVars, lifeVars, flush, closer>>

\* The gap callback: ApplyGapBoundary.
PersistGap(result) ==
  /\ worker.pc = "gap"
  /\ result \in {"ok", "failed"}
  /\ gapped' = IF result = "ok" THEN gapped \cup gapFly ELSE gapped
  /\ worker' = [pc |-> "gapDone", result |-> result]
  /\ UNCHANGED <<queueVars, lifeVars, flush, closer, applied>>

\* Faulty variants of CompleteNode: a recovered delta starts no epoch; a caller
\* of Flush is not told that the delta is done.
CompleteNodeSameEpoch ==
  /\ worker.pc = "applied" /\ worker.result \in {"ok", "recovered"}
  /\ inFlight' = 0
  /\ resident' = Less(size[inFlight])
  /\ completedSeq' = Later(completedSeq, inFlight)
  /\ IF worker.result = "recovered"
     THEN dropped' = dropped + 1 /\ gapCount' = gapCount + 1
     ELSE UNCHANGED <<dropped, gapCount>>
  /\ worker' = [pc |-> "next", result |-> "none"]
  /\ flush' = FlushNotified
  /\ UNCHANGED <<nextSeq, queue, size, gapVars, epoch, unavailable, lifeVars, closer, storeVars>>

CompleteNodeSilently ==
  /\ worker.pc = "applied" /\ worker.result \in {"ok", "recovered"}
  /\ inFlight' = 0
  /\ resident' = Less(size[inFlight])
  /\ completedSeq' = Later(completedSeq, inFlight)
  /\ IF worker.result = "recovered"
     THEN dropped' = dropped + 1 /\ gapCount' = gapCount + 1 /\ epoch' = epoch + 1
     ELSE UNCHANGED countVars
  /\ worker' = [pc |-> "next", result |-> "none"]
  /\ UNCHANGED <<nextSeq, queue, size, gapVars, unavailable, lifeVars, flush, closer, storeVars>>

\* completeNode without an error, or with one that a durable gap has isolated
CompleteNode ==
  /\ worker.pc = "applied" /\ worker.result \in {"ok", "recovered"}
  /\ inFlight' = 0
  /\ resident' = Less(size[inFlight])
  /\ completedSeq' = Later(completedSeq, inFlight)
  /\ IF worker.result = "recovered"
     THEN dropped' = dropped + 1 /\ gapCount' = gapCount + 1 /\ epoch' = epoch + 1
     ELSE UNCHANGED countVars
  /\ worker' = [pc |-> "next", result |-> "none"]
  /\ flush' = FlushNotified
  /\ UNCHANGED <<nextSeq, queue, size, gapVars, unavailable, lifeVars, closer, storeVars>>

\* failLocked: what waits joins the gap, which nobody will persist any more.
Fail(through, lost) ==
  /\ unavailable' = TRUE
  /\ dropped' = dropped + lost + Cardinality(queue)
  /\ AddGap(queue)
  /\ queue' = {}
  /\ completedSeq' = Later(completedSeq, through)

\* Faulty variant of FailNode: a caller of Flush is not told of the failure.
FailNodeSilently ==
  /\ worker.pc = "applied" /\ worker.result = "failed"
  /\ inFlight' = 0
  /\ resident' = Later(0, Less(size[inFlight]) - Bytes(queue))
  /\ Fail(inFlight, 1)
  /\ worker' = [pc |-> "failed", result |-> "apply"]
  /\ UNCHANGED <<nextSeq, size, gapFly, gapFlyThrough, epoch, lifeVars, flush, closer, storeVars>>

\* completeNode with an error
FailNode ==
  /\ worker.pc = "applied" /\ worker.result = "failed"
  /\ inFlight' = 0
  /\ resident' = Later(0, Less(size[inFlight]) - Bytes(queue))
  /\ Fail(inFlight, 1)
  /\ worker' = [pc |-> "failed", result |-> "apply"]
  /\ flush' = FlushNotified
  /\ UNCHANGED <<nextSeq, size, gapFly, gapFlyThrough, epoch, lifeVars, closer, storeVars>>

\* completeGap
CompleteGap ==
  /\ worker.pc = "gapDone" /\ worker.result = "ok"
  /\ gapFly' = {} /\ gapFlyThrough' = 0
  /\ epoch' = epoch + 1
  /\ completedSeq' = Later(completedSeq, gapFlyThrough)
  /\ worker' = [pc |-> "next", result |-> "none"]
  /\ flush' = FlushNotified
  /\ UNCHANGED <<nextSeq, listVars, gap, gapThrough, dropped, gapCount, unavailable,
                 lifeVars, closer, storeVars>>

FailGap ==
  /\ worker.pc = "gapDone" /\ worker.result = "failed"
  /\ gapFly' = {} /\ gapFlyThrough' = 0
  /\ Fail(gapFlyThrough, Cardinality(gapFly))
  /\ resident' = Less(Bytes(queue))
  /\ worker' = [pc |-> "failed", result |-> "gap"]
  /\ flush' = FlushNotified
  /\ UNCHANGED <<nextSeq, inFlight, size, epoch, lifeVars, closer, storeVars>>

\* The failed callback has returned, and so does Run.
ReportFailure ==
  /\ worker.pc = "failed"
  /\ worker' = [worker EXCEPT !.pc = "end"]
  /\ Finish
  /\ UNCHANGED <<queueVars, flush, closer, storeVars>>
-----------------------------------------------------------------------------
(* Flush, Seal, Close, Wait.                                               *)

\* Faulty variant of Settled: the last delta before the call is not waited for.
SettledEarly(target) == completedSeq + 1 >= target \/ unavailable \/ closed

\* One look of Flush at the queue, under the lock.
Settled(target) == completedSeq >= target \/ unavailable \/ closed
FlushLook(target) ==
  /\ flush' = [target |-> target,
               pc |-> IF Settled(target) THEN "end" ELSE "sleep",
               result |-> IF ~Settled(target) THEN "none"
                          ELSE IF unavailable THEN "unavailable" ELSE "ok"]
  /\ UNCHANGED <<queueVars, lifeVars, worker, closer, storeVars>>

StartFlush == flush.pc \in {"idle", "end"} /\ FlushLook(nextSeq)
ResumeFlush == flush.pc = "check" /\ FlushLook(flush.target)

\* The context of the caller ends while it waits.
CancelFlush ==
  /\ flush.pc \in {"sleep", "check"}
  /\ flush' = [flush EXCEPT !.pc = "end", !.result = "cancelled"]
  /\ UNCHANGED <<queueVars, lifeVars, worker, closer, storeVars>>

\* Faulty variant of Seal: the worker that waits for work is not told.
SealSilently ==
  /\ closer = "idle"
  /\ closer' = "wait"
  /\ sealed' = TRUE
  /\ UNCHANGED <<queueVars, started, closed, done, worker, flush, storeVars>>

\* Seal, the first step of closeHistoryDeltaQueue
Seal ==
  /\ closer = "idle"
  /\ closer' = "wait"
  /\ sealed' = TRUE
  /\ worker' = WorkerNotified /\ flush' = FlushNotified
  /\ UNCHANGED <<queueVars, started, closed, done, storeVars>>

Wait ==
  /\ closer = "wait" /\ done
  /\ closer' = "close"
  /\ UNCHANGED <<queueVars, lifeVars, worker, flush, storeVars>>

\* Close under the lock, and finish when the worker was never started
CloseQueue ==
  /\ closed' = TRUE
  /\ done' = (done \/ ~started)
  /\ AddGap(queue)
  /\ dropped' = dropped + Cardinality(queue)
  /\ queue' = {}
  /\ resident' = Less(Bytes(queue))
  /\ worker' = WorkerNotified /\ flush' = FlushNotified
  /\ UNCHANGED <<nextSeq, completedSeq, inFlight, size, gapFly, gapFlyThrough, epoch,
                 started, sealed, unavailable, storeVars>>

\* The last step of closeHistoryDeltaQueue, or a Close at any time, as
\* recoverHistoryDeltaQueue does with the queue it replaces
Close ==
  /\ closer \in {"idle", "close"}
  /\ closer' = "end"
  /\ CloseQueue
-----------------------------------------------------------------------------
Worker ==
  \/ StartRun \/ Sleep \/ Stop \/ TakeGap \/ TakeNode
  \/ \E result \in {"ok", "recovered", "failed"} : Apply(result) \/ PersistGap(result)
  \/ CompleteNode \/ FailNode \/ CompleteGap \/ FailGap \/ ReportFailure

Next ==
  \/ \E bytes \in Sizes : EnqueueNode(bytes) \/ EnqueueGap(bytes)
  \/ Worker
  \/ StartFlush \/ ResumeFlush \/ CancelFlush
  \/ Seal \/ Wait \/ Close

Spec == Init /\ [][Next]_vars

\* The worker runs and its callbacks return; whoever waits runs when woken.
FairSpec == Spec /\ WF_vars(Worker) /\ WF_vars(ResumeFlush) /\ WF_vars(Wait)
                 /\ WF_vars(closer = "close" /\ Close)
-----------------------------------------------------------------------------
(* Properties.                                                             *)

WorkerStates ==
  [pc : {"start", "next", "sleep", "gap", "gapDone", "apply", "applied", "failed", "end"},
   result : {"none", "ok", "recovered", "failed", "apply", "gap"}]
FlushStates ==
  [pc : {"idle", "sleep", "check", "end"}, target : 0..MaxSeq,
   result : {"none", "ok", "unavailable", "cancelled"}]

\* Type invariant.
TypeOK ==
  /\ nextSeq \in 0..MaxSeq /\ completedSeq \in 0..MaxSeq
  /\ queue \subseteq Seqs /\ inFlight \in 0..MaxSeq
  /\ size \in [Seqs -> 0..MaxSize] /\ resident \in Nat
  /\ gap \subseteq Seqs /\ gapThrough \in 0..MaxSeq
  /\ gapFly \subseteq Seqs /\ gapFlyThrough \in 0..MaxSeq
  /\ dropped \in Nat /\ gapCount \in Nat /\ epoch \in Nat
  /\ started \in BOOLEAN /\ sealed \in BOOLEAN /\ closed \in BOOLEAN
  /\ done \in BOOLEAN /\ unavailable \in BOOLEAN
  /\ worker \in WorkerStates /\ flush \in FlushStates
  /\ closer \in {"idle", "wait", "close", "end"}
  /\ applied \subseteq Seqs /\ gapped \subseteq Seqs

\* The last delta of what the worker is busy with, and of the gap behind it.
Front == IF gapFly # {} THEN gapFlyThrough
         ELSE IF inFlight # 0 THEN inFlight ELSE completedSeq
Back == IF gap # {} THEN gapThrough ELSE Front
Busy == gapFly \cup IF inFlight # 0 THEN {inFlight} ELSE {}

\* "Queued deltas collapse into an ordered gap that the worker persists before
\* later transactions": what is not completed lies in the order busy, gap, list,
\* without a hole or an overlap, whatever Enqueue, Close and failures do.
OwedInOrder ==
  /\ Busy = (completedSeq + 1)..Front
  /\ gap = (Front + 1)..Back
  /\ queue = (Back + 1)..nextSeq

\* The memory bound: resident is exact and never above the capacity.
ResidentBounded ==
  /\ resident = Bytes(queue \cup IF inFlight # 0 THEN {inFlight} ELSE {})
  /\ resident <= Capacity

\* A Flush that returns nil is a fence: all that was enqueued before it is in
\* the store, or marked there as a gap; a Close alone can let it through.
FlushFence ==
  flush.result = "ok" => 1..flush.target \subseteq applied \cup gapped \/ closed

\* Seal, Wait, Close loses nothing: when Wait is over, a queue that did not fail
\* and was not closed by another has put all it accepted into the store.
SealDrains ==
  closer = "close" /\ ~unavailable => applied \cup gapped = 1..nextSeq

\* The diagnostics of a healthy queue: every delta is stored once, or counted
\* once in droppedBytes, or still owed; epoch and gapCount tell the gaps apart.
DiagnosticsExact ==
  ~unavailable =>
    /\ applied \cap gapped = {}
    /\ dropped = Cardinality(gapped \cup gapFly \cup gap)
                   - (IF worker.pc = "applied" /\ worker.result = "recovered" THEN 1 ELSE 0)
    /\ gapCount = epoch + Cardinality({g \in {gap, gapFly} : g # {}})

\* A caller of Flush is not left waiting, nor is one of Seal, Wait, Close.
FlushReturns == flush.pc \in {"sleep", "check"} ~> flush.pc = "end"
CloseEnds == closer # "idle" ~> closer = "end"

\* The store is served a GapStream: in order, every loss marked before what
\* follows it, and nothing after a failure.
Store == INSTANCE GapStream WITH
  produced <- nextSeq, ingested <- applied, lost <- gapped, broken <- unavailable
ImplementsGapStream == Store!Spec
=============================================================================
