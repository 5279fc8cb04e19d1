---------------------------- MODULE OutputBuffer ----------------------------
(***************************************************************************)
(* pool/core/terminal_output_buffer.go: the bounded buffer between a PTY   *)
(* and its two consumers, and the resident budget that all the buffers of  *)
(* a pool share.  With them the two users of a buffer in terminal.go: the  *)
(* output pump of watchOutput, and the abort / drain that close a buffer   *)
(* from another goroutine.                                                 *)
(*                                                                         *)
(* Every critical section of buffer.mu or budget.mu is one action.  What   *)
(* the code does after an unlock (budget.release, budget.wake) is an       *)
(* action of its own, so other goroutines run in between.  A goroutine in  *)
(* cond.Wait has pc "sleep" (buffer.cond) or "budgetSleep" (budget.cond)   *)
(* and moves only when a Broadcast wakes it.                               *)
(*                                                                         *)
(* Data: the linked list of nodes is the set of their sequence numbers     *)
(* (the list is always in sequence order); the pending bits are one set    *)
(* per consumer; pendingGapBytes is the set of the chunks it counts.       *)
(***************************************************************************)
EXTENDS Integers, FiniteSets, FiniteSetsExt

CONSTANTS
  Buffers,         \* the buffers of the pool, one per running terminal
  Overflow,        \* [Buffers -> {"block", "drop"}]: config.Overflow
  HistoryEnabled,  \* does a buffer have the history consumer as well
  Capacity,        \* config.CapacityBytes
  MaxBytes,        \* budget.maxBytes
  ChunkBytes,      \* terminalOutputChunkBytes
  Payloads,        \* lengths of the PTY reads that are tried
  MaxSeq,          \* bound: chunks written to one buffer
  MayFail,         \* may the ingest and gap callbacks return an error
  Flushed,         \* the buffers Flush is called on, once per consumer
  Stopped          \* the buffers the terminal aborts or drains

ASSUME BufferAssumption ==
  /\ IsFiniteSet(Buffers)
  /\ Overflow \in [Buffers -> {"block", "drop"}]
  /\ HistoryEnabled \in BOOLEAN /\ MayFail \in BOOLEAN
  /\ Capacity \in Nat \ {0} /\ MaxBytes \in Nat \ {0}
  /\ ChunkBytes \in Nat \ {0} /\ MaxSeq \in Nat
  /\ Payloads \subseteq Nat \ {0}
  /\ Flushed \subseteq Buffers /\ Stopped \subseteq Buffers
  \* types.go:11-14: the smallest budget holds a whole chunk.
  /\ ChunkBytes <= MaxBytes

Consumers == {"live", "history"}
Enabled == IF HistoryEnabled THEN Consumers ELSE {"live"}
Seqs == 1..MaxSeq

(* The goroutines: the pump that writes, one runner per enabled consumer,  *)
(* the caller of Flush for it, and the goroutine that stops the terminal.  *)
Writer(b) == <<"writer", b>>
Stopper(b) == <<"stopper", b>>
Runner(b, c) == <<"runner", b, c>>
Flusher(b, c) == <<"flusher", b, c>>

Threads == {Writer(b) : b \in Buffers} \cup {Stopper(b) : b \in Buffers}
           \cup {Runner(b, c) : b \in Buffers, c \in Enabled}
           \cup {Flusher(b, c) : b \in Buffers, c \in Enabled}

VARIABLES
  buf,       \* buf[b]: the terminalOutputBuffer, with its two consumer states
  th,        \* th[t]: pc of goroutine t, the bytes it still has to release
             \* to the budget, and the pc it goes on with after that or a wake
  wr,        \* wr[b]: locals of Write, writeChunk and reserve
  fl,        \* fl[b][c]: target, context and result of the Flush call
  budget     \* the shared terminalOutputResidentBudget

vars == <<buf, th, wr, fl, budget>>
-----------------------------------------------------------------------------
(* The "...Locked" helpers, as functions from buffer to buffer.            *)

\* Total payload length of the chunks in S: the number of their bytes.
Bytes(B, S) == Cardinality({p \in S \X (1..ChunkBytes) : p[2] <= B.size[p[1]]})

\* nextPendingNodeLocked: the first member of S after n, 0 for nil.
FirstAfter(S, n) == LET T == {m \in S : m > n} IN IF T = {} THEN 0 ELSE Min(T)

\* outputNodeInFlightLocked
InFlight(cs, n) == cs.inFlight # 0 /\ cs.inFlight <= n /\ n <= cs.inFlightLast

\* What a consumer still has to be given, beyond the batch it is working on.
Queued(cs) == {n \in cs.pend : ~InFlight(cs, n)}

HasActiveConsumer(B) == \E c \in Consumers : B.cons[c].active

AcceptingOutput(B) == ~B.closed /\ ~B.sealed /\ HasActiveConsumer(B)

\* Faulty variant of DropQueued: every drop counts as a gap of its own.
DropQueuedCountsTwice(B, cs, D) ==
  IF D = {} THEN cs
  ELSE [cs EXCEPT !.pend = @ \ D,
                  !.gapCount = @ + 1,
                  !.gap = @ \cup D,
                  !.gapSeq = Max(D \cup {@}),
                  !.dropped = @ + Bytes(B, D)]

\* addGapLocked for every chunk of D, whose pending bits are cleared.
DropQueued(B, cs, D) ==
  IF D = {} THEN cs
  ELSE [cs EXCEPT !.pend = @ \ D,
                  !.gapCount = IF cs.gap = {} THEN @ + 1 ELSE @,
                  !.gap = @ \cup D,
                  !.gapSeq = Max(D \cup {@}),
                  !.dropped = @ + Bytes(B, D)]

\* Faulty variant of Reclaim: the freed nodes stay linked and are freed again.
ReclaimKeepsNodes(B) ==
  LET free == {n \in B.nodes : \A c \in Consumers : n \notin B.cons[c].pend}
  IN  [B EXCEPT !.resident = @ - Bytes(B, free)]

\* reclaimLocked: unlink the nodes nobody waits for any more.
Reclaim(B) ==
  LET free == {n \in B.nodes : \A c \in Consumers : n \notin B.cons[c].pend}
  IN  [B EXCEPT !.nodes = @ \ free, !.resident = @ - Bytes(B, free)]

\* The nodes dropOldestLocked visits: it stops after the node with which the
\* nodes it has emptied add up to the required bytes.
Oldest(B, required) ==
  LET emptied(n) == {m \in B.nodes : m <= n /\ \A c \in Consumers :
                        ~(m \in B.cons[c].pend /\ InFlight(B.cons[c], m))}
  IN  {n \in B.nodes : \A m \in B.nodes : m < n => Bytes(B, emptied(m)) < required}

\* dropOldestLocked
DropOldest(B, required) ==
  LET visited == Oldest(B, required)
      drop(cs) == LET D == visited \cap Queued(cs)
                      ds == DropQueued(B, cs, D)
                  IN  [ds EXCEPT !.next = IF @ \in D THEN FirstAfter(ds.pend, @) ELSE @]
  IN  Reclaim([B EXCEPT !.cons = [c \in Consumers |-> drop(B.cons[c])]])

\* The next sequence number is given to a chunk of `bytes` bytes.
TakeSeq(B, bytes) ==
  [B EXCEPT !.nextSeq = @ + 1, !.size = [@ EXCEPT ![B.nextSeq + 1] = bytes]]

\* dropIncomingLocked: the chunk becomes part of every active consumer's gap.
DropIncoming(B, bytes) ==
  LET A == TakeSeq(B, bytes)
      drop(cs) == [DropQueued(A, cs, Queued(cs) \cup {A.nextSeq}) EXCEPT !.next = 0]
  IN  Reclaim([A EXCEPT !.cons = [c \in Consumers |->
                 IF A.cons[c].active THEN drop(A.cons[c]) ELSE A.cons[c]]])

\* A gap of the consumer waits or is being announced.
Gapped(cs) == cs.gap # {} \/ cs.gapFly # {}

\* Faulty variant of AssignChunk: what is queued behind the gap stays queued.
AssignChunkKeepsQueued(B, bytes) ==
  LET A == TakeSeq(B, bytes)
  IN  Reclaim([A EXCEPT !.cons = [c \in Consumers |->
                 IF A.cons[c].active /\ Gapped(A.cons[c])
                 THEN DropQueued(A, A.cons[c], {A.nextSeq}) ELSE A.cons[c]]])

\* The second critical section of writeChunk, up to reclaimLocked: a consumer
\* with a gap before it has the chunk, and what it has queued, added to the gap.
AssignChunk(B, bytes) ==
  LET A == TakeSeq(B, bytes)
      join(cs) == LET ds == DropQueued(A, cs, Queued(cs) \cup {A.nextSeq})
                  IN  IF cs.inFlight = 0 THEN [ds EXCEPT !.next = 0] ELSE ds
  IN  Reclaim([A EXCEPT !.cons = [c \in Consumers |->
                 IF A.cons[c].active /\ Gapped(A.cons[c])
                 THEN join(A.cons[c]) ELSE A.cons[c]]])

\* The rest of it: the node is linked with the pending bits of `mask`.
LinkNode(A, mask) ==
  LET s == A.nextSeq
      link(cs) == [cs EXCEPT !.pend = @ \cup {s},
                             !.next = IF @ = 0 /\ cs.inFlight = 0 THEN s ELSE @]
  IN  IF mask = {} THEN A
      ELSE [A EXCEPT !.nodes = @ \cup {s}, !.resident = @ + A.size[s],
                     !.cons = [c \in Consumers |->
                        IF c \in mask THEN link(A.cons[c]) ELSE A.cons[c]]]

\* Faulty variant of BatchOf: the batch skips to the last queued node.
BatchOfNewest(B, cs) == {Max(cs.pend)}

\* next: the batch that starts at state.next, as long as it fits in a chunk.
BatchOf(B, cs) ==
  {n \in cs.pend : n >= cs.next
                   /\ \A m \in cs.pend : cs.next < m /\ m <= n
                        => Bytes(B, {k \in cs.pend : cs.next <= k /\ k <= m}) <= ChunkBytes}

\* Faulty variant of FailConsumer: the pending gap is not reported.
FailConsumerForgetsGap(B, cs, undelivered) ==
  LET released == IF cs.next = 0 THEN {} ELSE {n \in cs.pend : n >= cs.next}
  IN  [cs EXCEPT !.failed = undelivered \cup released,
                 !.gap = {}, !.gapSeq = 0,
                 !.pend = @ \ released, !.dropped = @ + Bytes(B, released),
                 !.unavailable = TRUE, !.failurePending = TRUE,
                 !.active = FALSE, !.next = 0]

\* What completeBatch and completeGap do when the callback failed: everything
\* the consumer has not been given is reported with the error and released.
FailConsumer(B, cs, undelivered) ==
  LET released == IF cs.next = 0 THEN {} ELSE {n \in cs.pend : n >= cs.next}
  IN  [cs EXCEPT !.failed = undelivered \cup cs.gap \cup released,
                 !.gap = {}, !.gapSeq = 0,
                 !.pend = @ \ released, !.dropped = @ + Bytes(B, released),
                 !.unavailable = TRUE, !.failurePending = TRUE,
                 !.active = FALSE, !.next = 0]

\* completeBatch under buffer.mu
CompleteBatch(B, c, err) ==
  LET cs == B.cons[c]
      done == {n \in cs.pend : InFlight(cs, n)}
      ds == [cs EXCEPT !.inFlight = 0, !.inFlightLast = 0, !.batch = {},
                       !.pend = @ \ done,
                       !.completedSeq = Max(done \cup {@}),
                       !.next = FirstAfter(cs.pend, cs.inFlightLast)]
      es == IF err
            THEN FailConsumer(B, [ds EXCEPT
                    !.dropped = @ + Bytes(B, cs.batch),
                    !.gapCount = IF cs.gap = {} THEN @ + 1 ELSE @], cs.batch)
            ELSE [ds EXCEPT !.ingested = @ \cup cs.batch]
  IN  Reclaim([B EXCEPT !.cons = [@ EXCEPT ![c] = es]])

\* completeGap under buffer.mu
CompleteGap(B, c, err) ==
  LET cs == B.cons[c]
      ds == [cs EXCEPT !.gapFly = {}, !.gapFlySeq = 0]
      es == IF err THEN FailConsumer(B, ds, cs.gapFly)
            ELSE [ds EXCEPT !.epoch = @ + 1,
                            !.completedSeq = Max({@, cs.gapFlySeq}),
                            !.acked = @ \cup cs.gapFly]
  IN  Reclaim([B EXCEPT !.cons = [@ EXCEPT ![c] = es]])

\* Close under buffer.mu, for a buffer that is not closed yet
CloseBuffer(B) ==
  LET drop(cs) == IF cs.active THEN [DropQueued(B, cs, Queued(cs)) EXCEPT !.next = 0]
                  ELSE cs
      shut(cs) == [drop(cs) EXCEPT !.active = FALSE, !.done = @ \/ ~cs.started]
  IN  Reclaim([B EXCEPT !.closed = TRUE,
                        !.cons = [c \in Consumers |-> shut(B.cons[c])]])
-----------------------------------------------------------------------------
NewConsumer(enabled) ==
  [active |-> enabled, started |-> FALSE, done |-> ~enabled,
   next |-> 0, pend |-> {}, inFlight |-> 0, inFlightLast |-> 0, batch |-> {},
   gap |-> {}, gapSeq |-> 0, gapFly |-> {}, gapFlySeq |-> 0,
   completedSeq |-> 0, epoch |-> 0, gapCount |-> 0, dropped |-> 0,
   unavailable |-> FALSE, failed |-> {}, failurePending |-> FALSE,
   \* history variables: the chunks the callbacks have accepted
   ingested |-> {}, acked |-> {}]

NewBuffer ==
  [nodes |-> {}, size |-> [s \in Seqs |-> 0], resident |-> 0, nextSeq |-> 0,
   closed |-> FALSE, sealed |-> FALSE,
   cons |-> [c \in Consumers |-> NewConsumer(c \in Enabled)]]

At(pc) == [pc |-> pc, rel |-> 0, ret |-> pc]

Init ==
  /\ buf = [b \in Buffers |-> NewBuffer]
  /\ th = [t \in Threads |-> At(IF t[1] = "runner" THEN "start" ELSE "idle")]
  /\ wr = [b \in Buffers |-> [rest |-> 0, chunk |-> 0, cands |-> {}, need |-> 0]]
  /\ fl = [b \in Buffers |-> [c \in Enabled |->
             [target |-> 0, ctxDone |-> FALSE, result |-> "none"]]]
  /\ budget = [resident |-> 0, closed |-> FALSE, buffers |-> Buffers]

\* The goroutines after buffer.cond.Broadcast() and after budget.cond.Broadcast().
CondBroadcast(b) ==
  [t \in Threads |-> IF t[2] = b /\ th[t].pc = "sleep" THEN At(th[t].ret) ELSE th[t]]
BudgetBroadcast ==
  [t \in Threads |-> IF th[t].pc = "budgetSleep" THEN At("reserve") ELSE th[t]]

\* budget.release(freed) returns at once when nothing was freed.
ReleaseThen(freed, pc) ==
  IF freed > 0 THEN [pc |-> "release", rel |-> freed, ret |-> pc] ELSE At(pc)

Sleep(pc) == [pc |-> "sleep", rel |-> 0, ret |-> pc]

\* Goroutine t leaves buffer.mu of b with buffer state B, having broadcast or not.
Unlock(t, b, B, after) ==
  /\ buf' = [buf EXCEPT ![b] = B]
  /\ th' = [th EXCEPT ![t] = after]
UnlockBroadcast(t, b, B, after) ==
  /\ buf' = [buf EXCEPT ![b] = B]
  /\ th' = [CondBroadcast(b) EXCEPT ![t] = after]
Goto(t, pc) == th' = [th EXCEPT ![t] = At(pc)]

\* Faulty variant of Release: the writers that wait for the budget sleep on.
ReleaseSilently(t) ==
  /\ th[t].pc = "release"
  /\ budget' = [budget EXCEPT !.resident = Max({0, @ - th[t].rel})]
  /\ Goto(t, th[t].ret)
  /\ UNCHANGED <<buf, wr, fl>>

\* budget.release, after the goroutine has left buffer.mu
Release(t) ==
  /\ th[t].pc = "release"
  /\ budget' = [budget EXCEPT !.resident = Max({0, @ - th[t].rel})]
  /\ th' = [BudgetBroadcast EXCEPT ![t] = At(th[t].ret)]
  /\ UNCHANGED <<buf, wr, fl>>
-----------------------------------------------------------------------------
(* The pump of watchOutput: Write, writeChunk, reserve.                    *)

\* Where writeChunk returns true: Write goes on with the rest of the payload.
NextChunk(b) == IF wr[b].rest > wr[b].chunk THEN "local" ELSE "idle"
ChunkOf(rest) == Min({rest, ChunkBytes, Capacity})
AdvancePayload(b) ==
  LET rest == wr[b].rest - wr[b].chunk
  IN  wr' = [wr EXCEPT ![b].rest = rest, ![b].chunk = IF rest = 0 THEN 0 ELSE ChunkOf(rest)]

\* A PTY read arrives and Write is called with it.
StartWrite(b, p) ==
  /\ th[Writer(b)].pc = "idle"
  /\ buf[b].nextSeq + p <= MaxSeq
  /\ wr' = [wr EXCEPT ![b].rest = p, ![b].chunk = ChunkOf(p)]
  /\ Goto(Writer(b), "local")
  /\ UNCHANGED <<buf, fl, budget>>

\* The output channel is closed, or buffer.Closed() is: the pump returns.
StopPump(b) ==
  /\ th[Writer(b)].pc = "idle"
  /\ Goto(Writer(b), "seal")
  /\ UNCHANGED <<buf, wr, fl, budget>>

LocallyFull(b) == AcceptingOutput(buf[b]) /\ buf[b].resident + wr[b].chunk > Capacity

\* The loop of writeChunk that makes room in the buffer itself.
WaitLocal(b) ==
  /\ th[Writer(b)].pc = "local"
  /\ LocallyFull(b) /\ Overflow[b] = "block"
  /\ th' = [th EXCEPT ![Writer(b)] = Sleep("local")]
  /\ UNCHANGED <<buf, wr, fl, budget>>

DropLocal(b) ==
  /\ th[Writer(b)].pc = "local"
  /\ LocallyFull(b) /\ Overflow[b] = "drop"
  /\ LET D == DropOldest(buf[b], wr[b].chunk)
         freed == buf[b].resident - D.resident
         E == DropIncoming(D, wr[b].chunk)
     IN  IF freed > 0
         THEN /\ Unlock(Writer(b), b, D, ReleaseThen(freed, "local"))
              /\ UNCHANGED wr
         ELSE /\ UnlockBroadcast(Writer(b), b, E,
                                 ReleaseThen(D.resident - E.resident, NextChunk(b)))
              /\ AdvancePayload(b)
  /\ UNCHANGED <<fl, budget>>

LeaveLocal(b) ==
  /\ th[Writer(b)].pc = "local"
  /\ ~LocallyFull(b)
  /\ \/ /\ buf[b].closed \/ buf[b].sealed
        /\ Goto(Writer(b), "seal")
        /\ UNCHANGED wr
     \/ /\ ~buf[b].closed /\ ~buf[b].sealed /\ ~HasActiveConsumer(buf[b])
        /\ Goto(Writer(b), NextChunk(b))
        /\ AdvancePayload(b)
     \/ /\ AcceptingOutput(buf[b])
        /\ Goto(Writer(b), "reserve")
        /\ UNCHANGED wr
  /\ UNCHANGED <<buf, fl, budget>>

\* reserve: the check of the buffer, under buffer.mu, before budget.mu is taken
CheckAccepting(b) ==
  /\ th[Writer(b)].pc = "reserve"
  /\ Goto(Writer(b), IF AcceptingOutput(buf[b]) THEN "budget" ELSE "refused")
  /\ UNCHANGED <<buf, wr, fl, budget>>

\* Faulty variant of Fits: the chunk itself is not counted.
FitsBefore(b) == budget.resident <= MaxBytes

Fits(b) == budget.resident + wr[b].chunk <= MaxBytes
Reserve(b) ==
  /\ budget' = [budget EXCEPT !.resident = @ + wr[b].chunk]
  /\ Goto(Writer(b), "append")

\* reserve: the section under budget.mu
TryReserve(b) ==
  /\ th[Writer(b)].pc = "budget"
  /\ \/ /\ budget.closed
        /\ Goto(Writer(b), "refused")
        /\ UNCHANGED <<wr, budget>>
     \/ /\ ~budget.closed /\ Fits(b)
        /\ Reserve(b)
        /\ UNCHANGED wr
     \/ /\ ~budget.closed /\ ~Fits(b) /\ Overflow[b] = "block"
        /\ th' = [th EXCEPT ![Writer(b)] = [pc |-> "budgetSleep", rel |-> 0, ret |-> "reserve"]]
        /\ UNCHANGED <<wr, budget>>
     \/ /\ ~budget.closed /\ ~Fits(b) /\ Overflow[b] = "drop"
        /\ wr' = [wr EXCEPT ![b].cands = {k \in budget.buffers : Overflow[k] = "drop"},
                            ![b].need = budget.resident + wr[b].chunk - MaxBytes]
        /\ Goto(Writer(b), "evict")
        /\ UNCHANGED budget
  /\ UNCHANGED <<buf, fl>>

\* One candidate of the eviction pass (map order is random): dropForAggregate.
Evict(b, k) ==
  /\ th[Writer(b)].pc = "evict"
  /\ wr[b].need > 0 /\ k \in wr[b].cands
  /\ LET D == DropOldest(buf[k], wr[b].need)
         freed == buf[k].resident - D.resident
     IN  /\ UnlockBroadcast(Writer(b), k, D, ReleaseThen(freed, "evict"))
         /\ wr' = [wr EXCEPT ![b].cands = @ \ {k}, ![b].need = @ - freed]
  /\ UNCHANGED <<fl, budget>>

\* The second look at the budget after the eviction pass
RetryReserve(b) ==
  /\ th[Writer(b)].pc = "evict"
  /\ wr[b].need <= 0 \/ wr[b].cands = {}
  /\ wr' = [wr EXCEPT ![b].cands = {}, ![b].need = 0]
  /\ \/ /\ ~budget.closed /\ Fits(b)
        /\ Reserve(b)
     \/ /\ budget.closed \/ ~Fits(b)
        /\ Goto(Writer(b), "refused")
        /\ UNCHANGED budget
  /\ UNCHANGED <<buf, fl>>

\* writeChunk after reserve returned false
Refused(b) ==
  /\ th[Writer(b)].pc = "refused"
  /\ \/ /\ buf[b].closed \/ buf[b].sealed \/ Overflow[b] = "block"
        /\ Goto(Writer(b), "seal")
        /\ UNCHANGED <<buf, wr>>
     \/ /\ ~buf[b].closed /\ ~buf[b].sealed /\ Overflow[b] = "drop"
        /\ LET E == DropIncoming(buf[b], wr[b].chunk)
           IN  UnlockBroadcast(Writer(b), b, E,
                               ReleaseThen(buf[b].resident - E.resident, NextChunk(b)))
        /\ AdvancePayload(b)
  /\ UNCHANGED <<fl, budget>>

\* Faulty variant of AppendChunk: a chunk nobody is given keeps its reservation.
AppendChunkLeaks(b) ==
  /\ th[Writer(b)].pc = "append"
  /\ \/ /\ buf[b].closed \/ buf[b].sealed
        /\ Goto(Writer(b), "seal")
        /\ UNCHANGED <<buf, wr>>
     \/ /\ ~buf[b].closed /\ ~buf[b].sealed
        /\ LET A == AssignChunk(buf[b], wr[b].chunk)
               mask == {c \in Consumers : buf[b].cons[c].active /\ ~Gapped(buf[b].cons[c])}
               freed == buf[b].resident - A.resident
           IN  UnlockBroadcast(Writer(b), b, LinkNode(A, mask),
                               ReleaseThen(freed, NextChunk(b)))
        /\ AdvancePayload(b)
  /\ UNCHANGED <<fl, budget>>

\* writeChunk after reserve returned true
AppendChunk(b) ==
  /\ th[Writer(b)].pc = "append"
  /\ \/ /\ buf[b].closed \/ buf[b].sealed
        /\ th' = [th EXCEPT ![Writer(b)] = ReleaseThen(wr[b].chunk, "seal")]
        /\ UNCHANGED <<buf, wr>>
     \/ /\ ~buf[b].closed /\ ~buf[b].sealed
        /\ LET A == AssignChunk(buf[b], wr[b].chunk)
               mask == {c \in Consumers : buf[b].cons[c].active /\ ~Gapped(buf[b].cons[c])}
               freed == buf[b].resident - A.resident
               unused == IF mask = {} THEN wr[b].chunk ELSE 0
           IN  UnlockBroadcast(Writer(b), b, LinkNode(A, mask),
                               ReleaseThen(unused + freed, NextChunk(b)))
        /\ AdvancePayload(b)
  /\ UNCHANGED <<fl, budget>>
-----------------------------------------------------------------------------
(* Stopping a buffer.  The pump ends with Seal, Wait, Close, and so does   *)
(* stopAndDrainOutputBuffer; abortOutputBuffer calls Close, then Wait.     *)

StartDrain(b) ==
  /\ b \in Stopped /\ th[Stopper(b)].pc = "idle"
  /\ Goto(Stopper(b), "seal")
  /\ UNCHANGED <<buf, wr, fl, budget>>

StartAbort(b) ==
  /\ b \in Stopped /\ th[Stopper(b)].pc = "idle"
  /\ Goto(Stopper(b), "abort")
  /\ UNCHANGED <<buf, wr, fl, budget>>

\* Faulty variant of Seal: the consumers are not told.
SealSilently(t) ==
  /\ th[t].pc = "seal"
  /\ Unlock(t, t[2], [buf[t[2]] EXCEPT !.sealed = TRUE], At("sealWake"))
  /\ UNCHANGED <<wr, fl, budget>>

\* Seal
Seal(t) ==
  /\ th[t].pc = "seal"
  /\ UnlockBroadcast(t, t[2], [buf[t[2]] EXCEPT !.sealed = TRUE], At("sealWake"))
  /\ UNCHANGED <<wr, fl, budget>>

\* budget.wake, at the end of Seal and of a failed completeBatch or completeGap
AfterWake == [sealWake |-> "wait", failWake |-> "handle"]
Wake(t) ==
  /\ th[t].pc \in DOMAIN AfterWake
  /\ th' = [BudgetBroadcast EXCEPT ![t] = At(AfterWake[th[t].pc])]
  /\ UNCHANGED <<buf, wr, fl, budget>>

\* Wait: both consumers' done channels are closed.
AfterWait == [wait |-> "close", abortWait |-> "end"]
Wait(t) ==
  /\ th[t].pc \in DOMAIN AfterWait
  /\ \A c \in Consumers : buf[t[2]].cons[c].done
  /\ Goto(t, AfterWait[th[t].pc])
  /\ UNCHANGED <<buf, wr, fl, budget>>

\* Close, up to the unlock; nothing is left to do for a buffer already closed.
AfterClose == [close |-> "unregister", abort |-> "abortUnregister"]
AfterUnregister == [unregister |-> "end", abortUnregister |-> "abortWait"]
Close(t) ==
  /\ th[t].pc \in DOMAIN AfterClose
  /\ LET B == buf[t[2]]
         D == CloseBuffer(B)
         then == AfterClose[th[t].pc]
     IN  IF B.closed
         THEN /\ Goto(t, AfterUnregister[then])
              /\ UNCHANGED buf
         ELSE UnlockBroadcast(t, t[2], D, ReleaseThen(B.resident - D.resident, then))
  /\ UNCHANGED <<wr, fl, budget>>

\* budget.unregister, the end of Close
Unregister(t) ==
  /\ th[t].pc \in DOMAIN AfterUnregister
  /\ budget' = [budget EXCEPT !.buffers = @ \ {t[2]}]
  /\ th' = [BudgetBroadcast EXCEPT ![t] = At(AfterUnregister[th[t].pc])]
  /\ UNCHANGED <<buf, wr, fl>>

\* budget.close: the pool shuts down after it has aborted every terminal.
CloseBudget ==
  /\ ~budget.closed
  /\ \A b \in Buffers : th[Stopper(b)].pc = "end"
  /\ budget' = [budget EXCEPT !.closed = TRUE]
  /\ th' = BudgetBroadcast
  /\ UNCHANGED <<buf, wr, fl>>
-----------------------------------------------------------------------------
(* run: the goroutine of one consumer.                                     *)

SetConsumer(b, c, cs) == [buf[b] EXCEPT !.cons = [@ EXCEPT ![c] = cs]]

StartRun(b, c) ==
  LET t == Runner(b, c)
      cs == buf[b].cons[c]
  IN  /\ th[t].pc = "start"
      /\ IF ~cs.active \/ buf[b].closed
         THEN Unlock(t, b, SetConsumer(b, c, [cs EXCEPT !.done = TRUE]), At("end"))
         ELSE Unlock(t, b, SetConsumer(b, c, [cs EXCEPT !.started = TRUE]), At("next"))
      /\ UNCHANGED <<wr, fl, budget>>

\* Faulty variant of TakeWork: a sealed buffer is left with what it still holds.
TakeWorkLeavesSealed(b, c) ==
  LET t == Runner(b, c)
      B == buf[b]
      cs == B.cons[c]
      batch == BatchOf(B, cs)
      idle == cs.gap = {} /\ cs.next = 0
      live == cs.active /\ ~B.closed /\ ~B.sealed
  IN  /\ th[t].pc = "next"
      /\ \/ /\ live /\ idle
            /\ Unlock(t, b, B, Sleep("next"))
         \/ /\ ~live
            /\ Goto(t, "finish")
            /\ UNCHANGED buf
         \/ /\ live /\ cs.gap # {}
            /\ Unlock(t, b, SetConsumer(b, c,
                 [cs EXCEPT !.gapFly = cs.gap, !.gapFlySeq = cs.gapSeq,
                            !.gap = {}, !.gapSeq = 0]), At("gap"))
         \/ /\ live /\ cs.gap = {} /\ cs.next # 0
            /\ Unlock(t, b, SetConsumer(b, c,
                 [cs EXCEPT !.batch = batch, !.inFlight = cs.next,
                            !.inFlightLast = Max(batch)]), At("ingest"))
      /\ UNCHANGED <<wr, fl, budget>>

\* next: wait for work, then take the gap, or else a batch of queued chunks.
TakeWork(b, c) ==
  LET t == Runner(b, c)
      B == buf[b]
      cs == B.cons[c]
      batch == BatchOf(B, cs)
      idle == cs.gap = {} /\ cs.next = 0
  IN  /\ th[t].pc = "next"
      /\ \/ /\ cs.active /\ ~B.closed /\ ~B.sealed /\ idle
            /\ Unlock(t, b, B, Sleep("next"))
         \/ /\ ~cs.active \/ B.closed \/ (B.sealed /\ idle)
            /\ Goto(t, "finish")
            /\ UNCHANGED buf
         \/ /\ cs.active /\ ~B.closed /\ cs.gap # {}
            /\ Unlock(t, b, SetConsumer(b, c,
                 [cs EXCEPT !.gapFly = cs.gap, !.gapFlySeq = cs.gapSeq,
                            !.gap = {}, !.gapSeq = 0]), At("gap"))
         \/ /\ cs.active /\ ~B.closed /\ cs.gap = {} /\ cs.next # 0
            /\ Unlock(t, b, SetConsumer(b, c,
                 [cs EXCEPT !.batch = batch, !.inFlight = cs.next,
                            !.inFlightLast = Max(batch)]), At("ingest"))
      /\ UNCHANGED <<wr, fl, budget>>

\* Faulty variant of Complete: nobody is told that the callback has returned.
CompleteSilently(b, c, err) ==
  LET t == Runner(b, c)
      D == IF th[t].pc = "ingest" THEN CompleteBatch(buf[b], c, err)
           ELSE CompleteGap(buf[b], c, err)
  IN  /\ th[t].pc \in {"ingest", "gap"}
      /\ err => MayFail
      /\ Unlock(t, b, D, ReleaseThen(buf[b].resident - D.resident,
                                     IF err THEN "failWake" ELSE "next"))
      /\ UNCHANGED <<wr, fl, budget>>

\* The callback returns: completeBatch or completeGap.
Complete(b, c, err) ==
  LET t == Runner(b, c)
      D == IF th[t].pc = "ingest" THEN CompleteBatch(buf[b], c, err)
           ELSE CompleteGap(buf[b], c, err)
  IN  /\ th[t].pc \in {"ingest", "gap"}
      /\ err => MayFail
      /\ UnlockBroadcast(t, b, D, ReleaseThen(buf[b].resident - D.resident,
                                              IF err THEN "failWake" ELSE "next"))
      /\ UNCHANGED <<wr, fl, budget>>

\* The failed callback has returned: completeFailureHandling.
HandleFailure(b, c) ==
  /\ th[Runner(b, c)].pc = "handle"
  /\ UnlockBroadcast(Runner(b, c), b,
       SetConsumer(b, c, [buf[b].cons[c] EXCEPT !.failurePending = FALSE]), At("finish"))
  /\ UNCHANGED <<wr, fl, budget>>

\* finishConsumer
FinishRun(b, c) ==
  /\ th[Runner(b, c)].pc = "finish"
  /\ Unlock(Runner(b, c), b,
       SetConsumer(b, c, [buf[b].cons[c] EXCEPT !.done = TRUE]), At("end"))
  /\ UNCHANGED <<wr, fl, budget>>
-----------------------------------------------------------------------------
(* Flush.                                                                  *)

\* Faulty variant of FlushRound: the last chunk before the call is not waited for.
FlushRoundEarly(b, c, target) ==
  LET cs == buf[b].cons[c]
      broken == cs.unavailable /\ ~cs.failurePending
      ready == ~cs.unavailable /\ (~cs.active \/ cs.completedSeq + 1 >= target)
      result == CASE broken -> "unavailable" [] ready -> "ok"
                  [] fl[b][c].ctxDone -> "cancelled" [] OTHER -> "none"
  IN  /\ fl' = [fl EXCEPT ![b][c].target = target, ![b][c].result = result]
      /\ th' = [th EXCEPT ![Flusher(b, c)] =
                  IF result = "none" THEN Sleep("flush") ELSE At("end")]
      /\ UNCHANGED <<buf, wr, budget>>

\* One round of the loop of Flush: return, or sleep until a broadcast.
FlushRound(b, c, target) ==
  LET cs == buf[b].cons[c]
      broken == cs.unavailable /\ ~cs.failurePending
      ready == ~cs.unavailable /\ (~cs.active \/ cs.completedSeq >= target)
      result == CASE broken -> "unavailable" [] ready -> "ok"
                  [] fl[b][c].ctxDone -> "cancelled" [] OTHER -> "none"
  IN  /\ fl' = [fl EXCEPT ![b][c].target = target, ![b][c].result = result]
      /\ th' = [th EXCEPT ![Flusher(b, c)] =
                  IF result = "none" THEN Sleep("flush") ELSE At("end")]
      /\ UNCHANGED <<buf, wr, budget>>

StartFlush(b, c) ==
  /\ b \in Flushed /\ th[Flusher(b, c)].pc = "idle"
  /\ FlushRound(b, c, buf[b].nextSeq)

ResumeFlush(b, c) ==
  /\ th[Flusher(b, c)].pc = "flush"
  /\ FlushRound(b, c, fl[b][c].target)

\* The context of the call ends: its AfterFunc broadcasts.
CancelFlush(b, c) ==
  /\ b \in Flushed /\ th[Flusher(b, c)].pc # "end" /\ ~fl[b][c].ctxDone
  /\ fl' = [fl EXCEPT ![b][c].ctxDone = TRUE]
  /\ th' = CondBroadcast(b)
  /\ UNCHANGED <<buf, wr, budget>>
-----------------------------------------------------------------------------
WriterStep(b) ==
  \/ WaitLocal(b) \/ DropLocal(b) \/ LeaveLocal(b)
  \/ CheckAccepting(b) \/ TryReserve(b)
  \/ (\E k \in Buffers : Evict(b, k)) \/ RetryReserve(b)
  \/ Refused(b) \/ AppendChunk(b)

\* Steps that more than one kind of goroutine takes.
CommonStep(t) == Release(t) \/ Seal(t) \/ Wake(t) \/ Wait(t) \/ Close(t) \/ Unregister(t)

RunnerStep(b, c) ==
  \/ StartRun(b, c) \/ TakeWork(b, c) \/ (\E err \in BOOLEAN : Complete(b, c, err))
  \/ HandleFailure(b, c) \/ FinishRun(b, c)

\* Calls that the environment may or may not make.
Environment ==
  \/ \E b \in Buffers : (\E p \in Payloads : StartWrite(b, p)) \/ StopPump(b)
                        \/ StartDrain(b) \/ StartAbort(b)
  \/ \E b \in Buffers, c \in Enabled : StartFlush(b, c) \/ CancelFlush(b, c)
  \/ CloseBudget

Next ==
  \/ \E b \in Buffers : WriterStep(b)
  \/ \E t \in Threads : CommonStep(t)
  \/ \E b \in Buffers, c \in Enabled : RunnerStep(b, c) \/ ResumeFlush(b, c)
  \/ Environment

Spec == Init /\ [][Next]_vars

\* Every goroutine that can run does, and the callbacks return.
Fairness ==
  /\ \A b \in Buffers : WF_vars(WriterStep(b))
  /\ \A t \in Threads : WF_vars(CommonStep(t))
  /\ \A b \in Buffers, c \in Enabled :
       WF_vars(RunnerStep(b, c)) /\ WF_vars(ResumeFlush(b, c))

FairSpec == Spec /\ Fairness
-----------------------------------------------------------------------------
(* Properties.                                                             *)

ConsumerStates ==
  [active : BOOLEAN, started : BOOLEAN, done : BOOLEAN,
   next : 0..MaxSeq, pend : SUBSET Seqs, inFlight : 0..MaxSeq,
   inFlightLast : 0..MaxSeq, batch : SUBSET Seqs,
   gap : SUBSET Seqs, gapSeq : 0..MaxSeq, gapFly : SUBSET Seqs, gapFlySeq : 0..MaxSeq,
   completedSeq : 0..MaxSeq, epoch : Nat, gapCount : Nat, dropped : Nat,
   unavailable : BOOLEAN, failed : SUBSET Seqs, failurePending : BOOLEAN,
   ingested : SUBSET Seqs, acked : SUBSET Seqs]

BufferStates ==
  [nodes : SUBSET Seqs, size : [Seqs -> 0..ChunkBytes], resident : Nat,
   nextSeq : 0..MaxSeq, closed : BOOLEAN, sealed : BOOLEAN,
   cons : [Consumers -> ConsumerStates]]

\* The places of the goroutines in the code.
Places ==
  {"idle", "local", "reserve", "budget", "evict", "refused", "append", "start", "next",
   "ingest", "gap", "failWake", "handle", "finish", "flush", "seal", "sealWake", "wait",
   "close", "unregister", "abort", "abortUnregister", "abortWait", "end",
   "sleep", "budgetSleep", "release"}

\* Type invariant; in particular the bytes counted as resident never go below
\* zero, whatever reclaimLocked subtracts.
TypeOK ==
  /\ buf \in [Buffers -> BufferStates]
  /\ th \in [Threads -> [pc : Places, rel : Nat, ret : Places]]
  /\ wr \in [Buffers -> [rest : Nat, chunk : 0..ChunkBytes,
                         cands : SUBSET Buffers, need : Int]]
  /\ fl \in [Buffers -> [Enabled -> [target : 0..MaxSeq, ctxDone : BOOLEAN,
               result : {"none", "ok", "unavailable", "cancelled"}]]]
  /\ budget \in [resident : Nat, closed : BOOLEAN, buffers : SUBSET Buffers]

\* The end of what a consumer is working on, and of the gap that waits behind it.
Front(cs) == IF cs.gapFly # {} THEN cs.gapFlySeq
             ELSE IF cs.inFlight # 0 THEN cs.inFlightLast ELSE cs.completedSeq
Back(cs) == IF cs.gap # {} THEN cs.gapSeq ELSE Front(cs)

\* An active consumer is owed exactly the chunks after completedSeq, and they
\* lie in this order, without a hole or an overlap: the batch or the gap in
\* flight, the pending gap, the queued nodes.  So a gap is always announced
\* before the first payload behind it, and covers exactly what was dropped.
OwedInOrder(B, cs) ==
  /\ cs.batch \cup cs.gapFly = (cs.completedSeq + 1)..Front(cs)
  /\ cs.batch = {n \in cs.pend : InFlight(cs, n)}
  /\ cs.gap = (Front(cs) + 1)..Back(cs)
  /\ Queued(cs) = (Back(cs) + 1)..B.nextSeq
StreamInOrder ==
  \A b \in Buffers, c \in Consumers :
    buf[b].cons[c].active => OwedInOrder(buf[b], buf[b].cons[c])

\* capacity_bytes and resident_budget_bytes are hard bounds (TERMINAL_DELIVERY
\* section 2), and resident counts exactly the nodes somebody still waits for.
BoundedMemory ==
  /\ budget.resident <= MaxBytes
  /\ \A b \in Buffers :
       /\ buf[b].resident = Bytes(buf[b], buf[b].nodes)
       /\ buf[b].resident <= Capacity
       /\ buf[b].nodes = UNION {buf[b].cons[c].pend : c \in Consumers}

\* The sum of the values of f, as the number of the bytes they stand for.
Total(f) == Cardinality(UNION {{x} \X (1..f[x]) : x \in DOMAIN f})

\* The budget is the sum of the resident bytes, of the reservations of writers
\* that have not appended yet, and of the bytes freed but not yet released:
\* nothing leaks, nothing is released twice, and the clamp at 0 never acts.
Held(b) == buf[b].resident + IF th[Writer(b)].pc = "append" THEN wr[b].chunk ELSE 0
BudgetExact ==
  budget.resident = Total([b \in Buffers |-> Held(b)]) + Total([t \in Threads |-> th[t].rel])

\* The diagnostics of a consumer: every chunk is ingested, still owed, or
\* counted in droppedBytes, and every gap counted was or will be announced once.
DiagnosticsExact ==
  \A b \in Buffers, c \in Enabled :
    LET B == buf[b]
        cs == B.cons[c]
    IN  ~cs.unavailable =>
          /\ cs.dropped = Bytes(B, cs.acked \cup cs.gapFly \cup cs.gap)
          /\ cs.ingested \cup cs.acked \cup cs.gapFly \cup cs.gap \cup cs.pend = 1..B.nextSeq
          /\ cs.gapCount = cs.epoch + Cardinality({g \in {cs.gap, cs.gapFly} : g # {}})

\* Flush returns nil only when every chunk written before it was called has
\* been ingested or announced as a gap, unless the buffer was closed under it.
FlushFence ==
  \A b \in Buffers, c \in Enabled :
    fl[b][c].result = "ok" =>
      \/ 1..fl[b][c].target \subseteq buf[b].cons[c].ingested \cup buf[b].cons[c].acked
      \/ buf[b].closed

\* stopAndDrainOutputBuffer "closes a successful restart boundary without
\* discarding bytes already accepted": when its Wait, or that of the pump, is
\* over and nobody has aborted the buffer, a consumer that did not fail has had
\* everything, and with block policy without any gap.
DrainKeepsAccepted ==
  \A b \in Buffers, c \in Enabled :
    LET cs == buf[b].cons[c]
    IN  "close" \in {th[Stopper(b)].pc, th[Writer(b)].pc} /\ ~buf[b].closed
        /\ ~cs.unavailable =>
          /\ cs.ingested \cup cs.acked = 1..buf[b].nextSeq
          /\ Overflow[b] = "block" => cs.acked = {}

\* The error of a failed consumer reports exactly what it has not been given.
FailureReportsAll ==
  [][\A b \in Buffers, c \in Consumers :
       LET cs == buf'[b].cons[c]
       IN  cs.unavailable /\ ~buf[b].cons[c].unavailable =>
             cs.failed = (1..buf[b].nextSeq) \ (cs.ingested \cup cs.acked)]_vars

\* A drain or an abort of the terminal comes to its end.
StopEnds == \A b \in Stopped : th[Stopper(b)].pc # "idle" ~> th[Stopper(b)].pc = "end"

\* Flush returns.
FlushReturns ==
  \A b \in Buffers, c \in Enabled : th[Flusher(b, c)].pc # "idle" ~> th[Flusher(b, c)].pc = "end"

\* A write comes to its end: backpressure is released by the consumers, and
\* drop policy never waits.
WriteEnds == \A b \in Buffers : th[Writer(b)].pc # "idle" ~> th[Writer(b)].pc \in {"idle", "end"}
-----------------------------------------------------------------------------
\* Every consumer of every buffer is served a GapStream.
Stream(b, c) == INSTANCE GapStream WITH
  produced <- buf[b].nextSeq,
  ingested <- buf[b].cons[c].ingested,
  lost <- buf[b].cons[c].acked,
  broken <- buf[b].cons[c].unavailable

\* The code's consumers see their output in order and hear of every loss:
\* each buffer implements GapStream for each of its consumers.
ImplementsGapStream ==
  /\ \A b \in Buffers, c \in Enabled : Stream(b, c)!Init
  /\ [][\A b \in Buffers, c \in Enabled :
          [Stream(b, c)!Next]_(Stream(b, c)!vars)]_vars
=============================================================================
