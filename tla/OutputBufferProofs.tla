-------------------------- MODULE OutputBufferProofs --------------------------
(***************************************************************************)
(* Proofs about OutputBuffer, for every set of buffers with any overflow   *)
(* policies, every capacity, chunk size and budget, with or without the    *)
(* history consumer.                                                       *)
(***************************************************************************)
EXTENDS OutputConsumerProofs
-----------------------------------------------------------------------------
(* Sums.                                                                   *)

\* The part of Total(f) that the members of S contribute.
Shares(f, S) == UNION {{x} \X (1..f[x]) : x \in S}

\* The contribution of one member is its value.
LEMMA ShareSize ==
  ASSUME NEW f, NEW x, f[x] \in Nat
  PROVE  IsFiniteSet(Shares(f, {x})) /\ Cardinality(Shares(f, {x})) = f[x]
<1> DEFINE B == {x} \X (1..f[x])
           h == [k \in 1..f[x] |-> <<x, k>>]
<1>1. Shares(f, {x}) = B
  BY DEF Shares
<1>2. h \in [1..f[x] -> B] /\ \A k, m \in 1..f[x] : h[k] = h[m] => k = m
  OBVIOUS
<1>3. \A p \in B : \E k \in 1..f[x] : h[k] = p
  <2>1. TAKE p \in B
  <2>2. p[2] \in 1..f[x] /\ p = <<x, p[2]>>
    BY <2>1
  <2> WITNESS p[2] \in 1..f[x]
  <2> QED
    BY <2>2
<1>4. ExistsBijection(1..f[x], B)
  <2> HIDE DEF h, B
  <2>1. h \in Injection(1..f[x], B) /\ h \in Surjection(1..f[x], B)
    BY <1>2, <1>3, Zenon DEF Injection, Surjection, IsInjective
  <2> QED
    BY <2>1, Zenon DEF ExistsBijection, Bijection
<1>5. IsFiniteSet(1..f[x]) /\ Cardinality(1..f[x]) = f[x]
  <2>1. ASSUME NEW n \in Nat PROVE IsFiniteSet(1..n) /\ Cardinality(1..n) = n
    BY FS_Interval
  <2> QED
    BY <2>1
<1> HIDE DEF B
<1>6. IsFiniteSet(B) /\ Cardinality(B) = Cardinality(1..f[x])
  BY <1>4, <1>5, FS_Bijection
<1> QED
  BY <1>1, <1>5, <1>6

\* All contributions of a finite set together are finitely many.
LEMMA SharesFinite ==
  ASSUME NEW f, NEW S, IsFiniteSet(S), \A x \in S : f[x] \in Nat
  PROVE  IsFiniteSet(Shares(f, S))
<1> DEFINE R == {{x} \X (1..f[x]) : x \in S}
           h == [x \in S |-> {x} \X (1..f[x])]
<1>1. h \in Surjection(S, R)
  BY Zenon DEF Surjection
<1>2. IsFiniteSet(R)
  BY <1>1, FS_Surjection
<1>3. \A r \in R : IsFiniteSet(r)
  <2>1. TAKE r \in R
  <2>2. PICK x \in S : r = {x} \X (1..f[x])
    OBVIOUS
  <2>3. Shares(f, {x}) = {x} \X (1..f[x])
    BY DEF Shares
  <2> QED
    BY <2>2, <2>3, ShareSize
<1> QED
  BY <1>2, <1>3, FS_UNION DEF Shares

\* When one value changes, the total changes by as much.
LEMMA TotalChange ==
  ASSUME NEW f, NEW g, NEW S, IsFiniteSet(S), DOMAIN f = S, DOMAIN g = S,
         \A y \in S : f[y] \in Nat /\ g[y] \in Nat,
         NEW x \in S, \A y \in S : y # x => f[y] = g[y]
  PROVE  /\ Total(g) + f[x] = Total(f) + g[x]
         /\ Total(f) \in Nat /\ Total(g) \in Nat /\ f[x] <= Total(f) /\ g[x] <= Total(g)
<1> DEFINE Q == S \ {x}
<1>1. ASSUME NEW h, DOMAIN h = S, \A y \in S : h[y] \in Nat
      PROVE  /\ Total(h) = h[x] + Cardinality(Shares(h, Q))
             /\ Cardinality(Shares(h, Q)) \in Nat
  <2>1. Total(h) = Cardinality(Shares(h, S))
    BY <1>1 DEF Total, Shares
  <2>2. Shares(h, S) = Shares(h, {x}) \cup Shares(h, Q)
    BY DEF Shares
  <2>3. Shares(h, {x}) \cap Shares(h, Q) = {}
    BY DEF Shares
  <2>4. IsFiniteSet(Shares(h, {x})) /\ Cardinality(Shares(h, {x})) = h[x]
    BY <1>1, ShareSize
  <2>5. IsFiniteSet(Q) /\ \A y \in Q : h[y] \in Nat
    BY <1>1, FS_Subset
  <2>6. IsFiniteSet(Shares(h, Q))
    BY <2>5, SharesFinite
  <2>7. Cardinality(Shares(h, {x}) \cup Shares(h, Q))
          = Cardinality(Shares(h, {x})) + Cardinality(Shares(h, Q)) - Cardinality(Shares(h, {x}) \cap Shares(h, Q))
    BY <2>4, <2>6, FS_Union
  <2>8. Cardinality(Shares(h, {x}) \cap Shares(h, Q)) = 0
    BY <2>3, FS_EmptySet
  <2>9. Cardinality(Shares(h, Q)) \in Nat
    BY <2>6, FS_CardinalityType
  <2> QED
    BY <1>1, <2>1, <2>2, <2>4, <2>7, <2>8, <2>9
<1>2. Shares(f, Q) = Shares(g, Q)
  <2>1. \A y \in Q : {y} \X (1..f[y]) = {y} \X (1..g[y])
    OBVIOUS
  <2> QED
    BY <2>1 DEF Shares
<1>3. /\ Total(f) = f[x] + Cardinality(Shares(f, Q)) /\ Cardinality(Shares(f, Q)) \in Nat
      /\ Total(g) = g[x] + Cardinality(Shares(g, Q))
  BY <1>1
<1>4. f[x] \in Nat /\ g[x] \in Nat
  OBVIOUS
<1> QED
  BY <1>2, <1>3, <1>4
-----------------------------------------------------------------------------
(* Goroutines.                                                             *)

Recs == [pc : Places, rel : Nat, ret : Places]

\* Where a goroutine is or goes on: a Broadcast does not change it.
PlaceOf(r) == IF r.pc \in {"sleep", "release", "budgetSleep"} THEN r.ret ELSE r.pc

\* The places of each kind of goroutine, where it sleeps on buffer.cond, and
\* where it goes on after budget.release.
Running ==
  [writer |-> {"idle", "local", "reserve", "budget", "evict", "refused", "append",
               "seal", "sealWake", "wait", "close", "unregister", "end"},
   stopper |-> {"idle", "seal", "sealWake", "wait", "close", "unregister", "end",
                "abort", "abortUnregister", "abortWait"},
   runner |-> {"start", "next", "ingest", "gap", "failWake", "handle", "finish", "end"},
   flusher |-> {"idle", "flush", "end"}]
Sleeping == [writer |-> {"local"}, stopper |-> {}, runner |-> {"next"}, flusher |-> {"flush"}]
Releasing ==
  [writer |-> {"local", "evict", "idle", "seal", "unregister"},
   stopper |-> {"unregister", "abortUnregister"},
   runner |-> {"next", "failWake"},
   flusher |-> {}]

\* What a goroutine of a kind may be doing; only one that is about to call
\* budget.release has bytes to release.
Legal(kind, r) ==
  \/ r.pc \in Running[kind] /\ r.rel = 0
  \/ r.pc = "sleep" /\ r.rel = 0 /\ r.ret \in Sleeping[kind]
  \/ r.pc = "release" /\ r.ret \in Releasing[kind]
  \/ kind = "writer" /\ r.pc = "budgetSleep" /\ r.rel = 0 /\ r.ret = "reserve"

\* s is r, or r after a Broadcast.
Follows(r, s) == s = r \/ (r.pc \in {"sleep", "budgetSleep"} /\ s = At(r.ret))

\* Goroutine t goes to r; the others stay where they are or wake up.
Moves(t, r) ==
  /\ th' \in [Threads -> Recs] /\ th'[t] = r
  /\ \A u \in Threads : u # t => Follows(th[u], th'[u])

Kinds == {"writer", "stopper", "runner", "flusher"}

\* The goroutines of a buffer are different ones.
LEMMA ThreadKinds ==
  /\ \A b \in Buffers : /\ Writer(b) \in Threads /\ Writer(b)[1] = "writer" /\ Writer(b)[2] = b
                        /\ Stopper(b) \in Threads /\ Stopper(b)[1] = "stopper" /\ Stopper(b)[2] = b
  /\ \A b \in Buffers, c \in Enabled :
       /\ Runner(b, c) \in Threads /\ Runner(b, c)[1] = "runner" /\ Runner(b, c)[2] = b
       /\ Runner(b, c)[3] = c
       /\ Flusher(b, c) \in Threads /\ Flusher(b, c)[1] = "flusher" /\ Flusher(b, c)[2] = b
       /\ Flusher(b, c)[3] = c
BY DEF Threads, Writer, Stopper, Runner, Flusher

\* Every goroutine is one of them.
LEMMA ThreadCases ==
  ASSUME NEW t \in Threads
  PROVE  /\ t[1] \in Kinds /\ t[2] \in Buffers
         /\ t[1] = "writer" => t = Writer(t[2])
         /\ t[1] = "stopper" => t = Stopper(t[2])
         /\ t[1] = "runner" => t[3] \in Enabled /\ t = Runner(t[2], t[3])
         /\ t[1] = "flusher" => t[3] \in Enabled /\ t = Flusher(t[2], t[3])
BY DEF Threads, Kinds, Writer, Stopper, Runner, Flusher

\* The history consumer may be left out, the live consumer not.
LEMMA EnabledConsumers == Enabled \subseteq Consumers /\ "live" \in Enabled
BY DEF Enabled, Consumers

\* There are finitely many goroutines.
LEMMA ThreadsFinite == IsFiniteSet(Threads) /\ IsFiniteSet(Buffers)
<1>1. IsFiniteSet(Buffers)
  BY BufferAssumption
<1>2. IsFiniteSet(Enabled)
  <2>1. IsFiniteSet({"live"}) /\ IsFiniteSet({"live", "history"})
    BY FS_Singleton, FS_AddElement
  <2> QED
    BY <2>1 DEF Enabled, Consumers
<1> DEFINE P == Buffers \X Enabled
           W == {Writer(b) : b \in Buffers}
           S == {Stopper(b) : b \in Buffers}
           R == {Runner(b, c) : b \in Buffers, c \in Enabled}
           F == {Flusher(b, c) : b \in Buffers, c \in Enabled}
<1>3. IsFiniteSet(P)
  BY <1>1, <1>2, FS_Product
<1>4. IsFiniteSet(W)
  <2> DEFINE h == [b \in Buffers |-> Writer(b)]
  <2>1. h \in Surjection(Buffers, W)
    BY Zenon DEF Surjection
  <2> QED
    BY <1>1, <2>1, FS_Surjection
<1>5. IsFiniteSet(S)
  <2> DEFINE h == [b \in Buffers |-> Stopper(b)]
  <2>1. h \in Surjection(Buffers, S)
    BY Zenon DEF Surjection
  <2> QED
    BY <1>1, <2>1, FS_Surjection
<1>6. IsFiniteSet(R)
  <2> DEFINE h == [p \in P |-> Runner(p[1], p[2])]
  <2>1. h \in [P -> R]
    OBVIOUS
  <2>2. ASSUME NEW y \in R PROVE \E p \in P : h[p] = y
    <3>1. PICK b \in Buffers, c \in Enabled : y = Runner(b, c)
      OBVIOUS
    <3>2. <<b, c>> \in P /\ h[<<b, c>>] = Runner(b, c)
      OBVIOUS
    <3> QED
      BY <3>1, <3>2
  <2> HIDE DEF h, P, R
  <2>3. \A y \in R : \E p \in P : h[p] = y
    BY <2>2
  <2>4. h \in Surjection(P, R)
    BY <2>1, <2>3, Zenon DEF Surjection
  <2> QED
    BY <1>3, <2>4, FS_Surjection
<1>7. IsFiniteSet(F)
  <2> DEFINE h == [p \in P |-> Flusher(p[1], p[2])]
  <2>1. h \in [P -> F]
    OBVIOUS
  <2>2. ASSUME NEW y \in F PROVE \E p \in P : h[p] = y
    <3>1. PICK b \in Buffers, c \in Enabled : y = Flusher(b, c)
      OBVIOUS
    <3>2. <<b, c>> \in P /\ h[<<b, c>>] = Flusher(b, c)
      OBVIOUS
    <3> QED
      BY <3>1, <3>2
  <2> HIDE DEF h, P, F
  <2>3. \A y \in F : \E p \in P : h[p] = y
    BY <2>2
  <2>4. h \in Surjection(P, F)
    BY <2>1, <2>3, Zenon DEF Surjection
  <2> QED
    BY <1>3, <2>4, FS_Surjection
<1> HIDE DEF W, S, R, F
<1>8. IsFiniteSet(W \cup S)
  BY <1>4, <1>5, FS_Union
<1>9. IsFiniteSet((W \cup S) \cup R)
  BY <1>6, <1>8, FS_Union
<1>10. IsFiniteSet(((W \cup S) \cup R) \cup F)
  BY <1>7, <1>9, FS_Union
<1> QED
  BY <1>1, <1>10 DEF Threads, W, S, R, F

\* Waking up is legal and changes neither the place nor what is to be released.
LEMMA FollowsLegal ==
  ASSUME NEW kind \in Kinds, NEW r \in Recs, Legal(kind, r), NEW s, Follows(r, s)
  PROVE  /\ s \in Recs /\ Legal(kind, s) /\ PlaceOf(s) = PlaceOf(r) /\ s.rel = r.rel
         /\ (s.pc = "append") <=> (r.pc = "append")
<1>1. CASE s = r
  BY <1>1
<1>2. CASE r.pc \in {"sleep", "budgetSleep"} /\ s = At(r.ret)
  <2>1. s.pc = r.ret /\ s.rel = 0 /\ s \in Recs
    BY <1>2 DEF At, Recs
  <2>2. r.rel = 0 /\ r.ret \in Running[kind] /\ r.ret \notin {"sleep", "release", "budgetSleep", "append"}
    BY <1>2 DEF Legal, Running, Sleeping, Kinds, Recs
  <2> QED
    BY <1>2, <2>1, <2>2 DEF Legal, PlaceOf
<1> QED
  BY <1>1, <1>2 DEF Follows
-----------------------------------------------------------------------------
(* The inductive invariant.                                                *)

\* What is true of the pump's payload, and of the room for it, at each place
\* of Write; an eviction pass visits only buffers that may drop.
Midway == {"local", "reserve", "budget", "evict", "refused", "append"}
WriterFit(B, w, p) ==
  /\ p \in Midway => /\ 1 <= w.chunk /\ w.chunk <= w.rest /\ w.chunk <= Capacity
                     /\ B.nextSeq + w.rest <= MaxSeq
  /\ p \in {"reserve", "budget", "evict", "append"} => B.resident + w.chunk <= Capacity
  /\ p = "close" => \A c \in Consumers : B.cons[c].done
  /\ \A k \in w.cands : Overflow[k] = "drop"

\* Close follows Wait.
StopperFit(B, p) == p = "close" => \A c \in Consumers : B.cons[c].done

\* What is in flight is in the runner's hands, and a runner leaves its loop
\* when its consumer has failed, when the buffer is closed, or when it is
\* sealed and everything has been handed over.
RunnerFit(c, B, p) ==
  LET cs == B.cons[c]
  IN  /\ p = "ingest" <=> cs.inFlight # 0
      /\ p = "gap" <=> cs.gapFly # {}
      /\ p \in {"failWake", "handle"} => cs.unavailable
      /\ p \in {"finish", "end"} /\ ~B.closed /\ ~cs.unavailable =>
           B.sealed /\ cs.completedSeq = B.nextSeq
      /\ cs.done /\ ~B.closed => p = "end"

\* With block policy only Close makes a gap, and no gap is ever announced.
PolicyFit(b, B) ==
  Overflow[b] = "block" =>
    \A c \in Enabled : /\ B.cons[c].acked = {} /\ B.cons[c].gapFly = {}
                       /\ ~B.closed => B.cons[c].gap = {}

BuffersFit ==
  \A b \in Buffers : BufferOK(buf[b]) /\ buf[b].resident <= Capacity /\ PolicyFit(b, buf[b])
ThreadsFit == \A t \in Threads : Legal(t[1], th[t])
WritersFit == \A b \in Buffers : WriterFit(buf[b], wr[b], PlaceOf(th[Writer(b)]))
StoppersFit == \A b \in Buffers : StopperFit(buf[b], PlaceOf(th[Stopper(b)]))
RunnersFit ==
  \A b \in Buffers, c \in Enabled : RunnerFit(c, buf[b], PlaceOf(th[Runner(b, c)]))

IndInv ==
  /\ TypeOK /\ BuffersFit /\ ThreadsFit
  /\ WritersFit /\ StoppersFit /\ RunnersFit
  /\ BudgetExact /\ budget.resident <= MaxBytes
  /\ FlushFence
-----------------------------------------------------------------------------
(* What every step has in common.                                          *)

\* The types of the variables, one by one.
WriteLocals == [rest : Nat, chunk : 0..ChunkBytes, cands : SUBSET Buffers, need : Int]
BudgetStates == [resident : Nat, closed : BOOLEAN, buffers : SUBSET Buffers]
FlushCalls == [target : 0..MaxSeq, ctxDone : BOOLEAN,
               result : {"none", "ok", "unavailable", "cancelled"}]
LEMMA TypeParts ==
  TypeOK <=> /\ buf \in [Buffers -> BufferStates] /\ th \in [Threads -> Recs]
             /\ wr \in [Buffers -> WriteLocals]
             /\ fl \in [Buffers -> [Enabled -> FlushCalls]] /\ budget \in BudgetStates
BY DEF TypeOK, Recs, WriteLocals, BudgetStates, FlushCalls

\* Closing and sealing are for ever, and a sealed buffer takes nothing more.
Life(B, D) ==
  /\ B.closed => D.closed
  /\ B.sealed => D.sealed /\ D.nextSeq = B.nextSeq

\* A consumer that is left alone keeps its place in the stream; only Close ends
\* it from outside.
Gentle(B, D, c) ==
  LET cs == B.cons[c]
      ds == D.cons[c]
  IN  /\ ds.inFlight = cs.inFlight /\ ds.gapFly = cs.gapFly
      /\ ds.completedSeq = cs.completedSeq /\ ds.unavailable = cs.unavailable
      /\ ds.ingested = cs.ingested /\ ds.acked = cs.acked
      /\ cs.done => ds.done
      /\ ds.done => cs.done \/ D.closed

\* A consumer's own runner settles more, and nothing is taken back.
Forward(B, D, c) ==
  /\ B.cons[c].ingested \cup B.cons[c].acked \subseteq D.cons[c].ingested \cup D.cons[c].acked
  /\ B.cons[c].done => D.cons[c].done

\* How the stream of each consumer advances: a chunk is added, or nothing
\* happens to it, or the callback of one consumer has returned.
Still(cs, ds) ==
  ds.ingested = cs.ingested /\ ds.acked = cs.acked /\ ds.unavailable = cs.unavailable
Advances(B, D) ==
  \/ /\ D.nextSeq = B.nextSeq \/ D.nextSeq = B.nextSeq + 1
     /\ \A c \in Consumers : Still(B.cons[c], D.cons[c])
  \/ /\ D.nextSeq = B.nextSeq
     /\ \E c \in Enabled : /\ B.cons[c].inFlight # 0 \/ B.cons[c].gapFly # {}
                           /\ Progress(B.nextSeq, B.size, B.cons[c], D.cons[c])
                           /\ \A d \in Consumers \ {c} : D.cons[d] = B.cons[d]
StreamStep == \A b \in Buffers : Advances(buf[b], buf'[b])

\* Goroutine t leaves buffer b0 in the state D.
BufferStep(t, b0, D) ==
  /\ buf' = [buf EXCEPT ![b0] = D]
  /\ t[2] = b0 \/ t[1] = "writer"
  /\ BufferOK(D) /\ D.resident <= Capacity /\ PolicyFit(b0, D)
  /\ Life(buf[b0], D) /\ Advances(buf[b0], D)
  /\ \A c \in Consumers : \/ Gentle(buf[b0], D, c)
                          \/ c \in Enabled /\ t = Runner(b0, c) /\ Forward(buf[b0], D, c)
  /\ t # Writer(b0) => D.nextSeq = buf[b0].nextSeq /\ D.resident <= buf[b0].resident

\* Goroutine t goes to r, where it fits.
PlaceStep(t, r) ==
  /\ Moves(t, r) /\ Legal(t[1], r)
  /\ t[1] = "writer" => WriterFit(buf'[t[2]], wr'[t[2]], PlaceOf(r))
  /\ t[1] = "stopper" => StopperFit(buf'[t[2]], PlaceOf(r))
  /\ t[1] = "runner" => RunnerFit(t[3], buf'[t[2]], PlaceOf(r))
  /\ wr' \in [Buffers -> WriteLocals]
  /\ \A b \in Buffers : t # Writer(b) => wr'[b] = wr[b]

\* What the pump of a buffer holds of the budget.
HeldBy(B, w, r) == B.resident + IF r.pc = "append" THEN w.chunk ELSE 0

\* What t takes from or returns to the budget is accounted for.
MoneyStep(t, r, b0) ==
  /\ budget' \in BudgetStates /\ budget'.resident <= MaxBytes
  /\ budget'.resident + HeldBy(buf[b0], wr[b0], th[Writer(b0)]) + th[t].rel
       = budget.resident + HeldBy(buf'[b0], wr'[b0], th'[Writer(b0)]) + r.rel
  /\ t[1] = "writer" /\ t[2] # b0 => th[t].pc # "append" /\ r.pc # "append"

\* The other goroutines stay where they fit.
LEMMA OthersFit ==
  ASSUME IndInv, NEW t \in Threads, NEW r, NEW b0 \in Buffers, NEW D,
         BufferStep(t, b0, D), PlaceStep(t, r)
  PROVE  ThreadsFit' /\ WritersFit' /\ StoppersFit' /\ RunnersFit'
<1>1. /\ th \in [Threads -> Recs] /\ \A u \in Threads : th[u] \in Recs /\ Legal(u[1], th[u])
      /\ buf \in [Buffers -> BufferStates]
  BY TypeParts DEF IndInv, ThreadsFit
<1>2. \A u \in Threads : u # t =>
        /\ Legal(u[1], th'[u]) /\ PlaceOf(th'[u]) = PlaceOf(th[u])
  <2>1. SUFFICES ASSUME NEW u \in Threads, u # t
                 PROVE  Legal(u[1], th'[u]) /\ PlaceOf(th'[u]) = PlaceOf(th[u])
    OBVIOUS
  <2>2. Follows(th[u], th'[u]) /\ u[1] \in Kinds
    BY <2>1, ThreadCases DEF PlaceStep, Moves
  <2> QED
    BY <1>1, <2>2, FollowsLegal
<1>3. th'[t] = r /\ Legal(t[1], r)
  BY DEF PlaceStep, Moves
<1>4. ThreadsFit'
  BY <1>2, <1>3 DEF ThreadsFit
<1>5. buf'[b0] = D /\ \A b \in Buffers : b # b0 => buf'[b] = buf[b]
  BY <1>1 DEF BufferStep
<1>6. WritersFit'
  <2>1. SUFFICES ASSUME NEW b \in Buffers
                 PROVE  WriterFit(buf'[b], wr'[b], PlaceOf(th'[Writer(b)]))
    BY Zenon DEF WritersFit
  <2>2. Writer(b) \in Threads /\ Writer(b)[1] = "writer" /\ Writer(b)[2] = b
    BY ThreadKinds
  <2>3. CASE t = Writer(b)
    BY <1>3, <2>2, <2>3 DEF PlaceStep
  <2>4. CASE t # Writer(b)
    <3>1. WriterFit(buf[b], wr[b], PlaceOf(th'[Writer(b)])) /\ wr'[b] = wr[b]
      BY <1>2, <2>2, <2>4 DEF IndInv, WritersFit, PlaceStep
    <3>2. CASE b # b0
      BY <1>5, <3>1, <3>2
    <3>3. CASE b = b0
      <4>1. /\ D.nextSeq = buf[b].nextSeq /\ D.resident <= buf[b].resident
            /\ \A c \in Consumers : buf[b].cons[c].done => D.cons[c].done
        BY <2>4, <3>3 DEF BufferStep, Gentle, Forward
      <4>2. D.resident \in Nat /\ buf[b].resident \in Nat /\ wr[b].chunk \in Nat
        <5>1. wr[b] \in WriteLocals /\ D \in BufferStates /\ buf[b] \in BufferStates
          BY <1>1, TypeParts DEF IndInv, BufferStep, BufferOK
        <5> QED
          BY <5>1, Bounds DEF WriteLocals, BufferStates
      <4> DEFINE p == PlaceOf(th'[Writer(b)])
                 w == wr[b]
      <4> HIDE DEF p, w
      <4>3. WriterFit(buf[b], w, p)
        BY <3>1 DEF p, w
      <4>4. WriterFit(D, w, p)
        BY <4>1, <4>2, <4>3, Bounds DEF WriterFit, w
      <4> QED
        BY <1>5, <3>1, <3>3, <4>4 DEF p, w
    <3> QED
      BY <3>2, <3>3
  <2> QED
    BY <2>3, <2>4
<1>7. StoppersFit'
  <2>1. SUFFICES ASSUME NEW b \in Buffers
                 PROVE  StopperFit(buf'[b], PlaceOf(th'[Stopper(b)]))
    BY Zenon DEF StoppersFit
  <2>2. Stopper(b) \in Threads /\ Stopper(b)[1] = "stopper" /\ Stopper(b)[2] = b
    BY ThreadKinds
  <2>3. CASE t = Stopper(b)
    BY <1>3, <2>2, <2>3 DEF PlaceStep
  <2>4. CASE t # Stopper(b)
    <3>1. StopperFit(buf[b], PlaceOf(th'[Stopper(b)]))
      BY <1>2, <2>2, <2>4 DEF IndInv, StoppersFit
    <3>2. \A c \in Consumers : buf[b0].cons[c].done => D.cons[c].done
      BY DEF BufferStep, Gentle, Forward
    <3> QED
      BY <1>5, <3>1, <3>2 DEF StopperFit
  <2> QED
    BY <2>3, <2>4
<1>8. RunnersFit'
  <2>1. SUFFICES ASSUME NEW b \in Buffers, NEW c \in Enabled
                 PROVE  RunnerFit(c, buf'[b], PlaceOf(th'[Runner(b, c)]))
    BY Zenon DEF RunnersFit
  <2>2. /\ Runner(b, c) \in Threads /\ Runner(b, c)[1] = "runner" /\ Runner(b, c)[2] = b
        /\ Runner(b, c)[3] = c
    BY ThreadKinds
  <2>3. CASE t = Runner(b, c)
    BY <1>3, <2>2, <2>3 DEF PlaceStep
  <2>4. CASE t # Runner(b, c)
    <3> DEFINE p == PlaceOf(th'[Runner(b, c)])
    <3> HIDE DEF p
    <3>1. RunnerFit(c, buf[b], p)
      BY <1>2, <2>2, <2>4 DEF IndInv, RunnersFit, p
    <3>2. CASE b # b0
      BY <1>5, <3>1, <3>2 DEF p
    <3>3. CASE b = b0
      <4>1. Gentle(buf[b], D, c) /\ Life(buf[b], D)
        BY <2>4, <3>3, EnabledConsumers DEF BufferStep
      <4>2. RunnerFit(c, D, p)
        BY <3>1, <4>1 DEF RunnerFit, Gentle, Life
      <4> QED
        BY <1>5, <3>3, <4>2 DEF p
    <3> QED
      BY <3>2, <3>3
  <2> QED
    BY <2>3, <2>4
<1> QED
  BY <1>4, <1>6, <1>7, <1>8

\* The budget still is the sum of what is held and what is to be released.
LEMMA BudgetFits ==
  ASSUME IndInv, NEW t \in Threads, NEW r \in Recs, NEW b0 \in Buffers, NEW D,
         BufferStep(t, b0, D), PlaceStep(t, r), MoneyStep(t, r, b0)
  PROVE  BudgetExact'
<1>1. /\ th \in [Threads -> Recs] /\ th' \in [Threads -> Recs]
      /\ \A u \in Threads : Legal(u[1], th[u])
      /\ buf \in [Buffers -> BufferStates] /\ wr \in [Buffers -> WriteLocals]
      /\ wr' \in [Buffers -> WriteLocals] /\ budget \in BudgetStates /\ budget' \in BudgetStates
  BY TypeParts DEF IndInv, ThreadsFit, PlaceStep, MoneyStep, Moves
<1>2. buf'[b0] = D /\ (\A b \in Buffers : b # b0 => buf'[b] = buf[b]) /\ D \in BufferStates
  BY <1>1 DEF BufferStep, BufferOK
<1>3. th'[t] = r /\ \A u \in Threads : u # t =>
        /\ th'[u].rel = th[u].rel /\ (th'[u].pc = "append" <=> th[u].pc = "append")
  <2>1. th'[t] = r
    BY DEF PlaceStep, Moves
  <2>2. SUFFICES ASSUME NEW u \in Threads, u # t
                 PROVE  th'[u].rel = th[u].rel /\ (th'[u].pc = "append" <=> th[u].pc = "append")
    BY <2>1
  <2>3. Follows(th[u], th'[u]) /\ u[1] \in Kinds /\ th[u] \in Recs /\ Legal(u[1], th[u])
    BY <1>1, <2>2, ThreadCases DEF PlaceStep, Moves
  <2> QED
    BY <2>3, FollowsLegal
<1> DEFINE f == [b \in Buffers |-> HeldBy(buf[b], wr[b], th[Writer(b)])]
           g == [b \in Buffers |-> HeldBy(buf'[b], wr'[b], th'[Writer(b)])]
           h == [u \in Threads |-> th[u].rel]
           i == [u \in Threads |-> th'[u].rel]
<1>4. f = [b \in Buffers |-> Held(b)] /\ g = [b \in Buffers |-> Held(b)']
  BY DEF HeldBy, Held
<1>5. \A b \in Buffers : f[b] \in Nat /\ g[b] \in Nat
  <2>1. TAKE b \in Buffers
  <2>2. buf[b] \in BufferStates /\ buf'[b] \in BufferStates /\ wr[b] \in WriteLocals /\ wr'[b] \in WriteLocals
    BY <1>1, <1>2
  <2>3. buf[b].resident \in Nat /\ buf'[b].resident \in Nat /\ wr[b].chunk \in Nat /\ wr'[b].chunk \in Nat
    BY <2>2, Bounds DEF BufferStates, WriteLocals
  <2> QED
    BY <2>3 DEF HeldBy
<1>6. \A b \in Buffers : b # b0 => f[b] = g[b]
  <2>1. SUFFICES ASSUME NEW b \in Buffers, b # b0
                 PROVE  HeldBy(buf[b], wr[b], th[Writer(b)]) = HeldBy(buf'[b], wr'[b], th'[Writer(b)])
    OBVIOUS
  <2>2. buf'[b] = buf[b] /\ Writer(b) \in Threads /\ Writer(b)[1] = "writer" /\ Writer(b)[2] = b
    BY <1>2, <2>1, ThreadKinds
  <2>3. CASE t = Writer(b)
    <3>1. th[Writer(b)].pc # "append" /\ th'[Writer(b)].pc # "append"
      BY <1>3, <2>1, <2>2, <2>3 DEF MoneyStep
    <3> QED
      BY <2>2, <3>1 DEF HeldBy
  <2>4. CASE t # Writer(b)
    <3>1. wr'[b] = wr[b] /\ (th'[Writer(b)].pc = "append" <=> th[Writer(b)].pc = "append")
      BY <1>3, <2>2, <2>4 DEF PlaceStep
    <3> QED
      BY <2>2, <3>1 DEF HeldBy
  <2> QED
    BY <2>3, <2>4
<1>7. \A u \in Threads : h[u] \in Nat /\ i[u] \in Nat
  BY <1>1 DEF Recs
<1>8. \A u \in Threads : u # t => h[u] = i[u]
  BY <1>3
<1>9. h[t] = th[t].rel /\ i[t] = r.rel
  BY <1>3
<1>10. f[b0] = HeldBy(buf[b0], wr[b0], th[Writer(b0)]) /\ g[b0] = HeldBy(buf'[b0], wr'[b0], th'[Writer(b0)])
  OBVIOUS
<1>11. budget'.resident + f[b0] + h[t] = budget.resident + g[b0] + i[t]
  BY <1>9, <1>10 DEF MoneyStep
<1>12. DOMAIN f = Buffers /\ DOMAIN g = Buffers /\ DOMAIN h = Threads /\ DOMAIN i = Threads
  OBVIOUS
<1>13. budget.resident = Total(f) + Total(h)
  BY <1>4 DEF IndInv, BudgetExact
<1> HIDE DEF f, g, h, i
<1>14. Total(g) + f[b0] = Total(f) + g[b0] /\ Total(f) \in Nat /\ Total(g) \in Nat
  BY <1>5, <1>6, <1>12, ThreadsFinite, TotalChange
<1>15. Total(i) + h[t] = Total(h) + i[t] /\ Total(h) \in Nat /\ Total(i) \in Nat
  BY <1>7, <1>8, <1>12, ThreadsFinite, TotalChange
<1>16. budget'.resident \in Nat /\ budget.resident \in Nat /\ f[b0] \in Nat /\ g[b0] \in Nat
       /\ h[t] \in Nat /\ i[t] \in Nat
  BY <1>1, <1>5, <1>7 DEF BudgetStates
<1>17. budget'.resident = Total(g) + Total(i)
  <2>1. ASSUME NEW m \in Nat, NEW n \in Nat, NEW f0 \in Nat, NEW g0 \in Nat, NEW h0 \in Nat, NEW i0 \in Nat,
               NEW F \in Nat, NEW G \in Nat, NEW H \in Nat, NEW I \in Nat,
               n + f0 + h0 = m + g0 + i0, m = F + H, G + f0 = F + g0, I + h0 = H + i0
        PROVE  n = G + I
    BY <2>1
  <2> DEFINE m == budget.resident
             n == budget'.resident
             f0 == f[b0]
             g0 == g[b0]
             h0 == h[t]
             i0 == i[t]
             F == Total(f)
             G == Total(g)
             H == Total(h)
             I == Total(i)
  <2>2. /\ m \in Nat /\ n \in Nat /\ f0 \in Nat /\ g0 \in Nat /\ h0 \in Nat /\ i0 \in Nat
        /\ F \in Nat /\ G \in Nat /\ H \in Nat /\ I \in Nat
    BY <1>14, <1>15, <1>16
  <2>3. n + f0 + h0 = m + g0 + i0 /\ m = F + H /\ G + f0 = F + g0 /\ I + h0 = H + i0
    BY <1>11, <1>13, <1>14, <1>15
  <2> HIDE DEF m, n, f0, g0, h0, i0, F, G, H, I
  <2>4. n = G + I
    BY <2>1, <2>2, <2>3
  <2> QED
    BY <2>4 DEF n, G, I
<1> QED
  BY <1>4, <1>17 DEF BudgetExact, i

\* Everything up to n has been ingested or announced, or the buffer is closed.
Fenced(B, c, n) == 1..n \subseteq B.cons[c].ingested \cup B.cons[c].acked \/ B.closed

\* A call of Flush returns nil behind the fence only.
FlushStep ==
  /\ fl' \in [Buffers -> [Enabled -> FlushCalls]]
  /\ \A b \in Buffers, c \in Enabled :
       fl'[b][c].result = "ok" =>
         \/ fl[b][c].result = "ok" /\ fl'[b][c].target = fl[b][c].target
         \/ Fenced(buf[b], c, fl'[b][c].target)

\* A step of one goroutine keeps the invariant.
LEMMA StepFits ==
  ASSUME IndInv, NEW t \in Threads, NEW r \in Recs, NEW b0 \in Buffers, NEW D,
         BufferStep(t, b0, D), PlaceStep(t, r), MoneyStep(t, r, b0), FlushStep
  PROVE  IndInv' /\ StreamStep
<1>1. buf \in [Buffers -> BufferStates] /\ fl' \in [Buffers -> [Enabled -> FlushCalls]]
  BY TypeParts DEF IndInv, FlushStep
<1>2. buf'[b0] = D /\ (\A b \in Buffers : b # b0 => buf'[b] = buf[b]) /\ D \in BufferStates
      /\ buf' \in [Buffers -> BufferStates]
  BY <1>1 DEF BufferStep, BufferOK
<1>3. th' \in [Threads -> Recs] /\ wr' \in [Buffers -> WriteLocals] /\ budget' \in BudgetStates
  BY DEF PlaceStep, Moves, MoneyStep
<1>4. TypeOK'
  BY <1>1, <1>2, <1>3 DEF TypeOK, Recs, WriteLocals, BudgetStates, FlushCalls
<1>5. BuffersFit'
  <2>1. SUFFICES ASSUME NEW b \in Buffers
                 PROVE  BufferOK(buf'[b]) /\ buf'[b].resident <= Capacity /\ PolicyFit(b, buf'[b])
    BY Zenon DEF BuffersFit
  <2>2. CASE b = b0
    BY <1>2, <2>2 DEF BufferStep
  <2>3. CASE b # b0
    BY <1>2, <2>3 DEF IndInv, BuffersFit
  <2> QED
    BY <2>2, <2>3
<1>6. ThreadsFit' /\ WritersFit' /\ StoppersFit' /\ RunnersFit'
  BY OthersFit
<1>7. BudgetExact'
  BY BudgetFits
<1>8. (budget.resident <= MaxBytes)'
  BY DEF MoneyStep
<1>9. FlushFence'
  <2>1. SUFFICES ASSUME NEW b \in Buffers, NEW c \in Enabled, fl'[b][c].result = "ok"
                 PROVE  Fenced(buf'[b], c, fl'[b][c].target)
    BY DEF FlushFence, Fenced
  <2> DEFINE n == fl'[b][c].target
  <2>2. Fenced(buf[b], c, n)
    <3>1. CASE fl[b][c].result = "ok" /\ n = fl[b][c].target
      BY <3>1 DEF IndInv, FlushFence, Fenced
    <3>2. CASE Fenced(buf[b], c, n)
      BY <3>2
    <3> QED
      BY <2>1, <3>1, <3>2 DEF FlushStep
  <2> HIDE DEF n
  <2>3. CASE b = b0
    <3>1. c \in Consumers
      BY EnabledConsumers
    <3>2. /\ buf[b0].cons[c].ingested \cup buf[b0].cons[c].acked
               \subseteq D.cons[c].ingested \cup D.cons[c].acked
          /\ buf[b0].closed => D.closed
      BY <3>1 DEF BufferStep, Gentle, Forward, Life
    <3> DEFINE N == 1..n
    <3> HIDE DEF N
    <3>3. N \subseteq buf[b].cons[c].ingested \cup buf[b].cons[c].acked \/ buf[b].closed
      BY <2>2 DEF N, Fenced
    <3>4. N \subseteq buf'[b].cons[c].ingested \cup buf'[b].cons[c].acked \/ buf'[b].closed
      BY <1>2, <2>3, <3>2, <3>3
    <3>5. Fenced(buf'[b], c, n)
      BY <3>4 DEF N, Fenced
    <3> QED
      BY <3>5 DEF n
  <2>4. CASE b # b0
    BY <1>2, <2>2, <2>4 DEF n
  <2> QED
    BY <2>3, <2>4
<1>10. \A B : Advances(B, B)
  BY DEF Advances, Still
<1>11. StreamStep
  BY <1>2, <1>10, Zenon DEF StreamStep, BufferStep
<1> QED
  BY <1>4, <1>5, <1>6, <1>7, <1>8, <1>9, <1>11, Zenon DEF IndInv

\* A step that leaves the calls of Flush alone.
LEMMA NoFlush ==
  ASSUME IndInv, fl' = fl
  PROVE  FlushStep
<1>1. fl \in [Buffers -> [Enabled -> FlushCalls]]
  BY TypeParts DEF IndInv
<1> QED
  BY <1>1 DEF FlushStep
-----------------------------------------------------------------------------
(* Ways to move.                                                           *)

\* A goroutine moves and wakes nobody.
LEMMA MovesAlone ==
  ASSUME IndInv, NEW t \in Threads, NEW r \in Recs, th' = [th EXCEPT ![t] = r]
  PROVE  Moves(t, r)
<1>1. th \in [Threads -> Recs]
  BY TypeParts DEF IndInv
<1> QED
  BY <1>1 DEF Moves, Follows

\* A goroutine moves and wakes those that sleep on buffer.cond.
LEMMA MovesBroadcast ==
  ASSUME IndInv, NEW t \in Threads, NEW r \in Recs, NEW b,
         th' = [CondBroadcast(b) EXCEPT ![t] = r]
  PROVE  Moves(t, r)
<1>1. th \in [Threads -> Recs]
  BY TypeParts DEF IndInv
<1>2. \A u \in Threads : At(th[u].ret) \in Recs /\ CondBroadcast(b)[u] \in Recs
                         /\ Follows(th[u], CondBroadcast(b)[u])
  BY <1>1 DEF CondBroadcast, At, Recs, Follows
<1>3. CondBroadcast(b) \in [Threads -> Recs]
  BY <1>2 DEF CondBroadcast
<1> QED
  BY <1>2, <1>3 DEF Moves

\* Those that sleep on budget.cond are pumps in reserve.
LEMMA BudgetSleepers ==
  ASSUME IndInv
  PROVE  /\ BudgetBroadcast \in [Threads -> Recs]
         /\ \A u \in Threads : Follows(th[u], BudgetBroadcast[u])
<1>1. th \in [Threads -> Recs] /\ \A u \in Threads : Legal(u[1], th[u])
  BY TypeParts DEF IndInv, ThreadsFit
<1>2. ASSUME NEW u \in Threads
      PROVE  BudgetBroadcast[u] \in Recs /\ Follows(th[u], BudgetBroadcast[u])
  <2>1. th[u] \in Recs /\ Legal(u[1], th[u]) /\ u[1] \in Kinds
    BY <1>1, ThreadCases
  <2>2. th[u].pc = "budgetSleep" => th[u].ret = "reserve"
    BY <2>1 DEF Legal, Running, Kinds
  <2>3. BudgetBroadcast[u] = IF th[u].pc = "budgetSleep" THEN At("reserve") ELSE th[u]
    BY DEF BudgetBroadcast
  <2>4. At("reserve") \in Recs
    BY DEF At, Recs, Places
  <2> QED
    BY <2>1, <2>2, <2>3, <2>4 DEF Follows
<1> QED
  BY <1>2 DEF BudgetBroadcast

\* A goroutine moves and wakes them.
LEMMA MovesBudget ==
  ASSUME IndInv, NEW t \in Threads, NEW r \in Recs, th' = [BudgetBroadcast EXCEPT ![t] = r]
  PROVE  Moves(t, r)
<1>1. /\ BudgetBroadcast \in [Threads -> Recs]
      /\ \A u \in Threads : Follows(th[u], BudgetBroadcast[u])
  BY BudgetSleepers
<1> QED
  BY <1>1 DEF Moves

\* Going to a place, at once or by way of budget.release.
LEMMA Going ==
  ASSUME NEW kind \in Kinds, NEW pc \in Running[kind]
  PROVE  /\ At(pc) \in Recs /\ Legal(kind, At(pc)) /\ PlaceOf(At(pc)) = pc
         /\ At(pc).rel = 0 /\ At(pc).pc = pc
<1>1. At(pc).pc = pc /\ At(pc).rel = 0 /\ At(pc).ret = pc
  BY DEF At
<1>2. pc \in Places /\ pc \notin {"sleep", "release", "budgetSleep"}
  BY DEF Running, Kinds, Places
<1> QED
  BY <1>1, <1>2 DEF Legal, PlaceOf, Recs, At

LEMMA GoingReleases ==
  ASSUME NEW kind \in Kinds, NEW freed \in Nat, NEW pc \in Releasing[kind],
         NEW r, r = ReleaseThen(freed, pc)
  PROVE  r \in Recs /\ Legal(kind, r) /\ PlaceOf(r) = pc /\ r.rel = freed /\ r.pc # "append"
<1>1. pc \in Running[kind] /\ pc # "append" /\ pc \in Places
  BY DEF Running, Releasing, Kinds, Places
<1>2. CASE freed > 0
  <2>1. r = [pc |-> "release", rel |-> freed, ret |-> pc]
    BY <1>2 DEF ReleaseThen
  <2> QED
    BY <1>1, <2>1 DEF Recs, Legal, PlaceOf, Places
<1>3. CASE ~(freed > 0)
  <2>1. r = At(pc) /\ freed = 0
    BY <1>3 DEF ReleaseThen
  <2> QED
    BY <1>1, <2>1, Going
<1> QED
  BY <1>2, <1>3

\* A step that leaves the buffers alone.
LEMMA BufferUntouched ==
  ASSUME IndInv, NEW t \in Threads, buf' = buf
  PROVE  t[2] \in Buffers /\ BufferStep(t, t[2], buf[t[2]])
<1> DEFINE b == t[2]
<1>1. b \in Buffers /\ buf \in [Buffers -> BufferStates]
  BY ThreadCases, TypeParts DEF IndInv
<1> HIDE DEF b
<1>2. buf' = [buf EXCEPT ![b] = buf[b]]
  BY <1>1
<1>3. BufferOK(buf[b]) /\ buf[b].resident <= Capacity /\ PolicyFit(b, buf[b])
  BY <1>1 DEF IndInv, BuffersFit
<1>4. Life(buf[b], buf[b]) /\ Advances(buf[b], buf[b]) /\ \A c \in Consumers : Gentle(buf[b], buf[b], c)
  BY DEF Life, Advances, Still, Gentle
<1>5. buf[b].resident <= buf[b].resident
  <2>1. buf[b].resident \in Nat
    BY <1>1 DEF BufferStates
  <2> QED
    BY <2>1
<1> QED
  BY <1>1, <1>2, <1>3, <1>4, <1>5 DEF BufferStep, b

\* The accounts of a goroutine that is not at the end of a reservation.
LEMMA Accounts ==
  ASSUME IndInv, NEW t \in Threads, NEW r \in Recs, NEW b0 \in Buffers, PlaceStep(t, r),
         t[1] = "writer" => th[t].pc # "append" /\ r.pc # "append",
         buf[b0].resident \in Nat, buf'[b0].resident \in Nat,
         budget' \in BudgetStates, budget'.resident <= MaxBytes,
         budget'.resident + buf[b0].resident + th[t].rel
           = budget.resident + buf'[b0].resident + r.rel
  PROVE  MoneyStep(t, r, b0)
<1> DEFINE w == Writer(b0)
<1>1. w \in Threads /\ w[1] = "writer" /\ w[2] = b0
  BY ThreadKinds
<1>2. /\ th \in [Threads -> Recs] /\ \A u \in Threads : Legal(u[1], th[u])
      /\ wr \in [Buffers -> WriteLocals] /\ budget \in BudgetStates
  BY TypeParts DEF IndInv, ThreadsFit
<1> HIDE DEF w
<1>3. \/ th[w].pc # "append" /\ th'[w].pc # "append"
      \/ (th[w].pc = "append" <=> th'[w].pc = "append") /\ wr'[b0] = wr[b0]
  <2>1. CASE t = w
    BY <1>1, <2>1 DEF PlaceStep, Moves
  <2>2. CASE t # w
    <3>1. Follows(th[w], th'[w]) /\ wr'[b0] = wr[b0]
      BY <1>1, <2>2 DEF PlaceStep, Moves, w
    <3>2. w[1] \in Kinds /\ th[w] \in Recs /\ Legal(w[1], th[w])
      BY <1>1, <1>2, ThreadCases
    <3>3. th'[w].pc = "append" <=> th[w].pc = "append"
      BY <3>1, <3>2, FollowsLegal
    <3> QED
      BY <3>1, <3>3
  <2> QED
    BY <2>1, <2>2
<1>4. budget.resident \in Nat /\ budget'.resident \in Nat /\ th[t].rel \in Nat /\ r.rel \in Nat
      /\ wr[b0].chunk \in Nat
  BY <1>2, Bounds DEF BudgetStates, Recs, WriteLocals
<1> DEFINE x == IF th[w].pc = "append" THEN wr[b0].chunk ELSE 0
           y == IF th'[w].pc = "append" THEN wr'[b0].chunk ELSE 0
<1>5. x = y /\ x \in Nat
  BY <1>3, <1>4
<1>6. HeldBy(buf[b0], wr[b0], th[w]) = buf[b0].resident + x
      /\ HeldBy(buf'[b0], wr'[b0], th'[w]) = buf'[b0].resident + x
  BY <1>5 DEF HeldBy
<1> HIDE DEF x, y
<1>7. budget'.resident + HeldBy(buf[b0], wr[b0], th[w]) + th[t].rel
        = budget.resident + HeldBy(buf'[b0], wr'[b0], th'[w]) + r.rel
  BY <1>4, <1>5, <1>6
<1> QED
  BY <1>7 DEF MoneyStep, w

\* Where a goroutine is, it fits.
OwnFit(t, p) ==
  /\ t[1] = "writer" => WriterFit(buf[t[2]], wr[t[2]], p)
  /\ t[1] = "stopper" => StopperFit(buf[t[2]], p)
  /\ t[1] = "runner" => RunnerFit(t[3], buf[t[2]], p)
LEMMA OwnPlace ==
  ASSUME IndInv, NEW t \in Threads
  PROVE  /\ t[1] \in Kinds /\ t[2] \in Buffers
         /\ th[t] \in Recs /\ Legal(t[1], th[t]) /\ OwnFit(t, PlaceOf(th[t]))
         /\ th[t].pc \notin {"sleep", "release", "budgetSleep"} =>
              /\ th[t].rel = 0 /\ PlaceOf(th[t]) = th[t].pc /\ th[t].pc \in Running[t[1]]
              /\ OwnFit(t, th[t].pc)
<1>1. t[1] \in Kinds /\ t[2] \in Buffers /\ th[t] \in Recs /\ Legal(t[1], th[t])
  BY ThreadCases, TypeParts DEF IndInv, ThreadsFit
<1>2. OwnFit(t, PlaceOf(th[t]))
  <2>1. t[1] = "writer" => WriterFit(buf[t[2]], wr[t[2]], PlaceOf(th[t]))
    BY <1>1, ThreadCases DEF IndInv, WritersFit
  <2>2. t[1] = "stopper" => StopperFit(buf[t[2]], PlaceOf(th[t]))
    BY <1>1, ThreadCases DEF IndInv, StoppersFit
  <2>3. t[1] = "runner" => RunnerFit(t[3], buf[t[2]], PlaceOf(th[t]))
    BY <1>1, ThreadCases DEF IndInv, RunnersFit
  <2> QED
    BY <2>1, <2>2, <2>3 DEF OwnFit
<1>3. ASSUME th[t].pc \notin {"sleep", "release", "budgetSleep"}
      PROVE  th[t].rel = 0 /\ PlaceOf(th[t]) = th[t].pc /\ th[t].pc \in Running[t[1]]
  BY <1>1, <1>3 DEF Legal, PlaceOf
<1> QED
  BY <1>1, <1>2, <1>3

\* The state of one buffer, and what it allows to be said.
LEMMA BufferNow ==
  ASSUME IndInv, NEW b \in Buffers
  PROVE  /\ BufferOK(buf[b]) /\ buf[b] \in BufferStates /\ buf[b].resident \in Nat
         /\ buf[b].resident <= Capacity /\ PolicyFit(b, buf[b]) /\ wr[b] \in WriteLocals
         /\ wr[b].chunk \in Nat /\ wr[b].chunk \in 0..ChunkBytes /\ wr[b].rest \in Nat
         /\ buf[b].nextSeq \in Nat
<1>1. BufferOK(buf[b]) /\ buf[b].resident <= Capacity /\ PolicyFit(b, buf[b])
  BY DEF IndInv, BuffersFit
<1>2. buf[b] \in BufferStates /\ wr[b] \in WriteLocals
  BY TypeParts DEF IndInv
<1> QED
  BY <1>1, <1>2, Bounds DEF BufferStates, WriteLocals

\* A step that leaves the buffers and the calls of Flush alone.
LEMMA Passes ==
  ASSUME IndInv, NEW t \in Threads, NEW r \in Recs, PlaceStep(t, r), buf' = buf, fl' = fl,
         t[1] = "writer" => th[t].pc # "append" /\ r.pc # "append",
         budget' \in BudgetStates, budget'.resident <= MaxBytes,
         budget'.resident + th[t].rel = budget.resident + r.rel
  PROVE  IndInv' /\ StreamStep
<1> DEFINE b == t[2]
<1>1. b \in Buffers /\ BufferStep(t, b, buf[b])
  BY BufferUntouched
<1> HIDE DEF b
<1>2. buf[b].resident \in Nat /\ buf'[b].resident = buf[b].resident
  BY <1>1, BufferNow
<1>3. budget \in BudgetStates /\ th[t] \in Recs
  BY TypeParts DEF IndInv
<1>4. budget'.resident + buf[b].resident + th[t].rel = budget.resident + buf'[b].resident + r.rel
  <2>1. budget.resident \in Nat /\ budget'.resident \in Nat /\ th[t].rel \in Nat /\ r.rel \in Nat
    BY <1>3 DEF BudgetStates, Recs
  <2> QED
    BY <1>2, <2>1
<1>5. MoneyStep(t, r, b)
  BY <1>1, <1>2, <1>4, Accounts
<1> QED
  BY <1>1, <1>5, NoFlush, StepFits

\* A step that does nothing but go to another place.
LEMMA Walks ==
  ASSUME IndInv, NEW t \in Threads, NEW r \in Recs, Moves(t, r), Legal(t[1], r),
         th[t].pc \notin {"append", "release", "sleep", "budgetSleep"}, r.pc # "append", r.rel = 0,
         OwnFit(t, PlaceOf(r)), buf' = buf, wr' = wr, fl' = fl,
         budget' \in BudgetStates, budget'.resident = budget.resident
  PROVE  IndInv' /\ StreamStep
<1>1. wr \in [Buffers -> WriteLocals] /\ budget \in BudgetStates /\ budget.resident <= MaxBytes
  BY TypeParts DEF IndInv
<1>2. PlaceStep(t, r)
  BY <1>1 DEF PlaceStep, OwnFit
<1>3. th[t].rel = 0
  BY OwnPlace
<1>4. budget'.resident + th[t].rel = budget.resident + r.rel
  BY <1>3
<1> QED
  BY <1>1, <1>2, <1>4, Passes

\* The same with Goto.
LEMMA WalksTo ==
  ASSUME IndInv, NEW t \in Threads, NEW pc, pc \in Running[t[1]], pc # "append", Goto(t, pc),
         th[t].pc \notin {"append", "release", "sleep", "budgetSleep"},
         OwnFit(t, pc), buf' = buf, wr' = wr, fl' = fl, budget' = budget
  PROVE  IndInv' /\ StreamStep
<1>1. t[1] \in Kinds
  BY ThreadCases
<1> DEFINE r == At(pc)
<1>2. r \in Recs /\ Legal(t[1], r) /\ PlaceOf(r) = pc /\ r.rel = 0 /\ r.pc = pc
  BY <1>1, Going
<1>3. th' = [th EXCEPT ![t] = r]
  BY DEF Goto
<1> HIDE DEF r
<1>4. Moves(t, r)
  BY <1>2, <1>3, MovesAlone
<1>5. budget' \in BudgetStates /\ budget'.resident = budget.resident
  BY TypeParts DEF IndInv
<1> QED
  BY <1>2, <1>4, <1>5, Walks

\* A step that changes one buffer and has to release what it freed.
LEMMA Touches ==
  ASSUME IndInv, NEW t \in Threads, NEW r \in Recs, NEW b0 \in Buffers, NEW D,
         BufferStep(t, b0, D), PlaceStep(t, r), fl' = fl, budget' = budget,
         t[1] = "writer" => th[t].pc # "append" /\ r.pc # "append",
         th[t].rel = 0, r.rel = buf[b0].resident - D.resident
  PROVE  IndInv' /\ StreamStep
<1>1. buf \in [Buffers -> BufferStates] /\ D \in BufferStates /\ budget \in BudgetStates
      /\ buf' = [buf EXCEPT ![b0] = D]
  BY TypeParts DEF IndInv, BufferStep, BufferOK
<1>2. buf'[b0] = D /\ buf[b0].resident \in Nat /\ D.resident \in Nat /\ budget.resident \in Nat
      /\ budget.resident <= MaxBytes
  BY <1>1 DEF BufferStates, BudgetStates, IndInv
<1>3. budget'.resident + buf[b0].resident + th[t].rel = budget.resident + buf'[b0].resident + r.rel
  BY <1>2
<1>4. MoneyStep(t, r, b0)
  BY <1>1, <1>2, <1>3, Accounts
<1> QED
  BY <1>4, NoFlush, StepFits
-----------------------------------------------------------------------------
(* The steps that all kinds of goroutines take.                            *)

\* budget.release returns what was freed, and never more than the budget holds.
LEMMA ReleaseStep ==
  ASSUME IndInv, NEW t \in Threads, Release(t)
  PROVE  IndInv' /\ StreamStep
<1>1. th[t].pc = "release" /\ t[1] \in Kinds /\ th[t] \in Recs /\ Legal(t[1], th[t])
      /\ OwnFit(t, PlaceOf(th[t]))
  BY OwnPlace DEF Release
<1> DEFINE pc == th[t].ret
           n == th[t].rel
           r == At(pc)
<1>2. pc \in Releasing[t[1]] /\ PlaceOf(th[t]) = pc
  BY <1>1 DEF Legal, Running, Kinds, PlaceOf
<1>3. pc \in Running[t[1]] /\ pc # "append"
  BY <1>1, <1>2 DEF Running, Releasing, Kinds
<1>4. r \in Recs /\ Legal(t[1], r) /\ PlaceOf(r) = pc /\ r.rel = 0 /\ r.pc = pc
  BY <1>1, <1>3, Going
<1>5. th' = [BudgetBroadcast EXCEPT ![t] = r] /\ buf' = buf /\ wr' = wr /\ fl' = fl
      /\ budget' = [budget EXCEPT !.resident = Max({0, @ - n})]
  BY DEF Release
<1>6. n <= budget.resident /\ n \in Nat /\ budget.resident \in Nat /\ budget \in BudgetStates
      /\ budget.resident <= MaxBytes
  <2> DEFINE h == [u \in Threads |-> th[u].rel]
             f == [b \in Buffers |-> Held(b)]
  <2>1. th \in [Threads -> Recs] /\ budget \in BudgetStates /\ wr \in [Buffers -> WriteLocals]
    BY TypeParts DEF IndInv
  <2>2. \A u \in Threads : h[u] \in Nat
    BY <2>1 DEF Recs
  <2>3. \A b \in Buffers : f[b] \in Nat
    BY BufferNow DEF Held
  <2>4. DOMAIN h = Threads /\ DOMAIN f = Buffers /\ h[t] = n
    OBVIOUS
  <2>5. budget.resident = Total(f) + Total(h)
    BY DEF IndInv, BudgetExact
  <2> HIDE DEF h, f
  <2>6. Total(h) \in Nat /\ h[t] <= Total(h)
    BY <2>2, <2>4, ThreadsFinite, TotalChange
  <2>7. t[2] \in Buffers
    BY ThreadCases
  <2>8. Total(f) \in Nat
    BY <2>3, <2>4, <2>7, ThreadsFinite, TotalChange
  <2> QED
    BY <2>1, <2>2, <2>4, <2>5, <2>6, <2>8 DEF BudgetStates, IndInv
<1> HIDE DEF r, pc, n
<1>7. Moves(t, r)
  BY <1>4, <1>5, MovesBudget
<1>8. wr \in [Buffers -> WriteLocals]
  BY TypeParts DEF IndInv
<1>9. PlaceStep(t, r)
  BY <1>1, <1>2, <1>4, <1>5, <1>7, <1>8 DEF PlaceStep, OwnFit
<1>10. Max({0, budget.resident - n}) = budget.resident - n
  <2>1. {0, budget.resident - n} \in SUBSET Int /\ budget.resident - n \in {0, budget.resident - n}
    BY <1>6
  <2>2. \A x \in {0, budget.resident - n} : x <= budget.resident - n
    BY <1>6
  <2> QED
    BY <2>1, <2>2, LargestIs
<1>11. budget' = [budget EXCEPT !.resident = budget.resident - n] /\ budget.resident - n \in Nat
  BY <1>5, <1>6, <1>10
<1>12. budget' \in BudgetStates /\ budget'.resident = budget.resident - n
  BY <1>6, <1>11 DEF BudgetStates
<1>13. budget'.resident <= MaxBytes /\ budget'.resident + n = budget.resident + r.rel
  BY <1>4, <1>6, <1>12, Bounds
<1>14. th[t].pc # "append" /\ r.pc # "append" /\ th[t].rel = n
  BY <1>1, <1>3, <1>4 DEF n
<1> QED
  BY <1>4, <1>5, <1>9, <1>12, <1>13, <1>14, Passes

\* budget.wake
LEMMA WakeStep ==
  ASSUME IndInv, NEW t \in Threads, Wake(t)
  PROVE  IndInv' /\ StreamStep
<1> DEFINE p == th[t].pc
           pc == AfterWake[p]
           r == At(pc)
<1>1. p \in {"sealWake", "failWake"} /\ pc = IF p = "sealWake" THEN "wait" ELSE "handle"
  BY DEF Wake, AfterWake
<1>2. t[1] \in Kinds /\ th[t].rel = 0 /\ p \in Running[t[1]] /\ OwnFit(t, p)
  BY <1>1, OwnPlace
<1>3. pc \in Running[t[1]] /\ pc # "append"
  BY <1>1, <1>2 DEF Running, Kinds
<1>4. OwnFit(t, pc)
  <2>1. t[1] # "runner" => p = "sealWake"
    BY <1>1, <1>2 DEF Running, Kinds
  <2>2. t[1] = "runner" => p = "failWake"
    BY <1>1, <1>2 DEF Running, Kinds
  <2> HIDE DEF p, pc
  <2>3. t[1] = "writer" => WriterFit(buf[t[2]], wr[t[2]], "wait")
    BY <1>2, <2>1 DEF OwnFit, WriterFit, Midway
  <2>4. StopperFit(buf[t[2]], "wait")
    BY DEF StopperFit
  <2>5. t[1] = "runner" => RunnerFit(t[3], buf[t[2]], "handle")
    BY <1>2, <2>2 DEF OwnFit, RunnerFit
  <2> QED
    BY <1>1, <2>1, <2>2, <2>3, <2>4, <2>5 DEF OwnFit
<1>5. r \in Recs /\ Legal(t[1], r) /\ PlaceOf(r) = pc /\ r.rel = 0 /\ r.pc = pc
  BY <1>2, <1>3, Going
<1>6. th' = [BudgetBroadcast EXCEPT ![t] = r] /\ buf' = buf /\ wr' = wr /\ fl' = fl /\ budget' = budget
  BY DEF Wake
<1>7. p \notin {"append", "release", "sleep", "budgetSleep"}
  BY <1>1
<1> HIDE DEF r, pc
<1>8. Moves(t, r)
  BY <1>5, <1>6, MovesBudget
<1>9. budget' \in BudgetStates /\ budget'.resident = budget.resident
  BY <1>6, TypeParts DEF IndInv
<1> QED
  BY <1>3, <1>4, <1>5, <1>6, <1>7, <1>8, <1>9, Walks

\* Wait
LEMMA WaitStep ==
  ASSUME IndInv, NEW t \in Threads, Wait(t)
  PROVE  IndInv' /\ StreamStep
<1> DEFINE p == th[t].pc
           pc == AfterWait[p]
<1>1. p \in {"wait", "abortWait"} /\ pc = IF p = "wait" THEN "close" ELSE "end"
  BY DEF Wait, AfterWait
<1>2. t[1] \in Kinds /\ p \in Running[t[1]] /\ OwnFit(t, p)
  BY <1>1, OwnPlace
<1>3. pc \in Running[t[1]] /\ pc # "append" /\ t[1] \in {"writer", "stopper"}
  BY <1>1, <1>2 DEF Running, Kinds
<1>4. \A c \in Consumers : buf[t[2]].cons[c].done
  BY DEF Wait
<1>5. Goto(t, pc) /\ buf' = buf /\ wr' = wr /\ fl' = fl /\ budget' = budget
  BY DEF Wait
<1>6. p \notin {"append", "release", "sleep", "budgetSleep"}
  BY <1>1
<1>7. OwnFit(t, pc)
  <2> HIDE DEF p
  <2>1. pc \notin Midway /\ pc \notin {"reserve", "budget", "evict", "append"}
    BY <1>1 DEF Midway
  <2> HIDE DEF pc
  <2>2. t[1] = "writer" => WriterFit(buf[t[2]], wr[t[2]], pc)
    BY <1>2, <1>4, <2>1 DEF OwnFit, WriterFit
  <2>3. StopperFit(buf[t[2]], pc)
    BY <1>4 DEF StopperFit
  <2> QED
    BY <1>3, <2>2, <2>3 DEF OwnFit
<1> HIDE DEF pc
<1> QED
  BY <1>3, <1>5, <1>6, <1>7, WalksTo

\* budget.unregister
LEMMA UnregisterStep ==
  ASSUME IndInv, NEW t \in Threads, Unregister(t)
  PROVE  IndInv' /\ StreamStep
<1> DEFINE p == th[t].pc
           pc == AfterUnregister[p]
           r == At(pc)
<1>1. p \in {"unregister", "abortUnregister"} /\ pc = IF p = "unregister" THEN "end" ELSE "abortWait"
  BY DEF Unregister, AfterUnregister
<1>2. t[1] \in Kinds /\ th[t].rel = 0 /\ p \in Running[t[1]] /\ OwnFit(t, p)
  BY <1>1, OwnPlace
<1>3. pc \in Running[t[1]] /\ pc # "append" /\ t[1] \in {"writer", "stopper"}
  BY <1>1, <1>2 DEF Running, Kinds
<1>4. OwnFit(t, pc)
  <2> HIDE DEF p
  <2>1. pc \notin Midway /\ pc \notin {"reserve", "budget", "evict", "append", "close"}
    BY <1>1 DEF Midway
  <2> HIDE DEF pc
  <2>2. t[1] = "writer" => WriterFit(buf[t[2]], wr[t[2]], pc)
    BY <1>2, <2>1 DEF OwnFit, WriterFit
  <2>3. StopperFit(buf[t[2]], pc)
    BY <2>1 DEF StopperFit
  <2> QED
    BY <1>3, <2>2, <2>3 DEF OwnFit
<1>5. r \in Recs /\ Legal(t[1], r) /\ PlaceOf(r) = pc /\ r.rel = 0 /\ r.pc = pc
  BY <1>2, <1>3, Going
<1>6. th' = [BudgetBroadcast EXCEPT ![t] = r] /\ buf' = buf /\ wr' = wr /\ fl' = fl
      /\ budget' = [budget EXCEPT !.buffers = @ \ {t[2]}]
  BY DEF Unregister
<1>7. p \notin {"append", "release", "sleep", "budgetSleep"}
  BY <1>1
<1> HIDE DEF r, pc
<1>8. Moves(t, r)
  BY <1>5, <1>6, MovesBudget
<1>9. budget' \in BudgetStates /\ budget'.resident = budget.resident
  <2>1. budget \in BudgetStates
    BY TypeParts DEF IndInv
  <2> QED
    BY <1>6, <2>1 DEF BudgetStates
<1> QED
  BY <1>3, <1>4, <1>5, <1>6, <1>7, <1>8, <1>9, Walks

\* Seal
LEMMA SealStep ==
  ASSUME IndInv, NEW t \in Threads, Seal(t)
  PROVE  IndInv' /\ StreamStep
<1> DEFINE b == t[2]
           B == buf[b]
           D == [B EXCEPT !.sealed = TRUE]
           r == At("sealWake")
<1>1. th[t].pc = "seal" /\ th' = [CondBroadcast(b) EXCEPT ![t] = r] /\ buf' = [buf EXCEPT ![b] = D]
      /\ wr' = wr /\ fl' = fl /\ budget' = budget
  BY DEF Seal, UnlockBroadcast
<1>2. b \in Buffers /\ t[1] \in Kinds /\ th[t].rel = 0 /\ th[t].pc \in Running[t[1]] /\ OwnFit(t, "seal")
  BY <1>1, OwnPlace
<1>3. t[1] \in {"writer", "stopper"} /\ "sealWake" \in Running[t[1]]
  BY <1>1, <1>2 DEF Running, Kinds
<1>4. r \in Recs /\ Legal(t[1], r) /\ PlaceOf(r) = "sealWake" /\ r.rel = 0 /\ r.pc = "sealWake"
  BY <1>2, <1>3, Going
<1>5. BufferOK(B) /\ B.resident \in Nat /\ B.resident <= Capacity /\ PolicyFit(b, B)
      /\ B.nextSeq \in Nat
  BY <1>2, BufferNow
<1>6. /\ BufferOK(D) /\ D.resident = B.resident /\ D.cons = B.cons
      /\ D.nextSeq = B.nextSeq /\ D.closed = B.closed /\ D.sealed
  <2> HIDE DEF B, D
  <2>1. D = [B EXCEPT !.sealed = TRUE]
    BY DEF D
  <2> QED
    BY <1>5, <2>1, BufferSealed
<1>7. buf \in [Buffers -> BufferStates] /\ wr \in [Buffers -> WriteLocals]
  BY TypeParts DEF IndInv
<1> HIDE DEF r, D
<1>8. Moves(t, r)
  BY <1>1, <1>4, MovesBroadcast
<1>9. BufferStep(t, b, D)
  <2>1. PolicyFit(b, D) /\ Life(B, D) /\ Advances(B, D) /\ \A c \in Consumers : Gentle(B, D, c)
    BY <1>5, <1>6 DEF PolicyFit, Life, Advances, Still, Gentle
  <2>2. D.resident <= B.resident /\ D.resident <= Capacity
    BY <1>5, <1>6
  <2> QED
    BY <1>1, <1>6, <2>1, <2>2 DEF BufferStep
<1>10. PlaceStep(t, r)
  <2>1. buf'[b] = D
    BY <1>1, <1>2, <1>7
  <2>2. t[1] = "writer" => WriterFit(D, wr[b], "sealWake")
    BY <1>2 DEF OwnFit, WriterFit, Midway
  <2>3. StopperFit(D, "sealWake")
    BY DEF StopperFit
  <2> QED
    BY <1>1, <1>3, <1>4, <1>7, <1>8, <2>1, <2>2, <2>3 DEF PlaceStep
<1>11. r.rel = B.resident - D.resident /\ th[t].pc # "append" /\ r.pc # "append"
  BY <1>1, <1>4, <1>5, <1>6
<1> QED
  BY <1>1, <1>2, <1>4, <1>9, <1>10, <1>11, Touches

\* Close
LEMMA CloseStep ==
  ASSUME IndInv, NEW t \in Threads, Close(t)
  PROVE  IndInv' /\ StreamStep
<1> DEFINE b == t[2]
           B == buf[b]
           D == CloseBuffer(B)
           p == th[t].pc
           then == AfterClose[p]
           on == AfterUnregister[then]
<1>1. /\ p \in {"close", "abort"}
      /\ then = IF p = "close" THEN "unregister" ELSE "abortUnregister"
      /\ on = IF p = "close" THEN "end" ELSE "abortWait"
  BY DEF Close, AfterClose, AfterUnregister
<1>2. b \in Buffers /\ t[1] \in Kinds /\ th[t].rel = 0 /\ p \in Running[t[1]] /\ OwnFit(t, p)
  BY <1>1, OwnPlace
<1>3. t[1] \in {"writer", "stopper"} /\ then \in Releasing[t[1]] /\ on \in Running[t[1]] /\ on # "append"
  BY <1>1, <1>2 DEF Running, Releasing, Kinds
<1>4. wr' = wr /\ fl' = fl /\ budget' = budget
  BY DEF Close
<1>5. p \notin {"append", "release", "sleep", "budgetSleep"}
  BY <1>1
<1>6. ASSUME NEW A, NEW q \in {then, on}
      PROVE  /\ (t[1] = "writer" => WriterFit(A, wr[b], q)) /\ StopperFit(A, q)
  <2>1. q \notin Midway /\ q \notin {"reserve", "budget", "evict", "append", "close"}
    BY <1>1, <1>6 DEF Midway
  <2>2. t[1] = "writer" => WriterFit(A, wr[b], q)
    BY <1>2, <2>1 DEF OwnFit, WriterFit
  <2> QED
    BY <2>1, <2>2 DEF StopperFit
<1>7. CASE B.closed
  <2>1. Goto(t, on) /\ buf' = buf
    BY <1>7 DEF Close
  <2>2. OwnFit(t, on)
    BY <1>3, <1>6 DEF OwnFit
  <2> HIDE DEF on
  <2> QED
    BY <1>3, <1>4, <1>5, <2>1, <2>2, WalksTo
<1>8. CASE ~B.closed
  <2> DEFINE r == ReleaseThen(B.resident - D.resident, then)
  <2>1. th' = [CondBroadcast(b) EXCEPT ![t] = r] /\ buf' = [buf EXCEPT ![b] = D]
    BY <1>8 DEF Close, UnlockBroadcast
  <2>2. BufferOK(B) /\ B.resident \in Nat /\ B.resident <= Capacity /\ PolicyFit(b, B)
        /\ B.nextSeq \in Nat
    BY <1>2, BufferNow
  <2> HIDE DEF B
  <2>3. /\ BufferOK(D) /\ D.resident <= B.resident /\ D.nextSeq = B.nextSeq
        /\ D.closed /\ D.sealed = B.sealed
        /\ \A c \in Consumers :
             /\ D.cons[c].inFlight = B.cons[c].inFlight /\ D.cons[c].gapFly = B.cons[c].gapFly
             /\ D.cons[c].completedSeq = B.cons[c].completedSeq
             /\ D.cons[c].unavailable = B.cons[c].unavailable
             /\ D.cons[c].ingested = B.cons[c].ingested /\ D.cons[c].acked = B.cons[c].acked
             /\ B.cons[c].done => D.cons[c].done
    BY <1>8, <2>2, BufferClosed
  <2> HIDE DEF D
  <2>4. D.resident \in Nat /\ B.resident - D.resident \in Nat /\ D.resident <= Capacity
    <3>1. D.resident \in Nat
      BY <2>3 DEF BufferOK, BufferStates
    <3> QED
      BY <2>2, <2>3, <3>1, Bounds
  <2>5. r \in Recs /\ Legal(t[1], r) /\ PlaceOf(r) = then /\ r.rel = B.resident - D.resident /\ r.pc # "append"
    <3> DEFINE n == B.resident - D.resident
    <3> HIDE DEF n, then
    <3>1. r = ReleaseThen(n, then) /\ n \in Nat
      BY <2>4 DEF n
    <3> HIDE DEF r
    <3>2. r \in Recs /\ Legal(t[1], r) /\ PlaceOf(r) = then /\ r.rel = n /\ r.pc # "append"
      BY <1>2, <1>3, <3>1, GoingReleases
    <3> QED
      BY <3>2 DEF n
  <2> HIDE DEF r
  <2>6. Moves(t, r)
    BY <2>1, <2>5, MovesBroadcast
  <2>7. buf \in [Buffers -> BufferStates] /\ wr \in [Buffers -> WriteLocals]
    BY TypeParts DEF IndInv
  <2>8. BufferStep(t, b, D)
    <3>1. PolicyFit(b, D)
      BY <2>2, <2>3, EnabledConsumers DEF PolicyFit
    <3>2. Life(B, D) /\ Advances(B, D) /\ \A c \in Consumers : Gentle(B, D, c)
      BY <2>3 DEF Life, Advances, Still, Gentle
    <3> QED
      BY <2>1, <2>3, <2>4, <3>1, <3>2 DEF BufferStep, B
  <2>9. PlaceStep(t, r)
    <3>1. buf'[b] = D
      BY <1>2, <2>1, <2>7
    <3>2. (t[1] = "writer" => WriterFit(D, wr[b], then)) /\ StopperFit(D, then)
      BY <1>6
    <3> QED
      BY <1>3, <1>4, <2>5, <2>6, <2>7, <3>1, <3>2 DEF PlaceStep
  <2> QED
    BY <1>2, <1>4, <1>5, <2>5, <2>8, <2>9, Touches DEF B
<1> QED
  BY <1>7, <1>8

\* The calls that start to stop a terminal.
LEMMA StopStarts ==
  ASSUME IndInv, NEW b \in Buffers, StartDrain(b) \/ StartAbort(b)
  PROVE  IndInv' /\ StreamStep
<1> DEFINE t == Stopper(b)
<1>1. t \in Threads /\ t[1] = "stopper"
  BY ThreadKinds
<1>2. /\ Goto(t, "seal") \/ Goto(t, "abort")
      /\ buf' = buf /\ wr' = wr /\ fl' = fl /\ budget' = budget
  BY DEF StartDrain, StartAbort
<1>3. th[t].pc = "idle"
  BY DEF StartDrain, StartAbort
<1> HIDE DEF t
<1>4. OwnFit(t, "seal") /\ OwnFit(t, "abort")
  BY <1>1 DEF OwnFit, StopperFit
<1>5. "seal" \in Running[t[1]] /\ "abort" \in Running[t[1]]
  BY <1>1 DEF Running
<1>6. CASE Goto(t, "seal")
  BY <1>1, <1>2, <1>3, <1>4, <1>5, <1>6, WalksTo
<1>7. CASE Goto(t, "abort")
  BY <1>1, <1>2, <1>3, <1>4, <1>5, <1>7, WalksTo
<1> QED
  BY <1>2, <1>6, <1>7
-----------------------------------------------------------------------------
(* The runners.                                                            *)

\* A runner: its goroutine, its buffer and its consumer.
LEMMA RunnerNow ==
  ASSUME IndInv, NEW b \in Buffers, NEW c \in Enabled
  PROVE  /\ Runner(b, c) \in Threads /\ Runner(b, c)[1] = "runner" /\ Runner(b, c)[2] = b
         /\ Runner(b, c)[3] = c /\ c \in Consumers /\ BufferOK(buf[b])
         /\ RunnerFit(c, buf[b], PlaceOf(th[Runner(b, c)]))
         /\ th[Runner(b, c)].pc \notin {"sleep", "release", "budgetSleep"} =>
              /\ th[Runner(b, c)].rel = 0 /\ PlaceOf(th[Runner(b, c)]) = th[Runner(b, c)].pc
<1>1. /\ Runner(b, c) \in Threads /\ Runner(b, c)[1] = "runner" /\ Runner(b, c)[2] = b
      /\ Runner(b, c)[3] = c
  BY ThreadKinds
<1>2. c \in Consumers /\ BufferOK(buf[b]) /\ RunnerFit(c, buf[b], PlaceOf(th[Runner(b, c)]))
  BY EnabledConsumers DEF IndInv, BuffersFit, RunnersFit
<1> QED
  BY <1>1, <1>2, OwnPlace

\* A runner that changes only its own consumer es and goes to r.
LEMMA RunnerSets ==
  ASSUME IndInv, NEW b \in Buffers, NEW c \in Enabled, NEW r \in Recs, Legal("runner", r), r.rel = 0,
         Moves(Runner(b, c), r), th[Runner(b, c)].rel = 0,
         NEW es, NEW D, OnlyConsumer(buf[b], D, c, es), buf' = [buf EXCEPT ![b] = D],
         Still(buf[b].cons[c], es), buf[b].cons[c].done => es.done,
         RunnerFit(c, D, PlaceOf(r)), PolicyFit(b, D),
         wr' = wr, fl' = fl, budget' = budget
  PROVE  IndInv' /\ StreamStep
<1> DEFINE t == Runner(b, c)
           B == buf[b]
<1>1. t \in Threads /\ t[1] = "runner" /\ t[2] = b /\ t[3] = c /\ c \in Consumers
  BY RunnerNow
<1>2. B.resident \in Nat /\ B.resident <= Capacity /\ B.nextSeq \in Nat
      /\ buf \in [Buffers -> BufferStates] /\ wr \in [Buffers -> WriteLocals]
  BY BufferNow, TypeParts DEF IndInv
<1> HIDE DEF t, B
<1>3. /\ BufferOK(D) /\ D.resident = B.resident
      /\ D.nextSeq = B.nextSeq /\ D.closed = B.closed /\ D.sealed = B.sealed
      /\ D.cons[c] = es /\ \A d \in Consumers \ {c} : D.cons[d] = B.cons[d]
  BY DEF OnlyConsumer, B
<1>4. Still(B.cons[c], es) /\ (B.cons[c].done => es.done)
  BY DEF B
<1>5. Life(B, D) /\ Advances(B, D)
  BY <1>3, <1>4 DEF Life, Advances, Still
<1>6. \A d \in Consumers : d # c => Gentle(B, D, d)
  BY <1>3 DEF Gentle
<1>7. Forward(B, D, c)
  BY <1>3, <1>4 DEF Forward, Still
<1>8. D.resident <= Capacity /\ D.resident <= B.resident /\ r.rel = B.resident - D.resident
  BY <1>2, <1>3
<1>9. BufferStep(t, b, D)
  BY <1>1, <1>3, <1>5, <1>6, <1>7, <1>8 DEF BufferStep, B, t
<1>10. buf'[b] = D
  BY <1>2
<1>11. Writer(b)[1] = "writer" /\ \A a \in Buffers : Writer(a)[1] = "writer"
  BY ThreadKinds
<1>12. PlaceStep(t, r)
  BY <1>1, <1>2, <1>10, <1>11 DEF PlaceStep, t
<1> QED
  BY <1>1, <1>8, <1>9, <1>12, Touches DEF B, t

\* A runner whose consumer starts, ends or has been told of its failure: the
\* stream stays where it is.
LEMMA LifeSet ==
  ASSUME IndInv, NEW b \in Buffers, NEW c \in Enabled, NEW es \in ConsumerStates,
         Alike(buf[b].cons[c], es), es.active = buf[b].cons[c].active,
         es.unavailable = buf[b].cons[c].unavailable,
         NEW D, D = [buf[b] EXCEPT !.cons = [@ EXCEPT ![c] = es]]
  PROVE  OnlyConsumer(buf[b], D, c, es) /\ PolicyFit(b, D) /\ Still(buf[b].cons[c], es)
<1> DEFINE B == buf[b]
           cs == B.cons[c]
<1>1. c \in Consumers /\ BufferOK(B) /\ PolicyFit(b, B) /\ D = [B EXCEPT !.cons = [@ EXCEPT ![c] = es]]
  BY RunnerNow, BufferNow
<1>2. Alike(cs, es) /\ es.active = cs.active /\ es.unavailable = cs.unavailable
  OBVIOUS
<1> HIDE DEF B
<1>3. cs \in ConsumerStates /\ ConsumerOK(B, c)
  BY <1>1 DEF BufferOK, BufferStates
<1> HIDE DEF cs
<1>4. IF c \in Enabled /\ ~es.unavailable
      THEN /\ Serving(B.nextSeq, B.size, es) /\ (es.active <=> ~B.closed)
           /\ B.closed => Back(es) = B.nextSeq
      ELSE Dead(es)
  <2>1. Front(es) = Front(cs) /\ Back(es) = Back(cs)
        /\ (Serving(B.nextSeq, B.size, cs) => Serving(B.nextSeq, B.size, es))
    BY <1>2, AlikeServes
  <2>2. CASE ~cs.unavailable
    <3>1. Serving(B.nextSeq, B.size, cs) /\ (cs.active <=> ~B.closed) /\ (B.closed => Back(cs) = B.nextSeq)
      BY <1>3, <2>2 DEF ConsumerOK, cs
    <3> QED
      BY <1>2, <2>1, <2>2, <3>1
  <2>3. CASE cs.unavailable
    <3>1. Dead(cs)
      BY <1>3, <2>3 DEF ConsumerOK, cs
    <3> QED
      BY <1>2, <2>3, <3>1 DEF Dead, Alike
  <2> QED
    BY <2>2, <2>3
<1>5. OnlyConsumer(B, D, c, es)
  <2>1. es.pend = B.cons[c].pend
    BY <1>2 DEF Alike, cs
  <2> QED
    BY <1>1, <1>4, <2>1, ConsumerSet
<1>6. PolicyFit(b, D)
  <2>1. D.closed = B.closed /\ \A d \in Enabled : /\ D.cons[d].acked = B.cons[d].acked
           /\ D.cons[d].gapFly = B.cons[d].gapFly /\ D.cons[d].gap = B.cons[d].gap
    BY <1>2, <1>5, EnabledConsumers DEF OnlyConsumer, Alike, cs
  <2> QED
    BY <1>1, <2>1 DEF PolicyFit
<1> QED
  BY <1>2, <1>5, <1>6 DEF Still, Alike, cs, B

\* A runner starts, or finds that it is too late.
LEMMA StartRunStep ==
  ASSUME IndInv, NEW b \in Buffers, NEW c \in Enabled, StartRun(b, c)
  PROVE  IndInv' /\ StreamStep
<1> DEFINE t == Runner(b, c)
           B == buf[b]
           cs == B.cons[c]
           late == ~cs.active \/ B.closed
           es == IF late THEN [cs EXCEPT !.done = TRUE] ELSE [cs EXCEPT !.started = TRUE]
           pc == IF late THEN "end" ELSE "next"
           r == At(pc)
           D == [B EXCEPT !.cons = [@ EXCEPT ![c] = es]]
<1>1. /\ th[t].pc = "start" /\ th' = [th EXCEPT ![t] = r] /\ buf' = [buf EXCEPT ![b] = D]
      /\ wr' = wr /\ fl' = fl /\ budget' = budget
  BY DEF StartRun, Unlock, SetConsumer
<1>2. t \in Threads /\ c \in Consumers /\ BufferOK(B) /\ RunnerFit(c, B, "start") /\ th[t].rel = 0
  BY <1>1, RunnerNow
<1>3. r \in Recs /\ Legal("runner", r) /\ PlaceOf(r) = pc /\ r.rel = 0
  <2>1. pc \in Running["runner"] /\ "runner" \in Kinds
    BY DEF Running, Kinds
  <2> QED
    BY <2>1, Going
<1> HIDE DEF t, r, D, B
<1>4. cs \in ConsumerStates /\ ConsumerOK(B, c)
  BY <1>2 DEF BufferOK, BufferStates
<1> HIDE DEF cs
<1>5. /\ es \in ConsumerStates /\ Alike(cs, es) /\ es.active = cs.active /\ es.unavailable = cs.unavailable
      /\ (cs.done => es.done) /\ (es.done => cs.done \/ late)
  <2>1. CASE late
    BY <1>4, <2>1 DEF ConsumerStates, Alike
  <2>2. CASE ~late
    BY <1>4, <2>2 DEF ConsumerStates, Alike
  <2> QED
    BY <2>1, <2>2
<1> HIDE DEF es
<1>6. OnlyConsumer(B, D, c, es) /\ PolicyFit(b, D) /\ Still(B.cons[c], es)
  BY <1>5, LifeSet DEF D, B, cs
<1>7. RunnerFit(c, D, pc)
  <2>1. D.cons[c] = es /\ D.closed = B.closed /\ D.sealed = B.sealed /\ D.nextSeq = B.nextSeq
    BY <1>6 DEF OnlyConsumer
  <2>2. cs.inFlight = 0 /\ cs.gapFly = {} /\ (cs.done => B.closed)
    BY <1>2 DEF RunnerFit, cs
  <2>3. late /\ ~B.closed => cs.unavailable
    BY <1>4 DEF ConsumerOK, cs
  <2> QED
    BY <1>5, <2>1, <2>2, <2>3 DEF RunnerFit, Alike
<1>8. Moves(t, r) /\ (B.cons[c].done => es.done)
  BY <1>1, <1>2, <1>3, <1>5, MovesAlone DEF cs
<1> HIDE DEF pc
<1> QED
  BY <1>1, <1>2, <1>3, <1>6, <1>7, <1>8, RunnerSets DEF B, t

\* completeFailureHandling
LEMMA HandleFailureStep ==
  ASSUME IndInv, NEW b \in Buffers, NEW c \in Enabled, HandleFailure(b, c)
  PROVE  IndInv' /\ StreamStep
<1> DEFINE t == Runner(b, c)
           B == buf[b]
           cs == B.cons[c]
           es == [cs EXCEPT !.failurePending = FALSE]
           r == At("finish")
           D == [B EXCEPT !.cons = [@ EXCEPT ![c] = es]]
<1>1. /\ th[t].pc = "handle" /\ th' = [CondBroadcast(b) EXCEPT ![t] = r] /\ buf' = [buf EXCEPT ![b] = D]
      /\ wr' = wr /\ fl' = fl /\ budget' = budget
  BY DEF HandleFailure, UnlockBroadcast, SetConsumer
<1>2. t \in Threads /\ c \in Consumers /\ BufferOK(B) /\ RunnerFit(c, B, "handle") /\ th[t].rel = 0
  BY <1>1, RunnerNow
<1>3. r \in Recs /\ Legal("runner", r) /\ PlaceOf(r) = "finish" /\ r.rel = 0
  <2>1. "finish" \in Running["runner"] /\ "runner" \in Kinds
    BY DEF Running, Kinds
  <2> QED
    BY <2>1, Going
<1> HIDE DEF t, r, D, B
<1>4. cs \in ConsumerStates
  BY <1>2 DEF BufferOK, BufferStates
<1> HIDE DEF cs
<1>5. /\ es \in ConsumerStates /\ Alike(cs, es) /\ es.active = cs.active /\ es.unavailable = cs.unavailable
      /\ es.done = cs.done
  BY <1>4 DEF ConsumerStates, Alike
<1> HIDE DEF es
<1>6. OnlyConsumer(B, D, c, es) /\ PolicyFit(b, D) /\ Still(B.cons[c], es)
  BY <1>5, LifeSet DEF D, B, cs
<1>7. RunnerFit(c, D, "finish")
  <2>1. D.cons[c] = es /\ D.closed = B.closed
    BY <1>6 DEF OnlyConsumer
  <2>2. cs.inFlight = 0 /\ cs.gapFly = {} /\ (cs.done => B.closed) /\ cs.unavailable
    BY <1>2 DEF RunnerFit, cs
  <2> QED
    BY <1>5, <2>1, <2>2 DEF RunnerFit, Alike
<1>8. Moves(t, r) /\ (B.cons[c].done => es.done)
  BY <1>1, <1>2, <1>3, <1>5, MovesBroadcast DEF cs
<1> QED
  BY <1>1, <1>2, <1>3, <1>6, <1>7, <1>8, RunnerSets DEF B, t

\* finishConsumer
LEMMA FinishRunStep ==
  ASSUME IndInv, NEW b \in Buffers, NEW c \in Enabled, FinishRun(b, c)
  PROVE  IndInv' /\ StreamStep
<1> DEFINE t == Runner(b, c)
           B == buf[b]
           cs == B.cons[c]
           es == [cs EXCEPT !.done = TRUE]
           r == At("end")
           D == [B EXCEPT !.cons = [@ EXCEPT ![c] = es]]
<1>1. /\ th[t].pc = "finish" /\ th' = [th EXCEPT ![t] = r] /\ buf' = [buf EXCEPT ![b] = D]
      /\ wr' = wr /\ fl' = fl /\ budget' = budget
  BY DEF FinishRun, Unlock, SetConsumer
<1>2. t \in Threads /\ c \in Consumers /\ BufferOK(B) /\ RunnerFit(c, B, "finish") /\ th[t].rel = 0
  BY <1>1, RunnerNow
<1>3. r \in Recs /\ Legal("runner", r) /\ PlaceOf(r) = "end" /\ r.rel = 0
  <2>1. "end" \in Running["runner"] /\ "runner" \in Kinds
    BY DEF Running, Kinds
  <2> QED
    BY <2>1, Going
<1> HIDE DEF t, r, D, B
<1>4. cs \in ConsumerStates
  BY <1>2 DEF BufferOK, BufferStates
<1> HIDE DEF cs
<1>5. /\ es \in ConsumerStates /\ Alike(cs, es) /\ es.active = cs.active /\ es.unavailable = cs.unavailable
      /\ es.done
  BY <1>4 DEF ConsumerStates, Alike
<1> HIDE DEF es
<1>6. OnlyConsumer(B, D, c, es) /\ PolicyFit(b, D) /\ Still(B.cons[c], es)
  BY <1>5, LifeSet DEF D, B, cs
<1>7. RunnerFit(c, D, "end")
  <2>1. D.cons[c] = es /\ D.closed = B.closed /\ D.sealed = B.sealed /\ D.nextSeq = B.nextSeq
    BY <1>6 DEF OnlyConsumer
  <2>2. RunnerFit(c, B, "finish") /\ Alike(cs, es) /\ es.unavailable = cs.unavailable /\ cs = B.cons[c]
    BY <1>2, <1>5 DEF cs
  <2> QED
    BY <2>1, <2>2 DEF RunnerFit, Alike
<1>8. Moves(t, r)
  BY <1>1, <1>2, <1>3, MovesAlone
<1> QED
  BY <1>1, <1>2, <1>3, <1>5, <1>6, <1>7, <1>8, RunnerSets DEF B, t

\* A consumer at the head of its runner's loop.
LEMMA AtNext ==
  ASSUME IndInv, NEW b \in Buffers, NEW c \in Enabled, th[Runner(b, c)].pc = "next",
         NEW B, B = buf[b], NEW cs, cs = B.cons[c]
  PROVE  /\ Runner(b, c) \in Threads /\ th[Runner(b, c)].rel = 0 /\ c \in Consumers
         /\ BufferOK(B) /\ B \in BufferStates /\ PolicyFit(b, B) /\ cs \in ConsumerStates
         /\ RunnerFit(c, B, "next") /\ cs.inFlight = 0 /\ cs.gapFly = {} /\ (cs.done => B.closed)
         /\ cs.active => /\ ~cs.unavailable /\ ~B.closed /\ Serving(B.nextSeq, B.size, cs)
         /\ ~cs.active => cs.unavailable \/ B.closed
<1>1. /\ Runner(b, c) \in Threads /\ th[Runner(b, c)].rel = 0 /\ c \in Consumers
      /\ BufferOK(B) /\ RunnerFit(c, B, "next")
  BY RunnerNow
<1>2. PolicyFit(b, B)
  BY BufferNow
<1>3. B \in BufferStates /\ cs \in ConsumerStates /\ ConsumerOK(B, c)
  BY <1>1 DEF BufferOK, BufferStates
<1>4. cs.inFlight = 0 /\ cs.gapFly = {} /\ (cs.done => B.closed)
  BY <1>1 DEF RunnerFit
<1>5. /\ cs.active => /\ ~cs.unavailable /\ ~B.closed /\ Serving(B.nextSeq, B.size, cs)
      /\ ~cs.active => cs.unavailable \/ B.closed
  BY <1>3 DEF ConsumerOK, Dead
<1> QED
  BY <1>1, <1>2, <1>3, <1>4, <1>5

\* What next takes changes neither what is owed nor what has been settled.
LEMMA WorkTaken ==
  ASSUME IndInv, NEW b \in Buffers, NEW c \in Enabled, th[Runner(b, c)].pc = "next",
         NEW B, B = buf[b], NEW cs, cs = B.cons[c], cs.active,
         NEW es \in ConsumerStates, Serving(B.nextSeq, B.size, es),
         es.pend = cs.pend, es.active = cs.active, es.unavailable = cs.unavailable, es.done = cs.done,
         es.ingested = cs.ingested, es.acked = cs.acked, es.gap \subseteq cs.gap,
         Overflow[b] = "block" => es.gapFly = {},
         NEW pc \in {"ingest", "gap"}, pc = "ingest" <=> es.inFlight # 0, pc = "gap" <=> es.gapFly # {},
         th' = [th EXCEPT ![Runner(b, c)] = At(pc)],
         NEW D, D = [B EXCEPT !.cons = [@ EXCEPT ![c] = es]], buf' = [buf EXCEPT ![b] = D],
         wr' = wr, fl' = fl, budget' = budget
  PROVE  IndInv' /\ StreamStep
<1> DEFINE t == Runner(b, c)
           r == At(pc)
<1>1. /\ t \in Threads /\ th[t].rel = 0 /\ c \in Consumers
      /\ BufferOK(B) /\ B \in BufferStates /\ PolicyFit(b, B) /\ cs \in ConsumerStates
      /\ (cs.done => B.closed) /\ ~cs.unavailable /\ ~B.closed
  BY AtNext
<1>2. r \in Recs /\ Legal("runner", r) /\ PlaceOf(r) = pc /\ r.rel = 0
  <2>1. pc \in Running["runner"] /\ "runner" \in Kinds
    BY DEF Running, Kinds
  <2> QED
    BY <2>1, Going
<1>3. th' = [th EXCEPT ![t] = r]
  OBVIOUS
<1> HIDE DEF t, r
<1>4. Moves(t, r)
  BY <1>1, <1>2, <1>3, MovesAlone
<1>5. IF c \in Enabled /\ ~es.unavailable
      THEN /\ Serving(B.nextSeq, B.size, es) /\ (es.active <=> ~B.closed)
           /\ B.closed => Back(es) = B.nextSeq
      ELSE Dead(es)
  BY <1>1
<1>6. OnlyConsumer(B, D, c, es)
  <2>1. es.pend = B.cons[c].pend
    OBVIOUS
  <2> QED
    BY <1>1, <1>5, <2>1, ConsumerSet
<1>7. D.cons[c] = es /\ D.closed = B.closed /\ \A d \in Consumers \ {c} : D.cons[d] = B.cons[d]
  BY <1>6 DEF OnlyConsumer
<1>8. RunnerFit(c, D, pc)
  BY <1>1, <1>7 DEF RunnerFit
<1>9. PolicyFit(b, D)
  <2>1. SUFFICES ASSUME Overflow[b] = "block", NEW d \in Enabled
                 PROVE  D.cons[d].acked = {} /\ D.cons[d].gapFly = {} /\ D.cons[d].gap = {}
    BY <1>1, <1>7 DEF PolicyFit
  <2>2. B.cons[d].acked = {} /\ B.cons[d].gapFly = {} /\ B.cons[d].gap = {}
    BY <1>1, <2>1 DEF PolicyFit
  <2>3. d \in Consumers
    BY EnabledConsumers
  <2> QED
    BY <1>7, <2>1, <2>2, <2>3
<1>10. Still(cs, es) /\ (cs.done => es.done)
  BY DEF Still
<1> QED
  BY <1>1, <1>2, <1>4, <1>6, <1>8, <1>9, <1>10, RunnerSets DEF t

\* next
LEMMA TakeWorkStep ==
  ASSUME IndInv, NEW b \in Buffers, NEW c \in Enabled, TakeWork(b, c)
  PROVE  IndInv' /\ StreamStep
<1> DEFINE t == Runner(b, c)
           B == buf[b]
           cs == B.cons[c]
           batch == BatchOf(B, cs)
           idle == cs.gap = {} /\ cs.next = 0
           eg == [cs EXCEPT !.gapFly = cs.gap, !.gapFlySeq = cs.gapSeq, !.gap = {}, !.gapSeq = 0]
           eb == [cs EXCEPT !.batch = batch, !.inFlight = cs.next, !.inFlightLast = Max(batch)]
<1>1. th[t].pc = "next" /\ wr' = wr /\ fl' = fl /\ budget' = budget
  BY DEF TakeWork
<1>2. \/ /\ cs.active /\ ~B.closed /\ ~B.sealed /\ idle
         /\ Unlock(t, b, B, Sleep("next"))
      \/ /\ ~cs.active \/ B.closed \/ (B.sealed /\ idle)
         /\ Goto(t, "finish")
         /\ buf' = buf
      \/ /\ cs.active /\ ~B.closed /\ cs.gap # {}
         /\ Unlock(t, b, [B EXCEPT !.cons = [@ EXCEPT ![c] = eg]], At("gap"))
      \/ /\ cs.active /\ ~B.closed /\ cs.gap = {} /\ cs.next # 0
         /\ Unlock(t, b, [B EXCEPT !.cons = [@ EXCEPT ![c] = eb]], At("ingest"))
  BY DEF TakeWork, SetConsumer
<1>3. /\ t \in Threads /\ th[t].rel = 0 /\ c \in Consumers
      /\ BufferOK(B) /\ B \in BufferStates /\ PolicyFit(b, B) /\ cs \in ConsumerStates
      /\ RunnerFit(c, B, "next") /\ cs.inFlight = 0 /\ cs.gapFly = {} /\ (cs.done => B.closed)
      /\ cs.active => /\ ~cs.unavailable /\ ~B.closed /\ Serving(B.nextSeq, B.size, cs)
      /\ ~cs.active => cs.unavailable \/ B.closed
  BY <1>1, AtNext
<1>4. t[1] = "runner" /\ t[2] = b /\ t[3] = c /\ buf \in [Buffers -> BufferStates]
  BY ThreadKinds, TypeParts DEF IndInv
<1>5. CASE Unlock(t, b, B, Sleep("next"))
  <2> DEFINE r == Sleep("next")
  <2>1. th' = [th EXCEPT ![t] = r] /\ buf' = buf
    BY <1>4, <1>5 DEF Unlock
  <2>2. r \in Recs /\ Legal("runner", r) /\ PlaceOf(r) = "next" /\ r.rel = 0 /\ r.pc # "append"
    BY DEF Sleep, Recs, Places, Legal, Sleeping, PlaceOf
  <2> HIDE DEF r, t, B
  <2>3. Moves(t, r)
    BY <1>3, <2>1, <2>2, MovesAlone
  <2>4. OwnFit(t, "next")
    BY <1>3, <1>4 DEF OwnFit, B
  <2>5. budget' \in BudgetStates /\ budget'.resident = budget.resident
    BY <1>1, TypeParts DEF IndInv
  <2> QED
    BY <1>1, <1>3, <1>4, <2>1, <2>2, <2>3, <2>4, <2>5, Walks
<1>6. ASSUME ~cs.active \/ B.closed \/ (B.sealed /\ idle), Goto(t, "finish"), buf' = buf
      PROVE  IndInv' /\ StreamStep
  <2>1. RunnerFit(c, B, "finish")
    <3>1. ASSUME ~B.closed, ~cs.unavailable PROVE B.sealed /\ cs.completedSeq = B.nextSeq
      <4>1. cs.active /\ Serving(B.nextSeq, B.size, cs)
        BY <1>3, <3>1
      <4>2. B.sealed /\ cs.gap = {} /\ cs.next = 0
        BY <1>6, <3>1, <4>1
      <4>3. Front(cs) = cs.completedSeq /\ Back(cs) = cs.completedSeq
        BY <1>3, <4>2 DEF Front, Back
      <4>4. cs.completedSeq \in Nat
        BY <1>3, Ends
      <4>5. Back(cs) = B.nextSeq
        BY <1>3, <4>1, <4>2, <4>3, <4>4 DEF Serving, Awaits
      <4> QED
        BY <4>2, <4>3, <4>5
    <3> QED
      BY <1>3, <3>1 DEF RunnerFit
  <2>2. OwnFit(t, "finish") /\ "finish" \in Running[t[1]]
    BY <1>4, <2>1 DEF OwnFit, Running
  <2> HIDE DEF t
  <2> QED
    BY <1>1, <1>3, <1>6, <2>2, WalksTo
<1>7. ASSUME cs.active, ~B.closed, cs.gap # {},
             Unlock(t, b, [B EXCEPT !.cons = [@ EXCEPT ![c] = eg]], At("gap"))
      PROVE  IndInv' /\ StreamStep
  <2>1. th' = [th EXCEPT ![t] = At("gap")] /\ buf' = [buf EXCEPT ![b] = [B EXCEPT !.cons = [@ EXCEPT ![c] = eg]]]
    BY <1>7 DEF Unlock
  <2> DEFINE n == B.nextSeq
             f == B.size
  <2>2. n \in 0..MaxSeq /\ Serving(n, f, cs)
    BY <1>3, <1>7 DEF BufferStates
  <2> HIDE DEF n, f, B, cs
  <2>3. eg \in ConsumerStates /\ Serving(n, f, eg)
    BY <1>3, <1>7, <2>2, TakeGap
  <2>4. /\ eg.pend = cs.pend /\ eg.active = cs.active /\ eg.unavailable = cs.unavailable /\ eg.done = cs.done
        /\ eg.ingested = cs.ingested /\ eg.acked = cs.acked /\ eg.gap = {} /\ eg.inFlight = cs.inFlight
        /\ eg.gapFly = cs.gap
    BY <1>3 DEF ConsumerStates
  <2>5. Overflow[b] # "block"
    BY <1>3, <1>7 DEF PolicyFit, cs
  <2> DEFINE D == [B EXCEPT !.cons = [@ EXCEPT ![c] = eg]]
  <2>6. buf' = [buf EXCEPT ![b] = D] /\ D = [B EXCEPT !.cons = [@ EXCEPT ![c] = eg]]
    BY <2>1
  <2>7. Serving(B.nextSeq, B.size, eg)
    BY <2>3 DEF n, f
  <2>8. B = buf[b] /\ cs = B.cons[c]
    BY DEF B, cs
  <2> DEFINE pc == "gap"
  <2>9. /\ pc = "ingest" <=> eg.inFlight # 0
        /\ pc = "gap" <=> eg.gapFly # {}
        /\ eg.gap \subseteq cs.gap /\ pc \in {"ingest", "gap"}
        /\ th' = [th EXCEPT ![Runner(b, c)] = At(pc)]
    BY <1>3, <1>7, <2>1, <2>4
  <2> HIDE DEF eg, D, pc
  <2>10. /\ th[Runner(b, c)].pc = "next" /\ cs.active /\ Serving(B.nextSeq, B.size, eg)
         /\ (Overflow[b] = "block" => eg.gapFly = {}) /\ wr' = wr /\ fl' = fl /\ budget' = budget
    BY <1>1, <1>7, <2>1, <2>3, <2>4, <2>5, <2>6, <2>7, <2>8, <2>9
  <2> HIDE DEF t, batch, idle
  <2> QED
    BY <2>3, <2>4, <2>6, <2>8, <2>9, <2>10, WorkTaken
<1>8. ASSUME cs.active, ~B.closed, cs.gap = {}, cs.next # 0,
             Unlock(t, b, [B EXCEPT !.cons = [@ EXCEPT ![c] = eb]], At("ingest"))
      PROVE  IndInv' /\ StreamStep
  <2>1. th' = [th EXCEPT ![t] = At("ingest")] /\ buf' = [buf EXCEPT ![b] = [B EXCEPT !.cons = [@ EXCEPT ![c] = eb]]]
    BY <1>8 DEF Unlock
  <2> HIDE DEF B, cs
  <2>2. batch = BatchOf(B, cs) /\ Serving(B.nextSeq, B.size, cs)
    BY <1>3, <1>8
  <2> HIDE DEF batch
  <2>3. eb \in ConsumerStates /\ Serving(B.nextSeq, B.size, eb) /\ eb.inFlight # 0
    BY <1>3, <1>8, <2>2, TakeBatch
  <2>4. /\ eb.pend = cs.pend /\ eb.active = cs.active /\ eb.unavailable = cs.unavailable /\ eb.done = cs.done
        /\ eb.ingested = cs.ingested /\ eb.acked = cs.acked /\ eb.gap = cs.gap
        /\ eb.gapFly = {}
    BY <1>3 DEF ConsumerStates
  <2> DEFINE D == [B EXCEPT !.cons = [@ EXCEPT ![c] = eb]]
  <2>5. buf' = [buf EXCEPT ![b] = D] /\ D = [B EXCEPT !.cons = [@ EXCEPT ![c] = eb]]
    BY <2>1
  <2>6. B = buf[b] /\ cs = B.cons[c]
    BY DEF B, cs
  <2> DEFINE pc == "ingest"
  <2>7. /\ pc = "ingest" <=> eb.inFlight # 0
        /\ pc = "gap" <=> eb.gapFly # {}
        /\ eb.gap \subseteq cs.gap /\ pc \in {"ingest", "gap"}
        /\ th' = [th EXCEPT ![Runner(b, c)] = At(pc)]
    BY <2>1, <2>3, <2>4
  <2> HIDE DEF eb, D, pc
  <2>8. /\ th[Runner(b, c)].pc = "next" /\ cs.active /\ Serving(B.nextSeq, B.size, eb)
         /\ (Overflow[b] = "block" => eb.gapFly = {}) /\ wr' = wr /\ fl' = fl /\ budget' = budget
    BY <1>1, <1>8, <2>1, <2>3, <2>4, <2>5, <2>6, <2>7
  <2> HIDE DEF t, batch, idle
  <2> QED
    BY <2>3, <2>4, <2>5, <2>6, <2>7, <2>8, WorkTaken
<1> QED
  BY <1>2, <1>5, <1>6, <1>7, <1>8

\* completeBatch and completeGap
LEMMA CompleteStep ==
  ASSUME IndInv, NEW b \in Buffers, NEW c \in Enabled, NEW err \in BOOLEAN, Complete(b, c, err)
  PROVE  IndInv' /\ StreamStep
<1> DEFINE t == Runner(b, c)
           B == buf[b]
           cs == B.cons[c]
           p == th[t].pc
           D == IF p = "ingest" THEN CompleteBatch(B, c, err) ELSE CompleteGap(B, c, err)
           pc == IF err THEN "failWake" ELSE "next"
           n == B.resident - D.resident
           r == ReleaseThen(n, pc)
<1>1. /\ p \in {"ingest", "gap"} /\ th' = [CondBroadcast(b) EXCEPT ![t] = r]
      /\ buf' = [buf EXCEPT ![b] = D] /\ wr' = wr /\ fl' = fl /\ budget' = budget
  BY DEF Complete, UnlockBroadcast
<1>2. /\ t \in Threads /\ t[1] = "runner" /\ t[2] = b /\ t[3] = c /\ c \in Consumers /\ BufferOK(B)
      /\ RunnerFit(c, B, p) /\ th[t].rel = 0
  BY <1>1, RunnerNow
<1>3. PolicyFit(b, B) /\ B.resident \in Nat /\ B.resident <= Capacity /\ B.nextSeq \in Nat
      /\ buf \in [Buffers -> BufferStates] /\ wr \in [Buffers -> WriteLocals]
  BY BufferNow, TypeParts DEF IndInv
<1>4. (p = "ingest" => cs.inFlight # 0) /\ (p = "gap" => cs.gapFly # {}) /\ (cs.done => B.closed)
  BY <1>1, <1>2 DEF RunnerFit
<1> HIDE DEF B, p
<1>5. Completed(B, D, c) /\ (err => D.cons[c].unavailable)
  <2>1. CASE p = "ingest"
    BY <1>2, <1>4, <2>1, BatchCompleted
  <2>2. CASE p = "gap"
    BY <1>2, <1>4, <2>2, GapCompleted
  <2> QED
    BY <1>1, <2>1, <2>2
<1> DEFINE es == D.cons[c]
<1> HIDE DEF D, t, cs
<1>6. /\ BufferOK(D) /\ D.resident <= B.resident
      /\ D.nextSeq = B.nextSeq /\ D.closed = B.closed /\ D.sealed = B.sealed
      /\ \A d \in Consumers \ {c} : D.cons[d] = B.cons[d]
      /\ Progress(B.nextSeq, B.size, cs, es)
  BY <1>5 DEF Completed, cs
<1>7. D.resident \in Nat /\ n \in Nat /\ D.resident <= Capacity
  <2>1. D.resident \in Nat
    BY <1>6 DEF BufferOK, BufferStates
  <2> QED
    BY <1>3, <1>6, <2>1, Bounds
<1>8. r \in Recs /\ Legal("runner", r) /\ PlaceOf(r) = pc /\ r.rel = n
  <2>1. pc \in Releasing["runner"] /\ "runner" \in Kinds
    BY DEF Releasing, Kinds
  <2> HIDE DEF n, pc
  <2> QED
    BY <1>7, <2>1, GoingReleases
<1> HIDE DEF r
<1>9. Moves(t, r)
  BY <1>1, <1>2, <1>8, MovesBroadcast
<1>10. es.inFlight = 0 /\ es.gapFly = {} /\ es.done = cs.done /\ (err => es.unavailable)
       /\ cs.ingested \cup cs.acked \subseteq es.ingested \cup es.acked
       /\ (cs.gapFly = {} => es.acked = cs.acked) /\ (es.gap = cs.gap \/ es.gap = {})
  <2>1. es.inFlight = 0 /\ es.gapFly = {} /\ es.done = cs.done /\ (err => es.unavailable)
    BY <1>5, <1>6 DEF Progress
  <2>2. cs.ingested \cup cs.acked \subseteq es.ingested \cup es.acked
    BY <1>6 DEF Progress
  <2>3. (cs.gapFly = {} => es.acked = cs.acked) /\ (es.gap = cs.gap \/ es.gap = {})
    BY <1>6 DEF Progress, Dead
  <2> QED
    BY <2>1, <2>2, <2>3
<1>11. PolicyFit(b, D)
  <2>1. SUFFICES ASSUME Overflow[b] = "block", NEW d \in Enabled
                 PROVE  /\ D.cons[d].acked = {} /\ D.cons[d].gapFly = {}
                        /\ ~D.closed => D.cons[d].gap = {}
    BY DEF PolicyFit
  <2>2. B.cons[d].acked = {} /\ B.cons[d].gapFly = {} /\ (~B.closed => B.cons[d].gap = {})
    BY <1>3, <2>1 DEF PolicyFit
  <2>3. d \in Consumers
    BY EnabledConsumers
  <2>4. CASE d = c
    BY <1>6, <1>10, <2>2, <2>4 DEF cs
  <2>5. CASE d # c
    BY <1>6, <2>2, <2>3, <2>5
  <2> QED
    BY <2>4, <2>5
<1>12. BufferStep(t, b, D)
  <2>1. Life(B, D) /\ \A d \in Consumers : d # c => Gentle(B, D, d)
    BY <1>6 DEF Life, Gentle
  <2>2. Forward(B, D, c)
    BY <1>10 DEF Forward, cs
  <2>3. Advances(B, D)
    <3>1. B.cons[c].inFlight # 0 \/ B.cons[c].gapFly # {}
      BY <1>1, <1>4 DEF cs
    <3>2. Progress(B.nextSeq, B.size, B.cons[c], D.cons[c])
      BY <1>6 DEF cs
    <3> QED
      BY <1>6, <3>1, <3>2 DEF Advances
  <2> QED
    BY <1>1, <1>2, <1>6, <1>7, <1>11, <2>1, <2>2, <2>3 DEF BufferStep, B, t
<1>13. RunnerFit(c, D, pc)
  BY <1>4, <1>6, <1>10 DEF RunnerFit
<1> HIDE DEF pc
<1>14. PlaceStep(t, r)
  <2>1. buf'[b] = D /\ \A a \in Buffers : Writer(a)[1] = "writer"
    BY <1>1, <1>3, ThreadKinds
  <2> QED
    BY <1>1, <1>2, <1>3, <1>8, <1>9, <1>13, <2>1 DEF PlaceStep
<1> QED
  BY <1>1, <1>2, <1>8, <1>12, <1>14, Touches DEF B
-----------------------------------------------------------------------------
(* The pump.                                                               *)

\* What Write does next with a payload of rest bytes.
LEMMA ChunkSize ==
  ASSUME NEW rest \in Nat
  PROVE  /\ ChunkOf(rest) \in 0..ChunkBytes
         /\ rest > 0 => 1 <= ChunkOf(rest) /\ ChunkOf(rest) <= rest /\ ChunkOf(rest) <= Capacity
<1> DEFINE S == {rest, ChunkBytes, Capacity}
<1>1. S \in SUBSET Nat /\ S # {}
  BY Bounds
<1>2. Min(S) \in S /\ \A y \in S : Min(S) <= y
  BY <1>1, Smallest
<1>3. ChunkOf(rest) = Min(S)
  BY DEF ChunkOf
<1> DEFINE m == Min(S)
<1>4. m \in {rest, ChunkBytes, Capacity} /\ m <= rest /\ m <= ChunkBytes /\ m <= Capacity
  BY <1>2
<1> HIDE DEF m
<1> QED
  BY <1>3, <1>4, Bounds DEF m

\* The pump of a buffer, its locals and its buffer.
LEMMA WriterNow ==
  ASSUME IndInv, NEW b \in Buffers
  PROVE  /\ Writer(b) \in Threads /\ Writer(b)[1] = "writer" /\ Writer(b)[2] = b
         /\ "writer" \in Kinds /\ th[Writer(b)] \in Recs
         /\ th[Writer(b)].pc \notin {"sleep", "release", "budgetSleep"} =>
              th[Writer(b)].rel = 0 /\ WriterFit(buf[b], wr[b], th[Writer(b)].pc)
<1>1. Writer(b) \in Threads /\ Writer(b)[1] = "writer" /\ Writer(b)[2] = b
  BY ThreadKinds
<1>2. th[Writer(b)] \in Recs
  BY <1>1, OwnPlace
<1>3. th[Writer(b)].pc \notin {"sleep", "release", "budgetSleep"} =>
        th[Writer(b)].rel = 0 /\ OwnFit(Writer(b), th[Writer(b)].pc)
  BY <1>1, OwnPlace
<1> QED
  BY <1>1, <1>2, <1>3 DEF OwnFit, Kinds

\* The pump goes to pc and changes only its locals.
LEMMA WriterWalks ==
  ASSUME IndInv, NEW b \in Buffers, NEW r \in Recs, Legal("writer", r), r.rel = 0, r.pc # "append",
         th' = [th EXCEPT ![Writer(b)] = r],
         th[Writer(b)].pc \notin {"append", "release", "sleep", "budgetSleep"},
         NEW w \in WriteLocals, wr' = [wr EXCEPT ![b] = w], WriterFit(buf[b], w, PlaceOf(r)),
         buf' = buf, fl' = fl, budget' = budget
  PROVE  IndInv' /\ StreamStep
<1> DEFINE t == Writer(b)
<1>1. t \in Threads /\ t[1] = "writer" /\ t[2] = b /\ th[t].rel = 0
  BY WriterNow
<1>2. wr \in [Buffers -> WriteLocals] /\ budget \in BudgetStates /\ budget.resident <= MaxBytes
  BY TypeParts DEF IndInv
<1>3. wr' \in [Buffers -> WriteLocals] /\ wr'[b] = w /\ \A a \in Buffers : a # b => wr'[a] = wr[a]
  BY <1>2
<1>4. \A a \in Buffers : t # Writer(a) => a # b
  OBVIOUS
<1> HIDE DEF t
<1>5. Moves(t, r)
  BY <1>1, MovesAlone DEF t
<1>6. PlaceStep(t, r)
  BY <1>1, <1>3, <1>4, <1>5 DEF PlaceStep
<1>7. budget'.resident + th[t].rel = budget.resident + r.rel /\ th[t].pc # "append"
  BY <1>1 DEF t
<1> QED
  BY <1>1, <1>2, <1>6, <1>7, Passes

\* A chunk is done with: the locals of the rest of the payload.
Advanced(b, w) ==
  /\ w \in WriteLocals /\ wr' = [wr EXCEPT ![b] = w]
  /\ \A B : B.nextSeq \in Nat /\ B.nextSeq + (wr[b].rest - wr[b].chunk) <= MaxSeq
              => WriterFit(B, w, NextChunk(b))
LEMMA PayloadAdvances ==
  ASSUME IndInv, NEW b \in Buffers, AdvancePayload(b), wr[b].chunk <= wr[b].rest, 1 <= wr[b].chunk,
         \A k \in wr[b].cands : Overflow[k] = "drop"
  PROVE  NextChunk(b) \in {"local", "idle"} /\ \E w : Advanced(b, w)
<1> DEFINE v == wr[b]
           rest == v.rest - v.chunk
           chunk == IF rest = 0 THEN 0 ELSE ChunkOf(rest)
           w == [v EXCEPT !.rest = rest, !.chunk = chunk]
<1>1. v \in WriteLocals /\ wr \in [Buffers -> WriteLocals]
  BY TypeParts DEF IndInv
<1>2. v.rest \in Nat /\ v.chunk \in Nat /\ rest \in Nat
  <2>1. v.rest \in Nat /\ v.chunk \in Nat
    BY <1>1, Bounds DEF WriteLocals
  <2> QED
    BY <2>1
<1>3. wr' = [wr EXCEPT ![b].rest = rest, ![b].chunk = chunk]
  BY DEF AdvancePayload
<1>4. NextChunk(b) = IF rest > 0 THEN "local" ELSE "idle"
  BY <1>2 DEF NextChunk
<1>5. chunk \in 0..ChunkBytes /\ (rest > 0 => 1 <= chunk /\ chunk <= rest /\ chunk <= Capacity)
  <2>1. CASE rest = 0
    BY <2>1, Bounds
  <2>2. CASE rest # 0
    <3> HIDE DEF rest
    <3>1. ChunkOf(rest) \in 0..ChunkBytes /\ 1 <= ChunkOf(rest) /\ ChunkOf(rest) <= rest /\ ChunkOf(rest) <= Capacity
      BY <1>2, <2>2, ChunkSize
    <3> QED
      BY <2>2, <3>1
  <2> QED
    BY <2>1, <2>2
<1>6. \A k \in v.cands : Overflow[k] = "drop"
  OBVIOUS
<1> HIDE DEF chunk, rest
<1>7. wr' = [wr EXCEPT ![b] = w]
  BY <1>1, <1>3 DEF WriteLocals
<1> HIDE DEF v
<1>8. w \in WriteLocals /\ w.rest = rest /\ w.chunk = chunk /\ w.cands = v.cands
  BY <1>1, <1>2, <1>5 DEF WriteLocals
<1> HIDE DEF w
<1>9. ASSUME NEW B, B.nextSeq \in Nat, B.nextSeq + rest <= MaxSeq
      PROVE  WriterFit(B, w, NextChunk(b))
  <2>1. CASE rest > 0
    BY <1>4, <1>5, <1>6, <1>8, <1>9, <2>1 DEF WriterFit
  <2>2. CASE ~(rest > 0)
    BY <1>4, <1>6, <1>8, <2>2 DEF WriterFit, Midway
  <2> QED
    BY <2>1, <2>2
<1>10. Advanced(b, w)
  BY <1>7, <1>8, <1>9 DEF Advanced, rest, v
<1> QED
  BY <1>4, <1>10

\* A pump that changes no locals writes them back unchanged.
LEMMA SameLocals ==
  ASSUME IndInv, NEW b \in Buffers, wr' = wr
  PROVE  wr' = [wr EXCEPT ![b] = wr[b]] /\ wr[b] \in WriteLocals
<1>1. wr \in [Buffers -> WriteLocals]
  BY TypeParts DEF IndInv
<1> QED
  BY <1>1

\* The places of the pump between two chunks, and within one.
LEMMA WriterPlaces ==
  ASSUME NEW pc \in {"idle", "local", "reserve", "budget", "evict", "refused", "seal"}
  PROVE  /\ At(pc) \in Recs /\ Legal("writer", At(pc)) /\ PlaceOf(At(pc)) = pc
         /\ At(pc).rel = 0 /\ At(pc).pc # "append"
<1>1. pc \in Running["writer"] /\ "writer" \in Kinds /\ pc # "append"
  BY DEF Running, Kinds
<1> QED
  BY <1>1, Going

\* Write is called.
LEMMA StartWriteStep ==
  ASSUME IndInv, NEW b \in Buffers, NEW p \in Payloads, StartWrite(b, p)
  PROVE  IndInv' /\ StreamStep
<1> DEFINE v == wr[b]
           n == ChunkOf(p)
           w == [v EXCEPT !.rest = p, !.chunk = n]
           r == At("local")
<1>1. /\ th[Writer(b)].pc = "idle" /\ buf[b].nextSeq + p <= MaxSeq
      /\ wr' = [wr EXCEPT ![b].rest = p, ![b].chunk = n] /\ th' = [th EXCEPT ![Writer(b)] = r]
      /\ buf' = buf /\ fl' = fl /\ budget' = budget
  BY DEF StartWrite, Goto
<1>2. p \in Nat /\ p > 0
  <2>1. Payloads \subseteq Nat \ {0}
    BY BufferAssumption
  <2> QED
    BY <2>1
<1>3. n \in 0..ChunkBytes /\ 1 <= n /\ n <= p /\ n <= Capacity
  BY <1>2, ChunkSize
<1>4. v \in WriteLocals /\ wr \in [Buffers -> WriteLocals]
  BY TypeParts DEF IndInv
<1> HIDE DEF n
<1>5. wr' = [wr EXCEPT ![b] = w]
  BY <1>1, <1>4 DEF WriteLocals
<1>6. \A k \in v.cands : Overflow[k] = "drop"
  BY <1>1, WriterNow DEF WriterFit
<1> HIDE DEF v
<1>7. w \in WriteLocals /\ w.rest = p /\ w.chunk = n /\ w.cands = v.cands
  BY <1>2, <1>3, <1>4 DEF WriteLocals
<1> HIDE DEF w
<1>8. WriterFit(buf[b], w, "local")
  BY <1>1, <1>3, <1>6, <1>7 DEF WriterFit
<1>9. r \in Recs /\ Legal("writer", r) /\ PlaceOf(r) = "local" /\ r.rel = 0 /\ r.pc # "append"
  BY WriterPlaces
<1> HIDE DEF r
<1>10. WriterFit(buf[b], w, PlaceOf(r)) /\ th[Writer(b)].pc \notin {"append", "release", "sleep", "budgetSleep"}
  BY <1>1, <1>8, <1>9
<1> QED
  BY <1>1, <1>5, <1>7, <1>9, <1>10, WriterWalks

\* The pump goes to pc and changes nothing.
LEMMA WriterGoes ==
  ASSUME IndInv, NEW b \in Buffers, NEW pc \in {"idle", "local", "reserve", "budget", "evict", "refused", "seal"},
         Goto(Writer(b), pc), th[Writer(b)].pc \notin {"append", "release", "sleep", "budgetSleep"},
         WriterFit(buf[b], wr[b], pc), buf' = buf, wr' = wr, fl' = fl, budget' = budget
  PROVE  IndInv' /\ StreamStep
<1> DEFINE r == At(pc)
<1>1. r \in Recs /\ Legal("writer", r) /\ PlaceOf(r) = pc /\ r.rel = 0 /\ r.pc # "append"
  BY WriterPlaces
<1>2. th' = [th EXCEPT ![Writer(b)] = r]
  BY DEF Goto
<1>3. wr' = [wr EXCEPT ![b] = wr[b]] /\ wr[b] \in WriteLocals
  BY SameLocals
<1> HIDE DEF r
<1> QED
  BY <1>1, <1>2, <1>3, WriterWalks

\* The pump returns, from wherever it is.
LEMMA WriterSeals ==
  ASSUME IndInv, NEW b \in Buffers, Goto(Writer(b), "seal"),
         th[Writer(b)].pc \notin {"append", "release", "sleep", "budgetSleep"},
         buf' = buf, wr' = wr, fl' = fl, budget' = budget
  PROVE  IndInv' /\ StreamStep
<1> DEFINE pc == "seal"
<1>1. WriterFit(buf[b], wr[b], th[Writer(b)].pc)
  BY WriterNow
<1>2. /\ pc \in {"idle", "local", "reserve", "budget", "evict", "refused", "seal"}
      /\ WriterFit(buf[b], wr[b], pc) /\ Goto(Writer(b), pc)
  BY <1>1 DEF WriterFit, Midway
<1> HIDE DEF pc
<1> QED
  BY <1>2, WriterGoes

\* The output channel is closed.
LEMMA StopPumpStep ==
  ASSUME IndInv, NEW b \in Buffers, StopPump(b)
  PROVE  IndInv' /\ StreamStep
<1>1. th[Writer(b)].pc = "idle" /\ Goto(Writer(b), "seal") /\ buf' = buf /\ wr' = wr /\ fl' = fl /\ budget' = budget
  BY DEF StopPump
<1> QED
  BY <1>1, WriterSeals

\* Backpressure in the buffer itself.
LEMMA WaitLocalStep ==
  ASSUME IndInv, NEW b \in Buffers, WaitLocal(b)
  PROVE  IndInv' /\ StreamStep
<1> DEFINE r == Sleep("local")
<1>1. th[Writer(b)].pc = "local" /\ th' = [th EXCEPT ![Writer(b)] = r]
      /\ buf' = buf /\ wr' = wr /\ fl' = fl /\ budget' = budget
  BY DEF WaitLocal
<1>2. WriterFit(buf[b], wr[b], "local")
  BY <1>1, WriterNow
<1>3. r \in Recs /\ Legal("writer", r) /\ PlaceOf(r) = "local" /\ r.rel = 0 /\ r.pc # "append"
  BY DEF Sleep, Recs, Places, Legal, Sleeping, PlaceOf
<1>4. wr' = [wr EXCEPT ![b] = wr[b]] /\ wr[b] \in WriteLocals
  BY <1>1, SameLocals
<1> HIDE DEF r
<1>5. WriterFit(buf[b], wr[b], PlaceOf(r)) /\ th[Writer(b)].pc \notin {"append", "release", "sleep", "budgetSleep"}
  BY <1>1, <1>2, <1>3
<1> QED
  BY <1>1, <1>3, <1>4, <1>5, WriterWalks

\* There is room in the buffer, or nobody to write for.
LEMMA LeaveLocalStep ==
  ASSUME IndInv, NEW b \in Buffers, LeaveLocal(b)
  PROVE  IndInv' /\ StreamStep
<1> DEFINE t == Writer(b)
<1>1. /\ th[t].pc = "local" /\ ~LocallyFull(b) /\ buf' = buf /\ fl' = fl /\ budget' = budget
      /\ \/ Goto(t, "seal") /\ wr' = wr
         \/ Goto(t, NextChunk(b)) /\ AdvancePayload(b)
         \/ AcceptingOutput(buf[b]) /\ Goto(t, "reserve") /\ wr' = wr
  BY DEF LeaveLocal
<1>2. WriterFit(buf[b], wr[b], "local") /\ th[t].pc \notin {"append", "release", "sleep", "budgetSleep"}
  BY <1>1, WriterNow
<1>3. /\ 1 <= wr[b].chunk /\ wr[b].chunk <= wr[b].rest /\ wr[b].chunk <= Capacity
      /\ buf[b].nextSeq + wr[b].rest <= MaxSeq /\ \A k \in wr[b].cands : Overflow[k] = "drop"
  BY <1>2 DEF WriterFit, Midway
<1>4. buf[b].resident \in Nat /\ wr[b].chunk \in Nat /\ wr[b].rest \in Nat /\ buf[b].nextSeq \in Nat
  BY BufferNow
<1>5. CASE Goto(t, "seal") /\ wr' = wr
  BY <1>1, <1>2, <1>5, WriterSeals
<1>6. CASE Goto(t, NextChunk(b)) /\ AdvancePayload(b)
  <2>1. NextChunk(b) \in {"local", "idle"} /\ \E w : Advanced(b, w)
    BY <1>3, <1>6, PayloadAdvances
  <2>2. PICK w : Advanced(b, w)
    BY <2>1
  <2> DEFINE pc == NextChunk(b)
             r == At(pc)
  <2>3. buf[b].nextSeq + (wr[b].rest - wr[b].chunk) <= MaxSeq
    BY <1>3, <1>4, Bounds
  <2>4. w \in WriteLocals /\ wr' = [wr EXCEPT ![b] = w] /\ WriterFit(buf[b], w, pc)
    BY <1>4, <2>2, <2>3 DEF Advanced
  <2>5. pc \in {"idle", "local", "reserve", "budget", "evict", "refused", "seal"}
    BY <2>1
  <2> HIDE DEF pc
  <2>6. r \in Recs /\ Legal("writer", r) /\ PlaceOf(r) = pc /\ r.rel = 0 /\ r.pc # "append"
    BY <2>5, WriterPlaces
  <2>7. th' = [th EXCEPT ![t] = r]
    BY <1>6 DEF Goto, pc
  <2> HIDE DEF r
  <2> QED
    BY <1>1, <1>2, <2>4, <2>6, <2>7, WriterWalks
<1>7. CASE AcceptingOutput(buf[b]) /\ Goto(t, "reserve") /\ wr' = wr
  <2>1. buf[b].resident + wr[b].chunk <= Capacity
    BY <1>1, <1>4, <1>7, Bounds DEF LocallyFull
  <2>2. WriterFit(buf[b], wr[b], "reserve")
    BY <1>2, <2>1 DEF WriterFit, Midway
  <2> QED
    BY <1>1, <1>2, <1>7, <2>2, WriterGoes
<1> QED
  BY <1>1, <1>5, <1>6, <1>7

\* reserve, under buffer.mu
LEMMA CheckAcceptingStep ==
  ASSUME IndInv, NEW b \in Buffers, CheckAccepting(b)
  PROVE  IndInv' /\ StreamStep
<1> DEFINE pc == IF AcceptingOutput(buf[b]) THEN "budget" ELSE "refused"
<1>1. th[Writer(b)].pc = "reserve" /\ Goto(Writer(b), pc) /\ buf' = buf /\ wr' = wr /\ fl' = fl /\ budget' = budget
  BY DEF CheckAccepting
<1>2. WriterFit(buf[b], wr[b], "reserve")
  BY <1>1, WriterNow
<1>3. WriterFit(buf[b], wr[b], "budget") /\ WriterFit(buf[b], wr[b], "refused")
  BY <1>2 DEF WriterFit, Midway
<1>4. pc \in {"budget", "refused"} /\ WriterFit(buf[b], wr[b], pc)
  BY <1>3
<1> HIDE DEF pc
<1> QED
  BY <1>1, <1>4, WriterGoes

\* The pump goes to r with the locals w.
LEMMA WriterPlace ==
  ASSUME IndInv, NEW b \in Buffers, NEW r \in Recs, Legal("writer", r), Moves(Writer(b), r),
         NEW w \in WriteLocals, wr' = [wr EXCEPT ![b] = w], WriterFit(buf'[b], w, PlaceOf(r))
  PROVE  PlaceStep(Writer(b), r) /\ wr'[b] = w
<1> DEFINE t == Writer(b)
<1>1. t \in Threads /\ t[1] = "writer" /\ t[2] = b
  BY WriterNow
<1>2. wr \in [Buffers -> WriteLocals]
  BY TypeParts DEF IndInv
<1>3. wr' \in [Buffers -> WriteLocals] /\ wr'[b] = w /\ \A a \in Buffers : a # b => wr'[a] = wr[a]
  BY <1>2
<1>4. \A a \in Buffers : t # Writer(a) => a # b
  OBVIOUS
<1> HIDE DEF t
<1>5. PlaceStep(t, r)
  BY <1>1, <1>3, <1>4 DEF PlaceStep, t
<1> QED
  BY <1>3, <1>5 DEF t

\* reserve returns true: the chunk's bytes are taken from the budget.
LEMMA WriterReserves ==
  ASSUME IndInv, NEW b \in Buffers, th[Writer(b)].pc \in {"budget", "evict"}, Fits(b), Reserve(b),
         NEW w \in WriteLocals, wr' = [wr EXCEPT ![b] = w], w.rest = wr[b].rest, w.chunk = wr[b].chunk,
         \A k \in w.cands : Overflow[k] = "drop", buf' = buf, fl' = fl
  PROVE  IndInv' /\ StreamStep
<1> DEFINE t == Writer(b)
           r == At("append")
<1>1. /\ t \in Threads /\ t[1] = "writer" /\ t[2] = b /\ "writer" \in Kinds /\ th[t].rel = 0
      /\ WriterFit(buf[b], wr[b], th[t].pc) /\ th[t].pc # "append"
  BY WriterNow
<1>2. r \in Recs /\ Legal("writer", r) /\ PlaceOf(r) = "append" /\ r.rel = 0 /\ r.pc = "append"
  <2>1. "append" \in Running["writer"]
    BY DEF Running
  <2> QED
    BY <1>1, <2>1, Going
<1>3. th' = [th EXCEPT ![t] = r] /\ budget' = [budget EXCEPT !.resident = @ + wr[b].chunk]
  BY DEF Reserve, Goto
<1> HIDE DEF r
<1>4. WriterFit(buf'[b], w, PlaceOf(r))
  <2>1. /\ 1 <= wr[b].chunk /\ wr[b].chunk <= wr[b].rest /\ wr[b].chunk <= Capacity
        /\ buf[b].nextSeq + wr[b].rest <= MaxSeq
    BY <1>1 DEF WriterFit, Midway
  <2>2. buf[b].resident + wr[b].chunk <= Capacity
    BY <1>1 DEF WriterFit
  <2>3. WriterFit(buf[b], w, "append")
    BY <2>1, <2>2 DEF WriterFit
  <2> QED
    BY <1>2, <2>3
<1>5. Moves(t, r)
  BY <1>1, <1>2, <1>3, MovesAlone
<1>6. PlaceStep(t, r) /\ wr'[b] = w
  BY <1>2, <1>4, <1>5, WriterPlace
<1>7. budget \in BudgetStates /\ buf[b].resident \in Nat /\ wr[b].chunk \in Nat
  BY BufferNow, TypeParts DEF IndInv
<1>8. budget' \in BudgetStates /\ budget'.resident = budget.resident + wr[b].chunk /\ budget.resident \in Nat
  BY <1>3, <1>7 DEF BudgetStates
<1>9. MoneyStep(t, r, b)
  <2>1. th'[t] = r
    BY <1>5 DEF Moves
  <2>2. HeldBy(buf[b], wr[b], th[t]) = buf[b].resident
    BY <1>1, <1>7 DEF HeldBy
  <2>3. HeldBy(buf'[b], wr'[b], th'[t]) = buf[b].resident + wr[b].chunk
    BY <1>2, <1>6, <2>1 DEF HeldBy
  <2>4. budget'.resident <= MaxBytes
    BY <1>8 DEF Fits
  <2>5. budget'.resident + HeldBy(buf[b], wr[b], th[t]) + th[t].rel
          = budget.resident + HeldBy(buf'[b], wr'[b], th'[t]) + r.rel
    BY <1>1, <1>2, <1>7, <1>8, <2>2, <2>3
  <2> QED
    BY <1>1, <1>8, <2>4, <2>5 DEF MoneyStep
<1>10. BufferStep(t, b, buf[b])
  BY <1>1, BufferUntouched
<1> HIDE DEF t
<1> QED
  BY <1>1, <1>2, <1>6, <1>9, <1>10, NoFlush, StepFits

\* reserve, under budget.mu
LEMMA TryReserveStep ==
  ASSUME IndInv, NEW b \in Buffers, TryReserve(b)
  PROVE  IndInv' /\ StreamStep
<1> DEFINE t == Writer(b)
<1>1. th[t].pc = "budget" /\ buf' = buf /\ fl' = fl
  BY DEF TryReserve
<1>2. \/ Goto(t, "refused") /\ wr' = wr /\ budget' = budget
      \/ Fits(b) /\ Reserve(b) /\ wr' = wr
      \/ th' = [th EXCEPT ![t] = [pc |-> "budgetSleep", rel |-> 0, ret |-> "reserve"]]
         /\ wr' = wr /\ budget' = budget
      \/ /\ wr' = [wr EXCEPT ![b].cands = {k \in budget.buffers : Overflow[k] = "drop"},
                             ![b].need = budget.resident + wr[b].chunk - MaxBytes]
         /\ Goto(t, "evict") /\ budget' = budget
  BY DEF TryReserve
<1>3. WriterFit(buf[b], wr[b], "budget") /\ th[t].pc \notin {"append", "release", "sleep", "budgetSleep"}
  BY <1>1, WriterNow
<1>4. wr \in [Buffers -> WriteLocals] /\ wr[b] \in WriteLocals /\ budget \in BudgetStates
  BY TypeParts DEF IndInv
<1>5. ASSUME Goto(t, "refused"), wr' = wr, budget' = budget
      PROVE  IndInv' /\ StreamStep
  <2> DEFINE pc == "refused"
  <2>1. /\ pc \in {"idle", "local", "reserve", "budget", "evict", "refused", "seal"}
        /\ WriterFit(buf[b], wr[b], pc) /\ Goto(t, pc)
    BY <1>3, <1>5 DEF WriterFit, Midway
  <2> HIDE DEF pc
  <2> QED
    BY <1>1, <1>3, <1>5, <2>1, WriterGoes
<1>6. ASSUME Fits(b), Reserve(b), wr' = wr
      PROVE  IndInv' /\ StreamStep
  <2>1. wr' = [wr EXCEPT ![b] = wr[b]]
    BY <1>6, SameLocals
  <2>2. \A k \in wr[b].cands : Overflow[k] = "drop"
    BY <1>3 DEF WriterFit
  <2> QED
    BY <1>1, <1>4, <1>6, <2>1, <2>2, WriterReserves
<1>7. ASSUME th' = [th EXCEPT ![t] = [pc |-> "budgetSleep", rel |-> 0, ret |-> "reserve"]],
             wr' = wr, budget' = budget
      PROVE  IndInv' /\ StreamStep
  <2> DEFINE r == [pc |-> "budgetSleep", rel |-> 0, ret |-> "reserve"]
  <2>1. r \in Recs /\ Legal("writer", r) /\ PlaceOf(r) = "reserve" /\ r.rel = 0 /\ r.pc # "append"
    BY DEF Recs, Places, Legal, PlaceOf
  <2>2. WriterFit(buf[b], wr[b], "reserve")
    BY <1>3 DEF WriterFit, Midway
  <2>3. WriterFit(buf[b], wr[b], PlaceOf(r))
    BY <2>1, <2>2
  <2>4. wr' = [wr EXCEPT ![b] = wr[b]] /\ th' = [th EXCEPT ![t] = r]
    BY <1>7, SameLocals
  <2> HIDE DEF r
  <2> QED
    BY <1>1, <1>3, <1>4, <1>7, <2>1, <2>3, <2>4, WriterWalks
<1>8. ASSUME wr' = [wr EXCEPT ![b].cands = {k \in budget.buffers : Overflow[k] = "drop"},
                              ![b].need = budget.resident + wr[b].chunk - MaxBytes],
             Goto(t, "evict"), budget' = budget
      PROVE  IndInv' /\ StreamStep
  <2> DEFINE cands == {k \in budget.buffers : Overflow[k] = "drop"}
             need == budget.resident + wr[b].chunk - MaxBytes
             v == wr[b]
             w == [v EXCEPT !.cands = cands, !.need = need]
             r == At("evict")
  <2>1. cands \in SUBSET Buffers /\ (\A k \in cands : Overflow[k] = "drop") /\ need \in Int
    <3>1. cands \in SUBSET Buffers /\ \A k \in cands : Overflow[k] = "drop"
      BY <1>4 DEF BudgetStates
    <3>2. need \in Int
      BY <1>4, Bounds DEF BudgetStates, WriteLocals
    <3> QED
      BY <3>1, <3>2
  <2> HIDE DEF cands, need
  <2>2. wr' = [wr EXCEPT ![b] = w]
    BY <1>4, <1>8 DEF WriteLocals, cands, need
  <2>3. v \in WriteLocals
    BY <1>4
  <2>4. WriterFit(buf[b], v, "budget")
    BY <1>3
  <2> HIDE DEF v
  <2>5. w \in WriteLocals /\ w.rest = v.rest /\ w.chunk = v.chunk /\ w.cands = cands
    BY <2>1, <2>3 DEF WriteLocals
  <2> HIDE DEF w
  <2>6. WriterFit(buf[b], w, "evict")
    BY <2>1, <2>4, <2>5 DEF WriterFit, Midway
  <2>7. r \in Recs /\ Legal("writer", r) /\ PlaceOf(r) = "evict" /\ r.rel = 0 /\ r.pc # "append"
    BY WriterPlaces
  <2>8. WriterFit(buf[b], w, PlaceOf(r)) /\ th' = [th EXCEPT ![t] = r]
    BY <1>8, <2>6, <2>7 DEF Goto
  <2> HIDE DEF r
  <2> QED
    BY <1>1, <1>3, <1>8, <2>2, <2>5, <2>7, <2>8, WriterWalks
<1> HIDE DEF t
<1> QED
  BY <1>2, <1>5, <1>6, <1>7, <1>8

\* reserve, after the eviction pass
LEMMA RetryReserveStep ==
  ASSUME IndInv, NEW b \in Buffers, RetryReserve(b)
  PROVE  IndInv' /\ StreamStep
<1> DEFINE t == Writer(b)
           v == wr[b]
           w == [v EXCEPT !.cands = {}, !.need = 0]
           r == At("refused")
<1>1. /\ th[t].pc = "evict" /\ wr' = [wr EXCEPT ![b].cands = {}, ![b].need = 0] /\ buf' = buf /\ fl' = fl
      /\ \/ Fits(b) /\ Reserve(b)
         \/ th' = [th EXCEPT ![t] = r] /\ budget' = budget
  BY DEF RetryReserve, Goto
<1>2. WriterFit(buf[b], v, "evict") /\ th[t].pc \notin {"append", "release", "sleep", "budgetSleep"}
  BY <1>1, WriterNow
<1>3. wr \in [Buffers -> WriteLocals] /\ v \in WriteLocals
  BY TypeParts DEF IndInv
<1>4. wr' = [wr EXCEPT ![b] = w]
  BY <1>1, <1>3 DEF WriteLocals
<1> HIDE DEF v
<1>5. w \in WriteLocals /\ w.rest = v.rest /\ w.chunk = v.chunk /\ w.cands = {}
  <2> DEFINE none == {}
             zero == 0
  <2>1. none \in SUBSET Buffers /\ zero \in Int /\ w = [v EXCEPT !.cands = none, !.need = zero]
    OBVIOUS
  <2> HIDE DEF none, zero, w
  <2>2. w \in WriteLocals /\ w.rest = v.rest /\ w.chunk = v.chunk /\ w.cands = none
    BY <1>3, <2>1 DEF WriteLocals
  <2> QED
    BY <2>2 DEF none
<1> HIDE DEF w
<1>6. CASE Fits(b) /\ Reserve(b)
  BY <1>1, <1>4, <1>5, <1>6, WriterReserves DEF v
<1>7. CASE th' = [th EXCEPT ![t] = r] /\ budget' = budget
  <2>1. WriterFit(buf[b], w, "refused")
    BY <1>2, <1>5 DEF WriterFit, Midway
  <2>2. r \in Recs /\ Legal("writer", r) /\ PlaceOf(r) = "refused" /\ r.rel = 0 /\ r.pc # "append"
    BY WriterPlaces
  <2>3. WriterFit(buf[b], w, PlaceOf(r))
    BY <2>1, <2>2
  <2> HIDE DEF r
  <2> QED
    BY <1>1, <1>2, <1>4, <1>5, <1>7, <2>2, <2>3, WriterWalks
<1> QED
  BY <1>1, <1>6, <1>7

\* A drop leaves every consumer its place in the stream.
LEMMA KeptGentle ==
  ASSUME NEW B, NEW D, \A c \in Consumers : Kept(B.cons[c], D.cons[c])
  PROVE  \A c \in Consumers : Gentle(B, D, c) /\ Still(B.cons[c], D.cons[c])
BY DEF Kept, Gentle, Still

\* A chunk was added to the pump's buffer.
LEMMA GrownFits ==
  ASSUME IndInv, NEW b \in Buffers, NEW D, Grown(buf[b], D), ~buf[b].sealed, D.resident <= Capacity,
         PolicyFit(b, D), buf' = [buf EXCEPT ![b] = D]
  PROVE  BufferStep(Writer(b), b, D) /\ buf'[b] = D /\ D.resident \in Nat
<1>1. buf \in [Buffers -> BufferStates] /\ Writer(b)[2] = b
  BY WriterNow, TypeParts DEF IndInv
<1>2. BufferOK(D) /\ D.nextSeq = buf[b].nextSeq + 1 /\ D.closed = buf[b].closed /\ D.sealed = buf[b].sealed
      /\ \A c \in Consumers : Gentle(buf[b], D, c) /\ Still(buf[b].cons[c], D.cons[c])
  BY KeptGentle DEF Grown
<1>3. Life(buf[b], D) /\ Advances(buf[b], D)
  BY <1>2 DEF Life, Advances
<1>4. D.resident \in Nat
  BY <1>2 DEF BufferOK, BufferStates
<1> QED
  BY <1>1, <1>2, <1>3, <1>4 DEF BufferStep

\* A pump dropped queued chunks of a buffer that may drop.
LEMMA DroppedFits ==
  ASSUME IndInv, NEW a \in Buffers, NEW b \in Buffers, Overflow[b] = "drop", NEW D, Dropped(buf[b], D),
         buf' = [buf EXCEPT ![b] = D]
  PROVE  /\ BufferStep(Writer(a), b, D) /\ buf'[b] = D /\ D.resident \in Nat
         /\ D.resident <= buf[b].resident /\ D.nextSeq = buf[b].nextSeq
         /\ buf[b].resident \in Nat /\ buf[b].resident - D.resident \in Nat
         /\ \A c \in Consumers : buf[b].cons[c].done => D.cons[c].done
<1>1. buf \in [Buffers -> BufferStates] /\ Writer(a)[1] = "writer"
  BY WriterNow, TypeParts DEF IndInv
<1>2. /\ BufferOK(D) /\ D.resident <= buf[b].resident
      /\ D.nextSeq = buf[b].nextSeq /\ D.closed = buf[b].closed /\ D.sealed = buf[b].sealed
      /\ \A c \in Consumers : Gentle(buf[b], D, c) /\ Still(buf[b].cons[c], D.cons[c])
  BY KeptGentle DEF Dropped
<1>3. Life(buf[b], D) /\ Advances(buf[b], D) /\ PolicyFit(b, D)
  BY <1>2 DEF Life, Advances, PolicyFit
<1>4. D.resident \in Nat /\ buf[b].resident \in Nat /\ buf[b].resident <= Capacity
  BY <1>2, BufferNow DEF BufferOK, BufferStates
<1>5. D.resident <= Capacity
  BY <1>2, <1>4, Bounds
<1>6. \A c \in Consumers : buf[b].cons[c].done => D.cons[c].done
  BY <1>2 DEF Gentle
<1>7. buf[b].resident - D.resident \in Nat
  BY <1>2, <1>4
<1> QED
  BY <1>1, <1>2, <1>3, <1>4, <1>5, <1>6, <1>7 DEF BufferStep

\* The incoming chunk is dropped: the rest of the payload follows.
LEMMA IncomingGoes ==
  ASSUME IndInv, NEW b \in Buffers, th[Writer(b)].pc \in {"local", "refused"}, Overflow[b] = "drop",
         ~buf[b].closed, ~buf[b].sealed, NEW E, Grown(buf[b], E), E.resident <= buf[b].resident,
         AdvancePayload(b), fl' = fl, budget' = budget,
         UnlockBroadcast(Writer(b), b, E, ReleaseThen(buf[b].resident - E.resident, NextChunk(b)))
  PROVE  IndInv' /\ StreamStep
<1> DEFINE t == Writer(b)
           B == buf[b]
           n == B.resident - E.resident
           pc == NextChunk(b)
           r == ReleaseThen(n, pc)
<1>1. th' = [CondBroadcast(b) EXCEPT ![t] = r] /\ buf' = [buf EXCEPT ![b] = E]
  BY DEF UnlockBroadcast
<1>2. t \in Threads /\ t[1] = "writer" /\ t[2] = b /\ "writer" \in Kinds /\ th[t].rel = 0
      /\ WriterFit(B, wr[b], th[t].pc) /\ th[t].pc # "append"
  BY WriterNow
<1>3. /\ 1 <= wr[b].chunk /\ wr[b].chunk <= wr[b].rest /\ B.nextSeq + wr[b].rest <= MaxSeq
      /\ \A k \in wr[b].cands : Overflow[k] = "drop"
  BY <1>2 DEF WriterFit, Midway
<1>4. B.resident \in Nat /\ B.resident <= Capacity /\ B.nextSeq \in Nat /\ wr[b].chunk \in Nat /\ wr[b].rest \in Nat
  BY BufferNow
<1>5. PICK w : Advanced(b, w)
  BY <1>3, PayloadAdvances
<1>6. pc \in {"local", "idle"}
  BY <1>3, PayloadAdvances
<1>7. E.resident \in Nat /\ E.nextSeq = B.nextSeq + 1
  BY DEF Grown, BufferOK, BufferStates
<1>8. n \in Nat /\ E.resident <= Capacity
  BY <1>4, <1>7, Bounds
<1>9. BufferStep(t, b, E) /\ buf'[b] = E
  <2>1. PolicyFit(b, E)
    BY DEF PolicyFit
  <2> QED
    BY <1>1, <1>8, <2>1, GrownFits
<1>10. w \in WriteLocals /\ wr' = [wr EXCEPT ![b] = w] /\ WriterFit(E, w, pc)
  <2>1. E.nextSeq \in Nat /\ E.nextSeq + (wr[b].rest - wr[b].chunk) <= MaxSeq
    BY <1>3, <1>4, <1>7, Bounds
  <2> QED
    BY <1>5, <2>1 DEF Advanced
<1>11. r \in Recs /\ Legal("writer", r) /\ PlaceOf(r) = pc /\ r.rel = n /\ r.pc # "append"
  <2>1. pc \in Releasing["writer"]
    BY <1>6 DEF Releasing
  <2> HIDE DEF n, pc
  <2> QED
    BY <1>2, <1>8, <2>1, GoingReleases
<1> HIDE DEF r, t
<1>12. Moves(t, r)
  BY <1>1, <1>2, <1>11, MovesBroadcast
<1>13. WriterFit(buf'[b], w, PlaceOf(r))
  BY <1>9, <1>10, <1>11
<1>14. PlaceStep(t, r)
  BY <1>10, <1>11, <1>12, <1>13, WriterPlace DEF t
<1> QED
  BY <1>2, <1>9, <1>11, <1>14, Touches

\* The loop of writeChunk drops queued chunks or, when that frees nothing, the
\* incoming one.
LEMMA DropLocalStep ==
  ASSUME IndInv, NEW b \in Buffers, DropLocal(b)
  PROVE  IndInv' /\ StreamStep
<1> DEFINE t == Writer(b)
           B == buf[b]
           D == DropOldest(B, wr[b].chunk)
           n == B.resident - D.resident
           E == DropIncoming(D, wr[b].chunk)
           r == ReleaseThen(n, "local")
<1>1. th[t].pc = "local" /\ Overflow[b] = "drop" /\ AcceptingOutput(B) /\ fl' = fl /\ budget' = budget
  BY DEF DropLocal, LocallyFull
<1>2. IF n > 0 THEN th' = [th EXCEPT ![t] = r] /\ buf' = [buf EXCEPT ![b] = D] /\ wr' = wr
      ELSE /\ UnlockBroadcast(t, b, E, ReleaseThen(D.resident - E.resident, NextChunk(b)))
           /\ AdvancePayload(b)
  BY DEF DropLocal, Unlock
<1>3. t \in Threads /\ t[1] = "writer" /\ t[2] = b /\ "writer" \in Kinds /\ th[t].rel = 0
      /\ WriterFit(B, wr[b], "local") /\ th[t].pc # "append"
  BY <1>1, WriterNow
<1>4. BufferOK(B) /\ B.resident \in Nat /\ wr[b].chunk \in Nat /\ wr[b].chunk \in Int /\ B.nextSeq \in Nat
      /\ wr[b].chunk \in 0..ChunkBytes /\ wr[b] \in WriteLocals /\ wr[b].rest \in Nat
  BY BufferNow
<1>5. Dropped(B, D)
  BY <1>4, OldestDropped
<1>6. ~B.closed /\ ~B.sealed
  BY <1>1 DEF AcceptingOutput
<1>7. CASE n > 0
  <2>1. th' = [th EXCEPT ![t] = r] /\ buf' = [buf EXCEPT ![b] = D] /\ wr' = wr
    BY <1>2, <1>7
  <2> HIDE DEF D
  <2>2. BufferStep(t, b, D) /\ buf'[b] = D /\ D.nextSeq = B.nextSeq /\ n \in Nat
        /\ \A c \in Consumers : B.cons[c].done => D.cons[c].done
    BY <1>1, <1>5, <2>1, DroppedFits
  <2>3. r \in Recs /\ Legal("writer", r) /\ PlaceOf(r) = "local" /\ r.rel = n /\ r.pc # "append"
    <3>1. "local" \in Releasing["writer"]
      BY DEF Releasing
    <3> HIDE DEF n
    <3> QED
      BY <1>3, <2>2, <3>1, GoingReleases
  <2> HIDE DEF r, t
  <2>4. Moves(t, r)
    BY <1>3, <2>1, <2>3, MovesAlone
  <2>5. WriterFit(D, wr[b], "local")
    BY <1>3, <2>2 DEF WriterFit
  <2>6. wr' = [wr EXCEPT ![b] = wr[b]] /\ WriterFit(buf'[b], wr[b], PlaceOf(r))
    BY <2>1, <2>2, <2>3, <2>5, SameLocals
  <2>7. PlaceStep(t, r)
    BY <1>4, <2>3, <2>4, <2>6, WriterPlace DEF t
  <2> QED
    BY <1>1, <1>3, <2>2, <2>3, <2>7, Touches
<1>8. CASE ~(n > 0)
  <2>1. UnlockBroadcast(t, b, E, ReleaseThen(D.resident - E.resident, NextChunk(b))) /\ AdvancePayload(b)
    BY <1>2, <1>8
  <2> HIDE DEF D, E
  <2>2. /\ BufferOK(D) /\ D.resident <= B.resident /\ D.nextSeq = B.nextSeq /\ D.closed = B.closed
        /\ D.sealed = B.sealed /\ \A c \in Consumers : Kept(B.cons[c], D.cons[c])
    BY <1>5 DEF Dropped
  <2>3. D.resident \in Nat
    BY <2>2 DEF BufferOK, BufferStates
  <2>4. D.resident = B.resident
    BY <1>4, <1>8, <2>2, <2>3
  <2>5. D.nextSeq < MaxSeq
    <3>1. 1 <= wr[b].chunk /\ wr[b].chunk <= wr[b].rest /\ B.nextSeq + wr[b].rest <= MaxSeq
      BY <1>3 DEF WriterFit, Midway
    <3> QED
      BY <1>4, <2>2, <3>1, Bounds
  <2>6. Grown(D, E) /\ E.resident <= D.resident
    BY <1>4, <1>6, <2>2, <2>5, IncomingDropped DEF E
  <2>7. Grown(B, E) /\ E.resident <= B.resident
    <3>1. \A c \in Consumers : Kept(B.cons[c], E.cons[c])
      BY <2>2, <2>6 DEF Grown, Kept
    <3> QED
      BY <2>2, <2>4, <2>6, <3>1 DEF Grown
  <2>8. UnlockBroadcast(t, b, E, ReleaseThen(B.resident - E.resident, NextChunk(b)))
    BY <2>1, <2>4
  <2> QED
    BY <1>1, <1>6, <2>1, <2>7, <2>8, IncomingGoes
<1> QED
  BY <1>7, <1>8

\* dropForAggregate, for one buffer of the eviction pass
LEMMA EvictStep ==
  ASSUME IndInv, NEW b \in Buffers, NEW k \in Buffers, Evict(b, k)
  PROVE  IndInv' /\ StreamStep
<1> DEFINE t == Writer(b)
           v == wr[b]
           D == DropOldest(buf[k], v.need)
           n == buf[k].resident - D.resident
           r == ReleaseThen(n, "evict")
           cands == v.cands \ {k}
           need == v.need - n
           w == [v EXCEPT !.cands = cands, !.need = need]
<1>1. /\ th[t].pc = "evict" /\ k \in v.cands /\ th' = [CondBroadcast(k) EXCEPT ![t] = r]
      /\ buf' = [buf EXCEPT ![k] = D] /\ fl' = fl /\ budget' = budget
      /\ wr' = [wr EXCEPT ![b].cands = @ \ {k}, ![b].need = @ - n]
  BY DEF Evict, UnlockBroadcast
<1>2. t \in Threads /\ t[1] = "writer" /\ t[2] = b /\ "writer" \in Kinds /\ th[t].rel = 0
      /\ WriterFit(buf[b], v, "evict") /\ th[t].pc # "append"
  BY <1>1, WriterNow
<1>3. wr \in [Buffers -> WriteLocals] /\ v \in WriteLocals /\ buf \in [Buffers -> BufferStates]
  BY TypeParts DEF IndInv
<1>4. v.need \in Int /\ v.cands \in SUBSET Buffers /\ v.chunk \in Nat
  BY <1>3, Bounds DEF WriteLocals
<1>5. Dropped(buf[k], D)
  BY <1>4, BufferNow, OldestDropped
<1>6. Overflow[k] = "drop"
  BY <1>1, <1>2 DEF WriterFit
<1> HIDE DEF D
<1>7. /\ BufferStep(t, k, D) /\ buf'[k] = D /\ D.resident \in Nat
      /\ D.resident <= buf[k].resident /\ D.nextSeq = buf[k].nextSeq /\ n \in Nat
      /\ \A c \in Consumers : buf[k].cons[c].done => D.cons[c].done
  BY <1>1, <1>5, <1>6, DroppedFits
<1>8. cands \in SUBSET Buffers /\ need \in Int
  BY <1>4, <1>7
<1> HIDE DEF n
<1>9. wr' = [wr EXCEPT ![b] = w]
  BY <1>1, <1>3 DEF WriteLocals
<1>10. w \in WriteLocals /\ w.rest = v.rest /\ w.chunk = v.chunk /\ w.cands = cands
  <2> HIDE DEF cands, need, v
  <2> QED
    BY <1>3, <1>8 DEF WriteLocals
<1>11. r \in Recs /\ Legal("writer", r) /\ PlaceOf(r) = "evict" /\ r.rel = n /\ r.pc # "append"
  <2>1. "evict" \in Releasing["writer"]
    BY DEF Releasing
  <2> QED
    BY <1>2, <1>7, <2>1, GoingReleases
<1> HIDE DEF r, t, w
<1>12. Moves(t, r)
  BY <1>1, <1>2, <1>11, MovesBroadcast
<1>13. buf'[b].nextSeq = buf[b].nextSeq /\ buf'[b].resident <= buf[b].resident /\ buf'[b].resident \in Nat
       /\ buf[b].resident \in Nat
  <2>1. buf[b].resident \in Nat
    BY BufferNow
  <2>2. CASE b = k
    BY <1>7, <2>1, <2>2
  <2>3. CASE b # k
    BY <1>1, <1>3, <2>1, <2>3
  <2> QED
    BY <2>2, <2>3
<1>14. WriterFit(buf'[b], w, "evict")
  <2>1. /\ 1 <= v.chunk /\ v.chunk <= v.rest /\ v.chunk <= Capacity
        /\ buf[b].nextSeq + v.rest <= MaxSeq /\ \A a \in v.cands : Overflow[a] = "drop"
    BY <1>2 DEF WriterFit, Midway
  <2>2. buf[b].resident + v.chunk <= Capacity
    BY <1>2 DEF WriterFit
  <2>3. buf'[b].resident + v.chunk <= Capacity
    BY <1>4, <1>13, <2>2, Bounds
  <2>4. \A a \in cands : Overflow[a] = "drop"
    BY <2>1
  <2> HIDE DEF cands, v
  <2> QED
    BY <1>10, <1>13, <2>1, <2>3, <2>4 DEF WriterFit
<1>15. WriterFit(buf'[b], w, PlaceOf(r))
  BY <1>11, <1>14
<1>16. PlaceStep(t, r)
  BY <1>9, <1>10, <1>11, <1>12, <1>15, WriterPlace DEF t
<1> QED
  BY <1>1, <1>2, <1>7, <1>11, <1>16, Touches DEF n

\* writeChunk after reserve returned false
LEMMA RefusedStep ==
  ASSUME IndInv, NEW b \in Buffers, Refused(b)
  PROVE  IndInv' /\ StreamStep
<1> DEFINE t == Writer(b)
           B == buf[b]
           E == DropIncoming(B, wr[b].chunk)
<1>1. th[t].pc = "refused" /\ fl' = fl /\ budget' = budget
  BY DEF Refused
<1>2. \/ Goto(t, "seal") /\ buf' = buf /\ wr' = wr
      \/ /\ ~B.closed /\ ~B.sealed /\ Overflow[b] = "drop"
         /\ UnlockBroadcast(t, b, E, ReleaseThen(B.resident - E.resident, NextChunk(b)))
         /\ AdvancePayload(b)
  BY DEF Refused
<1>3. WriterFit(B, wr[b], "refused")
  BY <1>1, WriterNow
<1>4. CASE Goto(t, "seal") /\ buf' = buf /\ wr' = wr
  BY <1>1, <1>4, WriterSeals
<1>5. ASSUME ~B.closed, ~B.sealed, Overflow[b] = "drop",
             UnlockBroadcast(t, b, E, ReleaseThen(B.resident - E.resident, NextChunk(b))),
             AdvancePayload(b)
      PROVE  IndInv' /\ StreamStep
  <2>1. BufferOK(B) /\ wr[b].chunk \in Nat /\ B.nextSeq \in Nat /\ wr[b].chunk \in 0..ChunkBytes /\ wr[b].rest \in Nat
    BY BufferNow
  <2>2. B.nextSeq < MaxSeq
    <3>1. 1 <= wr[b].chunk /\ wr[b].chunk <= wr[b].rest /\ B.nextSeq + wr[b].rest <= MaxSeq
      BY <1>3 DEF WriterFit, Midway
    <3> QED
      BY <2>1, <3>1, Bounds
  <2>3. Grown(B, E) /\ E.resident <= B.resident
    BY <1>5, <2>1, <2>2, IncomingDropped
  <2> HIDE DEF E
  <2> QED
    BY <1>1, <1>5, <2>3, IncomingGoes
<1> QED
  BY <1>2, <1>4, <1>5

\* writeChunk after reserve returned true: the reservation is used or returned.
LEMMA AppendChunkStep ==
  ASSUME IndInv, NEW b \in Buffers, AppendChunk(b)
  PROVE  IndInv' /\ StreamStep
<1> DEFINE t == Writer(b)
           B == buf[b]
           m == wr[b].chunk
           A == AssignChunk(B, m)
           mask == {c \in Consumers : B.cons[c].active /\ ~Gapped(B.cons[c])}
           D == LinkNode(A, mask)
           freed == B.resident - A.resident
           unused == IF mask = {} THEN m ELSE 0
           pc == NextChunk(b)
<1>1. th[t].pc = "append" /\ fl' = fl /\ budget' = budget
  BY DEF AppendChunk
<1>2. \/ th' = [th EXCEPT ![t] = ReleaseThen(m, "seal")] /\ buf' = buf /\ wr' = wr
      \/ /\ ~B.closed /\ ~B.sealed
         /\ UnlockBroadcast(t, b, D, ReleaseThen(unused + freed, pc))
         /\ AdvancePayload(b)
  BY DEF AppendChunk
<1>3. t \in Threads /\ t[1] = "writer" /\ t[2] = b /\ "writer" \in Kinds /\ th[t].rel = 0
      /\ WriterFit(B, wr[b], "append")
  BY <1>1, WriterNow
<1>4. /\ 1 <= m /\ m <= wr[b].rest /\ m <= Capacity /\ B.nextSeq + wr[b].rest <= MaxSeq
      /\ B.resident + m <= Capacity /\ \A k \in wr[b].cands : Overflow[k] = "drop"
  BY <1>3 DEF WriterFit, Midway
<1>5. BufferOK(B) /\ B.resident \in Nat /\ m \in Nat /\ B.nextSeq \in Nat /\ m \in 0..ChunkBytes
      /\ wr[b].rest \in Nat /\ wr[b] \in WriteLocals /\ PolicyFit(b, B)
  BY BufferNow
<1>6. budget \in BudgetStates /\ budget.resident \in Nat /\ budget.resident <= MaxBytes
  BY TypeParts DEF IndInv, BudgetStates
<1>7. HeldBy(B, wr[b], th[t]) = B.resident + m
  BY <1>1 DEF HeldBy
<1>8. ASSUME th' = [th EXCEPT ![t] = ReleaseThen(m, "seal")], buf' = buf, wr' = wr
      PROVE  IndInv' /\ StreamStep
  <2> DEFINE r == ReleaseThen(m, "seal")
  <2>1. r \in Recs /\ Legal("writer", r) /\ PlaceOf(r) = "seal" /\ r.rel = m /\ r.pc # "append"
    <3>1. "seal" \in Releasing["writer"]
      BY DEF Releasing
    <3> QED
      BY <1>3, <1>5, <3>1, GoingReleases
  <2>2. th' = [th EXCEPT ![t] = r]
    BY <1>8
  <2> HIDE DEF r
  <2>3. Moves(t, r)
    BY <1>3, <2>1, <2>2, MovesAlone
  <2>4. WriterFit(B, wr[b], "seal")
    BY <1>3 DEF WriterFit, Midway
  <2>5. wr' = [wr EXCEPT ![b] = wr[b]] /\ WriterFit(buf'[b], wr[b], PlaceOf(r))
    BY <1>8, <2>1, <2>4, SameLocals
  <2>6. PlaceStep(t, r)
    BY <1>5, <2>1, <2>3, <2>5, WriterPlace
  <2>7. BufferStep(t, b, B)
    BY <1>3, <1>8, BufferUntouched
  <2>8. MoneyStep(t, r, b)
    <3>1. th'[t] = r
      BY <2>3 DEF Moves
    <3>2. HeldBy(buf'[b], wr'[b], th'[t]) = B.resident
      BY <1>5, <1>8, <2>1, <3>1 DEF HeldBy
    <3>3. budget'.resident + HeldBy(B, wr[b], th[t]) + th[t].rel
            = budget.resident + HeldBy(buf'[b], wr'[b], th'[t]) + r.rel
      BY <1>1, <1>3, <1>5, <1>6, <1>7, <2>1, <3>2
    <3> QED
      BY <1>1, <1>3, <1>6, <3>3 DEF MoneyStep
  <2> QED
    BY <1>1, <1>3, <2>1, <2>6, <2>7, <2>8, NoFlush, StepFits
<1>9. ASSUME ~B.closed, ~B.sealed, UnlockBroadcast(t, b, D, ReleaseThen(unused + freed, pc)),
             AdvancePayload(b)
      PROVE  IndInv' /\ StreamStep
  <2> DEFINE n == unused + freed
             r == ReleaseThen(n, pc)
  <2>1. th' = [CondBroadcast(b) EXCEPT ![t] = r] /\ buf' = [buf EXCEPT ![b] = D]
    BY <1>9 DEF UnlockBroadcast
  <2>2. B.nextSeq < MaxSeq
    BY <1>4, <1>5, Bounds
  <2> HIDE DEF B, m
  <2>3. mask = {c \in Consumers : B.cons[c].active /\ ~Gapped(B.cons[c])}
    OBVIOUS
  <2>4. A = AssignChunk(B, m) /\ D = LinkNode(A, mask)
    OBVIOUS
  <2> HIDE DEF A, D, mask
  <2>5. /\ Grown(B, D)
        /\ A.resident \in Nat /\ A.resident <= B.resident
        /\ D.resident = A.resident + IF mask = {} THEN 0 ELSE m
        /\ \A c \in mask : D.cons[c].gap = B.cons[c].gap
    BY <1>5, <1>9, <2>2, <2>3, <2>4, ChunkAppended
  <2>6. D.resident \in Nat /\ n \in Nat /\ D.resident <= Capacity /\ D.resident + n = B.resident + m
    <3>1. CASE mask = {}
      BY <1>4, <1>5, <2>5, <3>1, Bounds
    <3>2. CASE mask # {}
      BY <1>4, <1>5, <2>5, <3>2, Bounds
    <3> QED
      BY <3>1, <3>2
  <2>7. PolicyFit(b, D)
    <3>1. SUFFICES ASSUME Overflow[b] = "block", NEW c \in Enabled
                   PROVE  D.cons[c].acked = {} /\ D.cons[c].gapFly = {} /\ D.cons[c].gap = {}
      BY DEF PolicyFit
    <3>2. B.cons[c].acked = {} /\ B.cons[c].gapFly = {} /\ B.cons[c].gap = {} /\ c \in Consumers
      BY <1>5, <1>9, <3>1, EnabledConsumers DEF PolicyFit
    <3>3. Kept(B.cons[c], D.cons[c]) /\ ConsumerOK(D, c) /\ ConsumerOK(B, c) /\ D.closed = B.closed
      BY <1>5, <2>5, <3>2 DEF Grown, BufferOK
    <3>4. CASE B.cons[c].unavailable
      <4>1. D.cons[c].unavailable
        BY <3>3, <3>4 DEF Kept
      <4> QED
        BY <3>2, <3>3, <4>1 DEF ConsumerOK, Dead, Kept
    <3>5. CASE ~B.cons[c].unavailable
      <4>1. B.cons[c].active /\ ~Gapped(B.cons[c])
        BY <1>9, <3>2, <3>3, <3>5 DEF ConsumerOK, Gapped
      <4>2. c \in mask
        BY <3>2, <4>1 DEF mask
      <4> QED
        BY <2>5, <3>2, <3>3, <4>2 DEF Kept
    <3> QED
      BY <3>4, <3>5
  <2>8. BufferStep(t, b, D) /\ buf'[b] = D
    BY <1>9, <2>1, <2>5, <2>6, <2>7, GrownFits DEF B
  <2>9. PICK w : Advanced(b, w)
    BY <1>4, <1>9, PayloadAdvances DEF m
  <2>10. pc \in {"local", "idle"}
    BY <1>4, <1>9, PayloadAdvances DEF m
  <2>11. w \in WriteLocals /\ wr' = [wr EXCEPT ![b] = w] /\ WriterFit(D, w, pc)
    <3>1. D.nextSeq = B.nextSeq + 1
      BY <2>5 DEF Grown
    <3>2. D.nextSeq \in Nat /\ D.nextSeq + (wr[b].rest - m) <= MaxSeq
      BY <1>4, <1>5, <3>1, Bounds
    <3> QED
      BY <2>9, <3>2 DEF Advanced, m
  <2>12. r \in Recs /\ Legal("writer", r) /\ PlaceOf(r) = pc /\ r.rel = n /\ r.pc # "append"
    <3>1. pc \in Releasing["writer"]
      BY <2>10 DEF Releasing
    <3> HIDE DEF n, pc
    <3> QED
      BY <1>3, <2>6, <3>1, GoingReleases
  <2> HIDE DEF r, n
  <2>13. Moves(t, r)
    BY <1>3, <2>1, <2>12, MovesBroadcast
  <2>14. WriterFit(buf'[b], w, PlaceOf(r))
    BY <2>8, <2>11, <2>12
  <2>15. PlaceStep(t, r)
    BY <2>11, <2>12, <2>13, <2>14, WriterPlace
  <2>16. MoneyStep(t, r, b)
    <3>1. th'[t] = r
      BY <2>13 DEF Moves
    <3>2. HeldBy(buf'[b], wr'[b], th'[t]) = D.resident
      BY <2>6, <2>8, <2>12, <3>1 DEF HeldBy
    <3>3. budget'.resident + HeldBy(buf[b], wr[b], th[t]) + th[t].rel
            = budget.resident + HeldBy(buf'[b], wr'[b], th'[t]) + r.rel
      BY <1>1, <1>3, <1>5, <1>6, <1>7, <2>6, <2>12, <3>2 DEF B
    <3> QED
      BY <1>1, <1>3, <1>6, <3>3 DEF MoneyStep
  <2> QED
    BY <1>1, <1>3, <2>8, <2>12, <2>15, <2>16, NoFlush, StepFits
<1> QED
  BY <1>2, <1>8, <1>9
-----------------------------------------------------------------------------
(* Flush, and the end of the pool.                                         *)

\* A step of a call of Flush.
LEMMA FlusherSteps ==
  ASSUME IndInv, NEW b \in Buffers, NEW c \in Enabled, NEW r \in Recs, Moves(Flusher(b, c), r),
         Legal("flusher", r), r.rel = th[Flusher(b, c)].rel,
         buf' = buf, wr' = wr, budget' = budget, FlushStep
  PROVE  IndInv' /\ StreamStep
<1> DEFINE t == Flusher(b, c)
<1>1. t \in Threads /\ t[1] = "flusher" /\ t[2] = b
  BY ThreadKinds
<1> HIDE DEF t
<1>2. /\ wr \in [Buffers -> WriteLocals] /\ budget \in BudgetStates /\ th \in [Threads -> Recs]
      /\ budget.resident <= MaxBytes /\ buf[b].resident \in Nat
  BY TypeParts, BufferNow DEF IndInv
<1>3. PlaceStep(t, r)
  BY <1>1, <1>2 DEF PlaceStep, t
<1>4. BufferStep(t, b, buf[b])
  BY <1>1, BufferUntouched
<1>5. budget'.resident + buf[b].resident + th[t].rel = budget.resident + buf'[b].resident + r.rel
  BY <1>1, <1>2 DEF t
<1>6. MoneyStep(t, r, b)
  BY <1>1, <1>2, <1>3, <1>5, Accounts
<1> QED
  BY <1>1, <1>3, <1>4, <1>6, StepFits

\* Flush returns nil when everything before the call has been completed; an
\* inactive consumer that has not failed belongs to a closed buffer.
LEMMA RoundFenced ==
  ASSUME IndInv, NEW b \in Buffers, NEW c \in Enabled, NEW n \in 0..MaxSeq,
         ~buf[b].cons[c].unavailable,
         ~buf[b].cons[c].active \/ buf[b].cons[c].completedSeq >= n
  PROVE  Fenced(buf[b], c, n)
<1> DEFINE cs == buf[b].cons[c]
<1>1. c \in Consumers /\ BufferOK(buf[b])
  BY EnabledConsumers, BufferNow
<1>2. ConsumerOK(buf[b], c) /\ cs \in ConsumerStates
  BY <1>1 DEF BufferOK, BufferStates
<1>3. (cs.active <=> ~buf[b].closed) /\ Spans(cs)
  BY <1>2 DEF ConsumerOK, Serving
<1>4. cs.completedSeq \in Nat /\ n \in Nat
  BY <1>2, Ends, Bounds
<1>5. CASE ~cs.active
  BY <1>3, <1>5 DEF Fenced
<1>6. CASE cs.completedSeq >= n
  <2>1. 1..n \subseteq 1..cs.completedSeq
    BY <1>4, <1>6
  <2>2. cs.ingested \cup cs.acked = 1..cs.completedSeq
    BY <1>3 DEF Spans
  <2> QED
    BY <2>1, <2>2 DEF Fenced
<1> QED
  BY <1>5, <1>6

LEMMA FlushRoundStep ==
  ASSUME IndInv, NEW b \in Buffers, NEW c \in Enabled, NEW n \in 0..MaxSeq, FlushRound(b, c, n),
         th[Flusher(b, c)].pc \in {"idle", "flush"}
  PROVE  IndInv' /\ StreamStep
<1> DEFINE cs == buf[b].cons[c]
           broken == cs.unavailable /\ ~cs.failurePending
           ready == ~cs.unavailable /\ (~cs.active \/ cs.completedSeq >= n)
           result == CASE broken -> "unavailable" [] ready -> "ok"
                       [] fl[b][c].ctxDone -> "cancelled" [] OTHER -> "none"
           r == IF result = "none" THEN Sleep("flush") ELSE At("end")
           t == Flusher(b, c)
<1>1. /\ fl' = [fl EXCEPT ![b][c].target = n, ![b][c].result = result]
      /\ th' = [th EXCEPT ![t] = r] /\ buf' = buf /\ wr' = wr /\ budget' = budget
  BY DEF FlushRound
<1>2. result \in {"none", "ok", "unavailable", "cancelled"} /\ (result = "ok" => ready)
  OBVIOUS
<1>3. r \in Recs /\ Legal("flusher", r) /\ r.rel = 0
  <2> HIDE DEF result
  <2>1. Sleep("flush") \in Recs /\ Legal("flusher", Sleep("flush")) /\ Sleep("flush").rel = 0
    BY DEF Sleep, Recs, Places, Legal, Sleeping
  <2>2. At("end") \in Recs /\ Legal("flusher", At("end")) /\ At("end").rel = 0
    BY DEF At, Recs, Places, Legal, Running
  <2> QED
    BY <2>1, <2>2
<1>4. result = "ok" => Fenced(buf[b], c, n)
  <2> HIDE DEF result
  <2>1. ready => Fenced(buf[b], c, n)
    BY RoundFenced
  <2> QED
    BY <1>2, <2>1
<1> HIDE DEF result, r
<1>5. t \in Threads /\ t[1] = "flusher"
  BY ThreadKinds
<1>6. th[t].rel = 0
  BY <1>5, OwnPlace
<1>7. fl \in [Buffers -> [Enabled -> FlushCalls]]
  BY TypeParts DEF IndInv
<1>8. FlushStep
  <2> DEFINE g == [fl[b][c] EXCEPT !.target = n, !.result = result]
  <2>1. g \in FlushCalls /\ g.target = n /\ g.result = result
    <3> DEFINE h == fl[b][c]
    <3>1. h \in FlushCalls
      BY <1>7
    <3> HIDE DEF h
    <3>2. [h EXCEPT !.target = n, !.result = result] \in FlushCalls
      BY <1>2, <3>1 DEF FlushCalls
    <3>3. [h EXCEPT !.target = n, !.result = result].target = n
          /\ [h EXCEPT !.target = n, !.result = result].result = result
      BY <3>1 DEF FlushCalls
    <3> QED
      BY <3>2, <3>3 DEF h
  <2>2. fl' = [fl EXCEPT ![b] = [fl[b] EXCEPT ![c] = g]]
    BY <1>1, <1>7
  <2> HIDE DEF g
  <2>3. fl' \in [Buffers -> [Enabled -> FlushCalls]]
    BY <1>7, <2>1, <2>2
  <2>4. fl'[b][c] = g /\ \A x \in Buffers, y \in Enabled : (x # b \/ y # c) => fl'[x][y] = fl[x][y]
    BY <1>7, <2>2
  <2> QED
    BY <1>4, <2>1, <2>3, <2>4 DEF FlushStep
<1>9. Moves(t, r)
  BY <1>1, <1>3, <1>5, MovesAlone
<1> QED
  BY <1>1, <1>3, <1>6, <1>8, <1>9, FlusherSteps

LEMMA StartFlushStep ==
  ASSUME IndInv, NEW b \in Buffers, NEW c \in Enabled, StartFlush(b, c)
  PROVE  IndInv' /\ StreamStep
<1>1. buf[b].nextSeq \in 0..MaxSeq
  BY BufferNow DEF BufferStates
<1> QED
  BY <1>1, FlushRoundStep DEF StartFlush

LEMMA ResumeFlushStep ==
  ASSUME IndInv, NEW b \in Buffers, NEW c \in Enabled, ResumeFlush(b, c)
  PROVE  IndInv' /\ StreamStep
<1>1. fl[b][c].target \in 0..MaxSeq
  BY TypeParts DEF IndInv, FlushCalls
<1> QED
  BY <1>1, FlushRoundStep DEF ResumeFlush

\* The end of a context wakes those that sleep on buffer.cond.
LEMMA CancelFlushStep ==
  ASSUME IndInv, NEW b \in Buffers, NEW c \in Enabled, CancelFlush(b, c)
  PROVE  IndInv' /\ StreamStep
<1> DEFINE t == Flusher(b, c)
           r == CondBroadcast(b)[t]
<1>1. t \in Threads /\ t[1] = "flusher" /\ th[t] \in Recs /\ Legal("flusher", th[t])
      /\ "flusher" \in Kinds
  BY ThreadKinds, OwnPlace DEF Kinds
<1>2. th' = CondBroadcast(b) /\ buf' = buf /\ wr' = wr /\ budget' = budget
      /\ fl' = [fl EXCEPT ![b][c].ctxDone = TRUE]
  BY DEF CancelFlush
<1> HIDE DEF t
<1>3. Follows(th[t], r)
  BY <1>1 DEF Follows, CondBroadcast
<1>4. r \in Recs /\ Legal("flusher", r) /\ r.rel = th[t].rel
  BY <1>1, <1>3, FollowsLegal
<1>5. th' = [CondBroadcast(b) EXCEPT ![t] = r]
  BY <1>1, <1>2 DEF CondBroadcast
<1> HIDE DEF r
<1>6. Moves(t, r)
  BY <1>1, <1>4, <1>5, MovesBroadcast
<1>7. fl \in [Buffers -> [Enabled -> FlushCalls]]
  BY TypeParts DEF IndInv
<1>8. FlushStep
  <2> DEFINE g == [fl[b][c] EXCEPT !.ctxDone = TRUE]
  <2>1. g \in FlushCalls /\ g.target = fl[b][c].target /\ g.result = fl[b][c].result
    <3> DEFINE h == fl[b][c]
    <3>1. h \in FlushCalls
      BY <1>7
    <3> HIDE DEF h
    <3>2. /\ [h EXCEPT !.ctxDone = TRUE] \in FlushCalls
          /\ [h EXCEPT !.ctxDone = TRUE].target = h.target
          /\ [h EXCEPT !.ctxDone = TRUE].result = h.result
      BY <3>1 DEF FlushCalls
    <3> QED
      BY <3>2 DEF h
  <2>2. fl' = [fl EXCEPT ![b] = [fl[b] EXCEPT ![c] = g]]
    BY <1>2, <1>7
  <2> HIDE DEF g
  <2>3. fl' \in [Buffers -> [Enabled -> FlushCalls]]
    BY <1>7, <2>1, <2>2
  <2>4. fl'[b][c] = g /\ \A x \in Buffers, y \in Enabled : (x # b \/ y # c) => fl'[x][y] = fl[x][y]
    BY <1>7, <2>2
  <2> QED
    BY <2>1, <2>3, <2>4 DEF FlushStep
<1> QED
  BY <1>2, <1>4, <1>6, <1>8, FlusherSteps DEF t

\* budget.close
LEMMA CloseBudgetStep ==
  ASSUME IndInv, CloseBudget, NEW b \in Buffers
  PROVE  IndInv' /\ StreamStep
<1> DEFINE t == Stopper(b)
           r == th[t]
<1>1. t \in Threads /\ t[1] = "stopper" /\ th[t].pc = "end"
  BY ThreadKinds DEF CloseBudget
<1>2. th' = BudgetBroadcast /\ buf' = buf /\ wr' = wr /\ fl' = fl
      /\ budget' = [budget EXCEPT !.closed = TRUE]
  BY DEF CloseBudget
<1> HIDE DEF t
<1>3. th[t] \in Recs /\ Legal(t[1], th[t]) /\ th[t].rel = 0 /\ OwnFit(t, PlaceOf(th[t]))
  BY <1>1, OwnPlace
<1>4. BudgetBroadcast[t] = r
  BY <1>1 DEF BudgetBroadcast
<1>5. th' = [BudgetBroadcast EXCEPT ![t] = r]
  BY <1>2, <1>4 DEF BudgetBroadcast
<1>6. budget \in BudgetStates
  BY TypeParts DEF IndInv
<1>7. budget' \in BudgetStates /\ budget'.resident = budget.resident
  BY <1>2, <1>6 DEF BudgetStates
<1>8. r \in Recs /\ Legal(t[1], r) /\ r.rel = 0 /\ OwnFit(t, PlaceOf(r)) /\ r.pc # "append"
  BY <1>1, <1>3
<1>9. th[t].pc \notin {"append", "release", "sleep", "budgetSleep"}
  BY <1>1
<1> HIDE DEF r
<1>10. Moves(t, r)
  BY <1>1, <1>5, <1>8, MovesBudget
<1> QED
  BY <1>1, <1>2, <1>7, <1>8, <1>9, <1>10, Walks
-----------------------------------------------------------------------------
(* The initial state.                                                      *)

\* A new consumer has been given nothing and is owed nothing.
LEMMA NewConsumerFits ==
  ASSUME NEW e \in BOOLEAN, NEW cs, cs = NewConsumer(e), NEW f
  PROVE  /\ cs \in ConsumerStates /\ cs.active = e /\ ~cs.unavailable /\ cs.pend = {}
         /\ cs.inFlight = 0 /\ cs.gapFly = {} /\ cs.acked = {} /\ cs.gap = {} /\ cs.done = ~e
         /\ Back(cs) = 0 /\ Serving(0, f, cs)
         /\ ~e => Dead(cs)
<1>1. /\ cs.active = e /\ cs.started = FALSE /\ cs.done = ~e /\ cs.next = 0 /\ cs.pend = {}
      /\ cs.inFlight = 0 /\ cs.inFlightLast = 0 /\ cs.batch = {} /\ cs.gap = {} /\ cs.gapSeq = 0
      /\ cs.gapFly = {} /\ cs.gapFlySeq = 0 /\ cs.completedSeq = 0 /\ cs.epoch = 0
      /\ cs.gapCount = 0 /\ cs.dropped = 0 /\ cs.unavailable = FALSE /\ cs.failed = {}
      /\ cs.failurePending = FALSE /\ cs.ingested = {} /\ cs.acked = {}
  BY DEF NewConsumer
<1>2. cs \in ConsumerStates
  BY Bounds DEF NewConsumer, ConsumerStates
<1>3. Front(cs) = 0 /\ Back(cs) = 0
  BY <1>1 DEF Front, Back
<1>4. Tidy(cs) /\ Spans(cs)
  BY <1>1, <1>3 DEF Tidy, Spans
<1>5. Counts(f, cs)
  <2>1. cs.acked \cup cs.gapFly \cup cs.gap = {}
    BY <1>1
  <2>2. Measure(f, cs.acked \cup cs.gapFly \cup cs.gap) = 0
    BY <2>1, MeasureEmpty
  <2> QED
    BY <1>1, <2>2 DEF Counts, OpenGaps
<1>6. Awaits(0, cs)
  BY <1>1, <1>3 DEF Awaits
<1> QED
  BY <1>1, <1>2, <1>3, <1>4, <1>5, <1>6 DEF Serving, Dead

LEMMA NewBufferFits ==
  ASSUME NEW B, B = NewBuffer
  PROVE  /\ BufferOK(B) /\ B.resident = 0 /\ B.nextSeq = 0
         /\ \A c \in Consumers : B.cons[c] = NewConsumer(c \in Enabled)
<1>1. /\ B.nodes = {} /\ B.size = [s \in Seqs |-> 0] /\ B.resident = 0 /\ B.nextSeq = 0
      /\ B.closed = FALSE /\ B.sealed = FALSE
      /\ B.cons = [c \in Consumers |-> NewConsumer(c \in Enabled)]
  BY DEF NewBuffer
<1>2. \A c \in Consumers : B.cons[c] = NewConsumer(c \in Enabled)
  BY <1>1
<1>3. ASSUME NEW c \in Consumers
      PROVE  B.cons[c] \in ConsumerStates /\ B.cons[c].pend = {} /\ ConsumerOK(B, c)
  <2> DEFINE cs == B.cons[c]
             e == c \in Enabled
  <2>1. e \in BOOLEAN /\ cs = NewConsumer(e)
    BY <1>2
  <2> HIDE DEF cs, e
  <2>2. /\ cs \in ConsumerStates /\ cs.active = e /\ ~cs.unavailable /\ cs.pend = {}
        /\ Back(cs) = 0 /\ Serving(0, B.size, cs) /\ (~e => Dead(cs))
    BY <2>1, NewConsumerFits
  <2>3. CASE e
    BY <1>1, <2>2, <2>3 DEF ConsumerOK, cs, e
  <2>4. CASE ~e
    BY <2>2, <2>4 DEF ConsumerOK, cs, e
  <2> QED
    BY <2>2, <2>3, <2>4 DEF cs
<1>4. B \in BufferStates
  <2>1. B.cons \in [Consumers -> ConsumerStates]
    BY <1>1, <1>3
  <2>2. B.size \in [Seqs -> 0..ChunkBytes] /\ B.nextSeq \in 0..MaxSeq
    BY <1>1, Bounds
  <2>3. \A g \in [Seqs -> 0..ChunkBytes], k \in [Consumers -> ConsumerStates] :
          [nodes |-> {}, size |-> g, resident |-> 0, nextSeq |-> 0, closed |-> FALSE,
           sealed |-> FALSE, cons |-> k] \in BufferStates
    BY Bounds DEF BufferStates
  <2>4. B = [nodes |-> {}, size |-> B.size, resident |-> 0, nextSeq |-> 0, closed |-> FALSE,
             sealed |-> FALSE, cons |-> B.cons]
    BY DEF NewBuffer
  <2> QED
    BY <2>1, <2>2, <2>3, <2>4
<1>5. Linked(B)
  <2>1. B.nodes = UNION {B.cons[c].pend : c \in Consumers}
    BY <1>1, <1>3
  <2>2. B.resident = Measure(B.size, B.nodes)
    BY <1>1, MeasureEmpty
  <2> QED
    BY <2>1, <2>2 DEF Linked
<1> QED
  BY <1>1, <1>2, <1>3, <1>4, <1>5 DEF BufferOK

\* Nothing has been reserved.
LEMMA NothingHeld ==
  ASSUME NEW f, \A x \in DOMAIN f : f[x] = 0
  PROVE  Total(f) = 0
<1>1. \A x \in DOMAIN f : {x} \X (1..f[x]) = {}
  OBVIOUS
<1>2. UNION {{x} \X (1..f[x]) : x \in DOMAIN f} = {}
  BY <1>1
<1> QED
  BY <1>2, FS_EmptySet DEF Total

LEMMA InitFits == Init => IndInv
<1> SUFFICES ASSUME Init PROVE IndInv
  OBVIOUS
<1>1. \A b \in Buffers : buf[b] = NewBuffer
  BY DEF Init
<1>2. \A b \in Buffers : /\ BufferOK(buf[b]) /\ buf[b].resident = 0 /\ buf[b].nextSeq = 0
                         /\ \A c \in Consumers : buf[b].cons[c] = NewConsumer(c \in Enabled)
  BY <1>1, NewBufferFits
<1>3. ASSUME NEW b \in Buffers, NEW c \in Enabled
      PROVE  /\ buf[b].cons[c].inFlight = 0 /\ buf[b].cons[c].gapFly = {}
             /\ buf[b].cons[c].acked = {} /\ buf[b].cons[c].gap = {} /\ ~buf[b].cons[c].done
  <2>1. c \in Consumers /\ TRUE \in BOOLEAN /\ (c \in Enabled) = TRUE
    BY EnabledConsumers
  <2>2. buf[b].cons[c] = NewConsumer(TRUE)
    BY <1>2, <2>1
  <2> QED
    BY <2>2, NewConsumerFits
<1>4. ASSUME NEW t \in Threads
      PROVE  /\ th[t] \in Recs /\ Legal(t[1], th[t]) /\ th[t].rel = 0
             /\ PlaceOf(th[t]) \in {"start", "idle"} /\ th[t].pc # "append"
             /\ t[1] = "runner" => PlaceOf(th[t]) = "start"
  <2> DEFINE pc == IF t[1] = "runner" THEN "start" ELSE "idle"
  <2>1. th[t] = At(pc)
    BY DEF Init
  <2>2. t[1] \in Kinds
    BY ThreadCases
  <2>3. pc \in Running[t[1]] /\ pc \in {"start", "idle"} /\ (t[1] = "runner" => pc = "start")
    BY <2>2 DEF Running, Kinds
  <2> HIDE DEF pc
  <2>4. At(pc) \in Recs /\ Legal(t[1], At(pc)) /\ PlaceOf(At(pc)) = pc /\ At(pc).rel = 0 /\ At(pc).pc = pc
    BY <2>2, <2>3, Going
  <2> QED
    BY <2>1, <2>3, <2>4
<1>5. TypeOK
  <2>1. buf \in [Buffers -> BufferStates]
    BY <1>2 DEF Init, BufferOK
  <2>2. th \in [Threads -> Recs]
    BY <1>4 DEF Init
  <2>3. wr \in [Buffers -> WriteLocals]
    <3>1. [rest |-> 0, chunk |-> 0, cands |-> {}, need |-> 0] \in WriteLocals
      BY Bounds DEF WriteLocals
    <3> QED
      BY <3>1 DEF Init
  <2>4. fl \in [Buffers -> [Enabled -> FlushCalls]]
    <3>1. [target |-> 0, ctxDone |-> FALSE, result |-> "none"] \in FlushCalls
      BY Bounds DEF FlushCalls
    <3> QED
      BY <3>1 DEF Init
  <2>5. budget \in BudgetStates
    BY DEF Init, BudgetStates
  <2> QED
    BY <2>1, <2>2, <2>3, <2>4, <2>5, TypeParts
<1>6. BuffersFit
  <2>1. SUFFICES ASSUME NEW b \in Buffers
                 PROVE  BufferOK(buf[b]) /\ buf[b].resident <= Capacity /\ PolicyFit(b, buf[b])
    BY DEF BuffersFit
  <2>2. PolicyFit(b, buf[b])
    BY <1>3 DEF PolicyFit
  <2> QED
    BY <1>2, <2>2, Bounds
<1>7. ThreadsFit
  BY <1>4 DEF ThreadsFit
<1>8. WritersFit
  <2>1. SUFFICES ASSUME NEW b \in Buffers
                 PROVE  WriterFit(buf[b], wr[b], PlaceOf(th[Writer(b)]))
    BY DEF WritersFit
  <2>2. Writer(b) \in Threads /\ wr[b].cands = {}
    BY ThreadKinds DEF Init
  <2>3. PlaceOf(th[Writer(b)]) \in {"start", "idle"}
    BY <1>4, <2>2
  <2> QED
    BY <2>2, <2>3 DEF WriterFit, Midway
<1>9. StoppersFit
  BY <1>4, ThreadKinds DEF StoppersFit, StopperFit
<1>10. RunnersFit
  <2>1. SUFFICES ASSUME NEW b \in Buffers, NEW c \in Enabled
                 PROVE  RunnerFit(c, buf[b], PlaceOf(th[Runner(b, c)]))
    BY DEF RunnersFit
  <2>2. PlaceOf(th[Runner(b, c)]) = "start"
    BY <1>4, ThreadKinds
  <2> QED
    BY <1>3, <2>2 DEF RunnerFit
<1>11. BudgetExact /\ budget.resident <= MaxBytes
  <2> DEFINE f == [b \in Buffers |-> Held(b)]
             h == [t \in Threads |-> th[t].rel]
  <2>1. \A b \in DOMAIN f : f[b] = 0
    BY <1>2, <1>4, ThreadKinds DEF Held
  <2>2. \A t \in DOMAIN h : h[t] = 0
    BY <1>4
  <2> HIDE DEF f, h
  <2>3. Total(f) = 0 /\ Total(h) = 0
    BY <2>1, <2>2, NothingHeld
  <2>4. budget.resident = 0
    BY DEF Init
  <2> QED
    BY <2>3, <2>4, Bounds DEF BudgetExact, f, h
<1>12. FlushFence
  BY DEF FlushFence, Init
<1> QED
  BY <1>5, <1>6, <1>7, <1>8, <1>9, <1>10, <1>11, <1>12 DEF IndInv
-----------------------------------------------------------------------------
(* Every step.                                                             *)

\* budget.close in a pool without buffers
LEMMA EmptyPool ==
  ASSUME IndInv, CloseBudget, Buffers = {}
  PROVE  IndInv' /\ StreamStep
<1>1. Threads = {}
  BY DEF Threads
<1>2. th \in [Threads -> Recs] /\ budget \in BudgetStates
  BY TypeParts DEF IndInv
<1>3. th' = BudgetBroadcast /\ buf' = buf /\ wr' = wr /\ fl' = fl
      /\ budget' = [budget EXCEPT !.closed = TRUE]
  BY DEF CloseBudget
<1>4. th' = th
  BY <1>1, <1>2, <1>3 DEF BudgetBroadcast
<1>5. budget' \in BudgetStates /\ budget'.resident = budget.resident
  BY <1>2, <1>3 DEF BudgetStates
<1>6. TypeOK'
  BY <1>3, <1>4, <1>5 DEF IndInv, TypeOK, BudgetStates
<1>7. BuffersFit' /\ ThreadsFit' /\ WritersFit' /\ StoppersFit' /\ RunnersFit' /\ FlushFence'
  BY <1>1 DEF BuffersFit, ThreadsFit, WritersFit, StoppersFit, RunnersFit, FlushFence
<1>8. BudgetExact' /\ (budget.resident <= MaxBytes)'
  BY <1>3, <1>4, <1>5 DEF IndInv, BudgetExact, Held
<1> QED
  BY <1>6, <1>7, <1>8 DEF IndInv, StreamStep

\* Every step keeps the invariant, and moves each stream in one of its ways.
LEMMA NextFits ==
  ASSUME IndInv, [Next]_vars
  PROVE  IndInv' /\ StreamStep
<1>1. ASSUME NEW b \in Buffers, WriterStep(b) PROVE IndInv' /\ StreamStep
  BY <1>1, WaitLocalStep, DropLocalStep, LeaveLocalStep, CheckAcceptingStep, TryReserveStep,
     EvictStep, RetryReserveStep, RefusedStep, AppendChunkStep, Zenon DEF WriterStep
<1>2. ASSUME NEW t \in Threads, CommonStep(t) PROVE IndInv' /\ StreamStep
  BY <1>2, ReleaseStep, SealStep, WakeStep, WaitStep, CloseStep, UnregisterStep, Zenon DEF CommonStep
<1>3. ASSUME NEW b \in Buffers, NEW c \in Enabled, RunnerStep(b, c) PROVE IndInv' /\ StreamStep
  BY <1>3, StartRunStep, TakeWorkStep, CompleteStep, HandleFailureStep, FinishRunStep, Zenon
     DEF RunnerStep
<1>4. ASSUME NEW b \in Buffers, NEW c \in Enabled, ResumeFlush(b, c) PROVE IndInv' /\ StreamStep
  BY <1>4, ResumeFlushStep
<1>5. ASSUME Environment PROVE IndInv' /\ StreamStep
  <2>1. ASSUME NEW b \in Buffers,
               (\E p \in Payloads : StartWrite(b, p)) \/ StopPump(b) \/ StartDrain(b) \/ StartAbort(b)
        PROVE  IndInv' /\ StreamStep
    BY <2>1, StartWriteStep, StopPumpStep, StopStarts, Zenon
  <2>2. ASSUME NEW b \in Buffers, NEW c \in Enabled, StartFlush(b, c) \/ CancelFlush(b, c)
        PROVE  IndInv' /\ StreamStep
    BY <2>2, StartFlushStep, CancelFlushStep, Zenon
  <2>3. ASSUME CloseBudget PROVE IndInv' /\ StreamStep
    <3>1. CASE Buffers = {}
      BY <2>3, <3>1, EmptyPool
    <3>2. CASE Buffers # {}
      <4>1. PICK b \in Buffers : TRUE
        BY <3>2
      <4> QED
        BY <2>3, <4>1, CloseBudgetStep
    <3> QED
      BY <3>1, <3>2
  <2> QED
    BY <1>5, <2>1, <2>2, <2>3, Zenon DEF Environment
<1>6. ASSUME UNCHANGED vars PROVE IndInv' /\ StreamStep
  <2>1. buf' = buf /\ th' = th /\ wr' = wr /\ fl' = fl /\ budget' = budget
    BY <1>6 DEF vars
  <2>2. IndInv'
    BY <2>1 DEF IndInv, TypeOK, BuffersFit, ThreadsFit, WritersFit, StoppersFit, RunnersFit,
                BudgetExact, Held, FlushFence
  <2>3. StreamStep
    BY <2>1 DEF StreamStep, Advances, Still
  <2> QED
    BY <2>2, <2>3
<1> QED
  BY <1>1, <1>2, <1>3, <1>4, <1>5, <1>6, Zenon DEF Next
-----------------------------------------------------------------------------
(* The theorems.                                                           *)

\* What makes every step of terminal_output_buffer.go safe: intervals per
\* consumer, a fitting place for every goroutine, and exact accounts.
THEOREM Invariance == Spec => []IndInv
<1>1. IndInv /\ [Next]_vars => IndInv'
  BY NextFits
<1> QED
  BY <1>1, InitFits, PTL DEF Spec

\* The buffers, the locals of the goroutines and the budget keep their types;
\* resident never goes below zero.
THEOREM TypeCorrect == Spec => []TypeOK
<1>1. IndInv => TypeOK
  BY DEF IndInv
<1> QED
  BY <1>1, Invariance, PTL

\* A consumer that has not failed.
LEMMA Served ==
  ASSUME IndInv, NEW b \in Buffers, NEW c \in Consumers,
         buf[b].cons[c].active \/ (c \in Enabled /\ ~buf[b].cons[c].unavailable)
  PROVE  /\ c \in Enabled /\ buf[b].cons[c] \in ConsumerStates /\ buf[b].nextSeq \in 0..MaxSeq
         /\ Serving(buf[b].nextSeq, buf[b].size, buf[b].cons[c])
         /\ ~buf[b].cons[c].unavailable
<1>1. BufferOK(buf[b]) /\ buf[b] \in BufferStates
  BY BufferNow
<1>2. ConsumerOK(buf[b], c) /\ buf[b].cons[c] \in ConsumerStates /\ buf[b].nextSeq \in 0..MaxSeq
  BY <1>1 DEF BufferOK, BufferStates
<1> QED
  BY <1>2 DEF ConsumerOK, Dead

\* What an active consumer is owed lies in order, without a hole: a gap is
\* announced before the first payload behind it.
THEOREM StreamCorrect == Spec => []StreamInOrder
<1>1. IndInv => StreamInOrder
  <2>1. SUFFICES ASSUME IndInv, NEW b \in Buffers, NEW c \in Consumers, buf[b].cons[c].active
                 PROVE  OwedInOrder(buf[b], buf[b].cons[c])
    BY DEF StreamInOrder
  <2> DEFINE cs == buf[b].cons[c]
             n == buf[b].nextSeq
  <2>2. cs \in ConsumerStates /\ n \in 0..MaxSeq /\ Tidy(cs) /\ Spans(cs) /\ Awaits(n, cs)
    BY <2>1, Served DEF Serving
  <2> HIDE DEF cs, n
  <2>3. cs.batch = {m \in cs.pend : InFlight(cs, m)} /\ Queued(cs) = (Back(cs) + 1)..n
    BY <2>2, Work
  <2>4. cs.batch \cup cs.gapFly = (cs.completedSeq + 1)..Front(cs) /\ cs.gap = (Front(cs) + 1)..Back(cs)
    BY <2>2 DEF Spans
  <2>5. OwedInOrder(buf[b], cs)
    BY <2>3, <2>4 DEF OwedInOrder, n
  <2> QED
    BY <2>5 DEF cs
<1> QED
  BY <1>1, Invariance, PTL

\* capacity_bytes and resident_budget_bytes are hard bounds, and resident
\* counts exactly the nodes somebody waits for.
THEOREM MemoryBounded == Spec => []BoundedMemory
<1>1. IndInv => BoundedMemory
  <2>1. SUFFICES ASSUME IndInv, NEW b \in Buffers
                 PROVE  /\ buf[b].resident = Bytes(buf[b], buf[b].nodes)
                        /\ buf[b].resident <= Capacity
                        /\ buf[b].nodes = UNION {buf[b].cons[c].pend : c \in Consumers}
    BY DEF BoundedMemory, IndInv
  <2>2. Linked(buf[b]) /\ buf[b].resident <= Capacity
    BY <2>1, BufferNow DEF BufferOK
  <2> QED
    BY <2>2 DEF Linked, Measure, Bytes
<1> QED
  BY <1>1, Invariance, PTL

\* The budget is exactly what the buffers, the reservations and the pending
\* releases of all goroutines add up to.
THEOREM BudgetCorrect == Spec => []BudgetExact
<1>1. IndInv => BudgetExact
  BY DEF IndInv
<1> QED
  BY <1>1, Invariance, PTL

\* Flush returns nil only behind everything that was written before it.
THEOREM FlushCorrect == Spec => []FlushFence
<1>1. IndInv => FlushFence
  BY DEF IndInv
<1> QED
  BY <1>1, Invariance, PTL

\* The gap that waits and the gap in flight are two, one or none.
LEMMA GapsOpen ==
  ASSUME NEW x, NEW y, x \cap y = {}
  PROVE  Cardinality({g \in {x, y} : g # {}})
           = (IF x = {} THEN 0 ELSE 1) + (IF y = {} THEN 0 ELSE 1)
<1> DEFINE G == {g \in {x, y} : g # {}}
<1> SUFFICES Cardinality(G) = (IF x = {} THEN 0 ELSE 1) + (IF y = {} THEN 0 ELSE 1)
  OBVIOUS
<1>1. \A g : g \in G <=> g # {} /\ (g = x \/ g = y)
  OBVIOUS
<1>2. Cardinality({}) = 0 /\ Cardinality({x}) = 1 /\ Cardinality({y}) = 1 /\ IsFiniteSet({x})
  BY FS_EmptySet, FS_Singleton
<1> HIDE DEF G
<1>3. CASE x = {} /\ y = {}
  <2>1. G = {}
    BY <1>1, <1>3
  <2> QED
    BY <1>2, <1>3, <2>1
<1>4. CASE x # {} /\ y = {}
  <2>1. G = {x}
    BY <1>1, <1>4
  <2> QED
    BY <1>2, <1>4, <2>1
<1>5. CASE x = {} /\ y # {}
  <2>1. G = {y}
    BY <1>1, <1>5
  <2> QED
    BY <1>2, <1>5, <2>1
<1>6. CASE x # {} /\ y # {}
  <2>1. G = {x} \cup {y} /\ y \notin {x}
    BY <1>1, <1>6
  <2>2. Cardinality({x} \cup {y}) = Cardinality({x}) + 1
    BY <1>2, <2>1, FS_AddElement
  <2> QED
    BY <1>2, <1>6, <2>1, <2>2
<1> QED
  BY <1>3, <1>4, <1>5, <1>6

\* The diagnostics of a consumer account for every chunk and for every gap.
THEOREM DiagnosticsCorrect == Spec => []DiagnosticsExact
<1>1. IndInv => DiagnosticsExact
  <2> SUFFICES ASSUME IndInv, NEW b \in Buffers, NEW c \in Enabled, ~buf[b].cons[c].unavailable
               PROVE  LET B == buf[b]
                          cs == B.cons[c]
                      IN  /\ cs.dropped = Bytes(B, cs.acked \cup cs.gapFly \cup cs.gap)
                          /\ cs.ingested \cup cs.acked \cup cs.gapFly \cup cs.gap \cup cs.pend
                               = 1..B.nextSeq
                          /\ cs.gapCount = cs.epoch + Cardinality({g \in {cs.gap, cs.gapFly} : g # {}})
    BY DEF DiagnosticsExact
  <2> DEFINE cs == buf[b].cons[c]
             n == buf[b].nextSeq
             D == cs.completedSeq
             F == Front(cs)
             K == Back(cs)
  <2>1. cs \in ConsumerStates /\ n \in 0..MaxSeq /\ Serving(n, buf[b].size, cs)
    BY EnabledConsumers, Served
  <2>2. Tidy(cs) /\ Spans(cs) /\ Awaits(n, cs) /\ Counts(buf[b].size, cs)
    BY <2>1 DEF Serving
  <2>3. D \in Nat /\ F \in Nat /\ K \in Nat /\ n \in Nat
    BY <2>1, Ends, Bounds
  <2>4. /\ D <= F /\ F <= K /\ K <= n /\ cs.batch \cup cs.gapFly = (D + 1)..F
        /\ cs.gap = (F + 1)..K /\ cs.ingested \cup cs.acked = 1..D
        /\ cs.pend = cs.batch \cup (K + 1)..n
    BY <2>2 DEF Spans, Awaits
  <2>5. cs.dropped = Bytes(buf[b], cs.acked \cup cs.gapFly \cup cs.gap)
    BY <2>2 DEF Counts, Measure, Bytes
  <2> HIDE DEF cs, n, D, F, K
  <2>6. cs.ingested \cup cs.acked \cup cs.gapFly \cup cs.gap \cup cs.pend = 1..n
    <3>1. 1..n = 1..D \cup (D + 1)..F \cup (F + 1)..K \cup (K + 1)..n
      BY <2>3, <2>4
    <3>2. cs.ingested \cup cs.acked \cup cs.gapFly \cup cs.gap \cup cs.pend
            = (cs.ingested \cup cs.acked) \cup (cs.batch \cup cs.gapFly) \cup cs.gap \cup (K + 1)..n
      BY <2>4
    <3> QED
      BY <2>4, <3>1, <3>2
  <2>7. cs.gap \cap cs.gapFly = {}
    <3>1. cs.gapFly \subseteq (D + 1)..F
      BY <2>4
    <3> QED
      BY <2>3, <2>4, <3>1
  <2>8. cs.gapCount = cs.epoch + Cardinality({g \in {cs.gap, cs.gapFly} : g # {}})
    <3>1. Cardinality({g \in {cs.gap, cs.gapFly} : g # {}}) = OpenGaps(cs)
      BY <2>7, GapsOpen DEF OpenGaps
    <3> QED
      BY <2>2, <3>1 DEF Counts
  <2> QED
    BY <2>5, <2>6, <2>8 DEF cs, n
<1> QED
  BY <1>1, Invariance, PTL

\* When a drain, or the pump, has waited for the consumers and nobody has
\* aborted the buffer, a consumer that did not fail has had everything.
THEOREM DrainCorrect == Spec => []DrainKeepsAccepted
<1>1. IndInv => DrainKeepsAccepted
  <2> SUFFICES ASSUME IndInv, NEW b \in Buffers, NEW c \in Enabled,
                      "close" \in {th[Stopper(b)].pc, th[Writer(b)].pc},
                      ~buf[b].closed, ~buf[b].cons[c].unavailable
               PROVE  /\ buf[b].cons[c].ingested \cup buf[b].cons[c].acked = 1..buf[b].nextSeq
                      /\ Overflow[b] = "block" => buf[b].cons[c].acked = {}
    BY DEF DrainKeepsAccepted
  <2> DEFINE cs == buf[b].cons[c]
  <2>1. c \in Consumers /\ Serving(buf[b].nextSeq, buf[b].size, cs)
    BY EnabledConsumers, Served
  <2>2. cs.done
    <3>1. CASE th[Stopper(b)].pc = "close"
      <4>1. PlaceOf(th[Stopper(b)]) = "close"
        BY <3>1 DEF PlaceOf
      <4> QED
        BY <2>1, <4>1 DEF IndInv, StoppersFit, StopperFit
    <3>2. CASE th[Writer(b)].pc = "close"
      <4>1. PlaceOf(th[Writer(b)]) = "close"
        BY <3>2 DEF PlaceOf
      <4> QED
        BY <2>1, <4>1 DEF IndInv, WritersFit, WriterFit
    <3> QED
      BY <3>1, <3>2
  <2>3. RunnerFit(c, buf[b], PlaceOf(th[Runner(b, c)]))
    BY DEF IndInv, RunnersFit
  <2>4. cs.completedSeq = buf[b].nextSeq
    BY <2>2, <2>3 DEF RunnerFit
  <2>5. cs.ingested \cup cs.acked = 1..cs.completedSeq
    BY <2>1 DEF Serving, Spans
  <2>6. PolicyFit(b, buf[b])
    BY BufferNow
  <2> QED
    BY <2>4, <2>5, <2>6 DEF PolicyFit
<1> QED
  BY <1>1, Invariance, PTL

\* The settled chunks of a consumer that has not failed are a prefix of the
\* stream, and what its callback was working on follows it.
LEMMA Settles ==
  ASSUME IndInv, NEW b \in Buffers, NEW c \in Enabled, ~buf[b].cons[c].unavailable,
         NEW cs, cs = buf[b].cons[c], NEW n, n = buf[b].nextSeq
  PROVE  /\ cs.completedSeq \in 0..n /\ Front(cs) \in 0..n /\ n \in Nat
         /\ cs.ingested \cup cs.acked = 1..cs.completedSeq
         /\ cs.inFlight # 0 \/ cs.gapFly # {} => cs.completedSeq < Front(cs)
<1>1. cs \in ConsumerStates /\ n \in 0..MaxSeq /\ Tidy(cs) /\ Spans(cs) /\ Awaits(n, cs)
  BY EnabledConsumers, Served DEF Serving
<1> DEFINE D == cs.completedSeq
           F == Front(cs)
           K == Back(cs)
<1>2. D \in Nat /\ F \in Nat /\ K \in Nat /\ n \in Nat
  BY <1>1, Ends, Bounds
<1>3. /\ D <= F /\ F <= K /\ K <= n /\ cs.batch \cup cs.gapFly = (D + 1)..F
      /\ cs.ingested \cup cs.acked = 1..D
  BY <1>1 DEF Spans, Awaits
<1>4. cs.inFlight # 0 \/ cs.gapFly # {} => (D + 1)..F # {}
  BY <1>1, <1>3 DEF Tidy
<1> HIDE DEF D, F, K
<1>5. (D + 1)..F # {} => D < F
  BY <1>2
<1>6. D \in 0..n /\ F \in 0..n
  BY <1>2, <1>3
<1> QED
  BY <1>2, <1>3, <1>4, <1>5, <1>6 DEF D, F

\* A consumer fails with an error that reports exactly what it has not had.
THEOREM FailureReported == Spec => FailureReportsAll
<1>1. ASSUME IndInv, [Next]_vars, NEW b \in Buffers, NEW c \in Consumers,
             buf'[b].cons[c].unavailable, ~buf[b].cons[c].unavailable
      PROVE  buf'[b].cons[c].failed
               = (1..buf[b].nextSeq) \ (buf'[b].cons[c].ingested \cup buf'[b].cons[c].acked)
  <2> DEFINE cs == buf[b].cons[c]
             es == buf'[b].cons[c]
             n == buf[b].nextSeq
  <2>1. Advances(buf[b], buf'[b])
    BY <1>1, NextFits DEF StreamStep
  <2>2. c \in Enabled /\ Progress(n, buf[b].size, cs, es)
    BY <1>1, <2>1 DEF Advances, Still
  <2>3. ~cs.unavailable /\ es.unavailable
    BY <1>1
  <2>4. cs.completedSeq \in 0..n /\ n \in Nat /\ cs.ingested \cup cs.acked = 1..cs.completedSeq
    BY <1>1, <2>2, Settles
  <2> HIDE DEF cs, es, n
  <2>5. es.failed = (cs.completedSeq + 1)..n /\ es.ingested = cs.ingested /\ es.acked = cs.acked
    BY <2>2, <2>3 DEF Progress
  <2>6. (cs.completedSeq + 1)..n = (1..n) \ (1..cs.completedSeq)
    BY <2>4
  <2>7. es.failed = (1..n) \ (es.ingested \cup es.acked)
    BY <2>4, <2>5, <2>6
  <2> QED
    BY <2>7 DEF es, n
<1>2. IndInv /\ [Next]_vars =>
        [\A b \in Buffers, c \in Consumers :
           LET cs == buf'[b].cons[c]
           IN  cs.unavailable /\ ~buf[b].cons[c].unavailable =>
                 cs.failed = (1..buf[b].nextSeq) \ (cs.ingested \cup cs.acked)]_vars
  BY <1>1
<1> QED
  BY <1>2, Invariance, PTL DEF Spec, FailureReportsAll

\* Every consumer of every buffer is served a GapStream: in order, and with
\* every loss announced.
THEOREM Refinement == Spec => ImplementsGapStream
<1>1. Init => \A b \in Buffers, c \in Enabled : Stream(b, c)!Init
  <2>1. SUFFICES ASSUME Init, NEW b \in Buffers, NEW c \in Enabled PROVE Stream(b, c)!Init
    OBVIOUS
  <2>2. buf[b] = NewBuffer /\ c \in Consumers
    BY <2>1, EnabledConsumers DEF Init
  <2>3. buf[b].nextSeq = 0 /\ buf[b].cons[c] = NewConsumer(c \in Enabled)
    BY <2>2 DEF NewBuffer
  <2> QED
    BY <2>3 DEF Stream!Init, NewConsumer
<1>2. ASSUME IndInv, [Next]_vars, NEW b \in Buffers, NEW c \in Enabled
      PROVE  [Stream(b, c)!Next]_(Stream(b, c)!vars)
  <2> DEFINE cs == buf[b].cons[c]
             es == buf'[b].cons[c]
             n == buf[b].nextSeq
             m == buf'[b].nextSeq
  <2>1. Advances(buf[b], buf'[b]) /\ c \in Consumers
    BY <1>2, NextFits, EnabledConsumers DEF StreamStep
  <2>2. CASE m = n /\ Still(cs, es)
    BY <2>2 DEF Still, Stream!vars
  <2>3. CASE m = n + 1 /\ Still(cs, es)
    BY <2>3 DEF Still, Stream!Next, Stream!Produce
  <2>4. CASE m = n /\ (cs.inFlight # 0 \/ cs.gapFly # {}) /\ Progress(n, buf[b].size, cs, es)
    <3>1. ~cs.unavailable
      <4>1. ConsumerOK(buf[b], c)
        BY <1>2, <2>1, BufferNow DEF BufferOK
      <4> QED
        BY <2>4, <4>1 DEF ConsumerOK, Dead
    <3> DEFINE D == cs.completedSeq
               F == Front(cs)
    <3>2. D \in 0..n /\ F \in 0..n /\ D < F /\ cs.ingested \cup cs.acked = 1..D
      BY <1>2, <2>4, <3>1, Settles
    <3>3. cs.unavailable \in BOOLEAN /\ es.unavailable \in BOOLEAN
      <4>1. cs \in ConsumerStates /\ es \in ConsumerStates
        BY <1>2, <2>1, <2>4, BufferNow DEF BufferStates, Progress
      <4> QED
        BY <4>1 DEF ConsumerStates
    <3> HIDE DEF D, F
    <3>4. CASE /\ es.unavailable = cs.unavailable
               /\ es.ingested = cs.ingested \cup (D + 1)..F /\ es.acked = cs.acked
      BY <2>4, <3>1, <3>2, <3>4 DEF Stream!Next, Stream!Ingest, Stream!Settled
    <3>5. CASE /\ es.unavailable = cs.unavailable
               /\ es.acked = cs.acked \cup (D + 1)..F /\ es.ingested = cs.ingested
      BY <2>4, <3>1, <3>2, <3>5 DEF Stream!Next, Stream!Lose, Stream!Settled
    <3>6. CASE es.unavailable /\ es.ingested = cs.ingested /\ es.acked = cs.acked
      BY <2>4, <3>1, <3>3, <3>6 DEF Stream!Next, Stream!Break
    <3> QED
      BY <2>4, <3>4, <3>5, <3>6 DEF Progress, D, F
  <2>5. CASE m = n /\ es = cs
    BY <2>5 DEF Stream!vars
  <2> QED
    BY <2>1, <2>2, <2>3, <2>4, <2>5 DEF Advances
<1>3. IndInv /\ [Next]_vars =>
        [\A b \in Buffers, c \in Enabled : [Stream(b, c)!Next]_(Stream(b, c)!vars)]_vars
  BY <1>2
<1> QED
  BY <1>1, <1>3, Invariance, PTL DEF Spec, ImplementsGapStream
=============================================================================
