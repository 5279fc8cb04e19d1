------------------------- MODULE BindingBridgeProofs -------------------------
(* Proofs about the binding bridge, for every set of calls and every bound   *)
(* on handles and parked events.                                            *)
EXTENDS BindingBridge, FiniteSetTheorems, SequenceTheorems, TLAPS

(***************************************************************************)
(* The inductive invariant.                                                *)
(***************************************************************************)

(* A frame of this kind and call is on the queue; there is at most one; all *)
(* of kind k come before all of kind l.                                     *)
Is(m, k, c) == m.kind = k /\ m.call = c
Has(s, k, c) == \E i \in 1 .. Len(s) : Is(s[i], k, c)
Once(s, k, c) == \A i, j \in 1 .. Len(s) : Is(s[i], k, c) /\ Is(s[j], k, c) => i = j
Before(s, k, l, c) == \A i, j \in 1 .. Len(s) : Is(s[i], k, c) /\ Is(s[j], l, c) => i < j

(* The frames each queue carries.  No answer is a refusal, and a frame about *)
(* a session names an open call.                                            *)
Opened(m) == m.kind = "result" /\ m.outcome = "session" => m.call \in Opens
UpFrames == [kind : {"start", "cancel", "releaseOperation"}, call : Calls]
            \cup [kind : {"close", "closeRetired", "releaseSession"}, call : Opens]
EventFrames == {m \in Results : Opened(m)} \cup [kind : {"sessionClosed"}, call : Opens]
ReplyFrames == [kind : {"accepted", "refused"}, call : Calls]
               \cup [kind : {"closeFailed"}, call : Opens]

Frames ==
    /\ up \in Seq(UpFrames) /\ events \in Seq(EventFrames)
    /\ reply \in Seq(ReplyFrames) /\ Len(reply) <= 1
    /\ down \in Seq(EventFrames \cup ReplyFrames)
    /\ early \subseteq {m \in Results : Opened(m)}
    /\ IsFiniteSet(early)

(* A start request is the first that is heard of its call.                  *)
Started(c) ==
    /\ Once(up, "start", c)
    /\ call[c] = "idle" => ~Has(up, "start", c) /\ op[c] = "none"
    /\ Has(up, "start", c) => op[c] = "none"
    /\ op[c] = "none" => run[c] = "none"

(* The result of an operation is in one place, or the request to release    *)
(* the operation that it leads to is, and the operation is done and not yet *)
(* released.                                                               *)
Parked(c) == \E e \in early : e.call = c

OneResult(c) ==
    /\ Once(events, "result", c) /\ Once(down, "result", c) /\ Once(up, "releaseOperation", c)
    /\ \A e, f \in early : e.call = c /\ f.call = c => e = f
    /\ Has(events, "result", c) =>
          ~Has(down, "result", c) /\ ~Parked(c) /\ ~Has(up, "releaseOperation", c)
    /\ Has(down, "result", c) => ~Parked(c) /\ ~Has(up, "releaseOperation", c)
    /\ Parked(c) => ~Has(up, "releaseOperation", c)
    /\ (Has(events, "result", c) \/ Has(down, "result", c) \/ Parked(c)
        \/ Has(up, "releaseOperation", c)) => op[c] = "done" /\ run[c] = "end"

(* The same of the event that a session has closed, and of the release of   *)
(* its handle.                                                             *)
OneClosing(c) ==
    /\ Once(events, "sessionClosed", c) /\ Once(down, "sessionClosed", c)
    /\ Once(up, "releaseSession", c)
    /\ Has(events, "sessionClosed", c) =>
          ~Has(down, "sessionClosed", c) /\ ~Has(up, "releaseSession", c)
    /\ Has(down, "sessionClosed", c) => ~Has(up, "releaseSession", c)
    /\ (Has(events, "sessionClosed", c) \/ Has(down, "sessionClosed", c)
        \/ Has(up, "releaseSession", c)) => reg[c] = "closed" /\ run[c] = "end"
    /\ run[c] # "end" => reg[c] \in {"none", "open", "closing"}

(* The result of an open comes before the end of its session, and so does   *)
(* what the client sends for the two.                                      *)
ResultFirst(c) ==
    /\ Before(events, "result", "sessionClosed", c)
    /\ Before(down, "result", "sessionClosed", c)
    /\ Before(up, "closeRetired", "releaseSession", c)
    /\ Has(events, "result", c) => ~Has(down, "sessionClosed", c)
    /\ (Has(events, "result", c) \/ Has(down, "result", c)) => ~Has(up, "releaseSession", c)
    /\ (Has(events, "result", c) \/ Has(down, "result", c) \/ Has(up, "closeRetired", c))
          => reg[c] # "freed"

(* While the renderer is attached the handles are accounted for; afterwards *)
(* no operation is active, so that none registers a session.               *)
Accounted ==
    /\ attached => /\ \A c \in Calls : Started(c) /\ OneResult(c)
                   /\ \A c \in Opens : OneClosing(c) /\ ResultFirst(c)
    /\ ~attached => \A c \in Calls : op[c] # "active"

IndInv ==
    /\ TypeOK /\ Frames /\ Accounted
    /\ NoRequestRefused /\ NoSessionOutlivesRenderer

-----------------------------------------------------------------------------
(***************************************************************************)
(* Queues.                                                                 *)
(***************************************************************************)

(* What sending frame m makes of queue s, and what taking it off does, in    *)
(* the terms of the invariant.                                             *)
Added(s, t, m) ==
    /\ \A k, c : Has(t, k, c) <=> Has(s, k, c) \/ Is(m, k, c)
    /\ \A k, c : Once(s, k, c) /\ ~(Has(s, k, c) /\ Is(m, k, c)) => Once(t, k, c)
    /\ \A k, l, c : Before(s, k, l, c) /\ (Is(m, k, c) => ~Has(s, l, c) /\ ~Is(m, l, c))
                       => Before(t, k, l, c)

Taken(s, t, m) ==
    /\ \A k, c : Has(s, k, c) <=> Is(m, k, c) \/ Has(t, k, c)
    /\ \A k, c : Once(s, k, c) => Once(t, k, c) /\ (Is(m, k, c) => ~Has(t, k, c))
    /\ \A k, l, c : Before(s, k, l, c) => Before(t, k, l, c) /\ (Is(m, l, c) => ~Has(t, k, c))

(* A frame that is sent goes behind the others of its direction, which stay *)
(* as they are.                                                             *)
LEMMA AppendQueue ==
  ASSUME NEW S, NEW s \in Seq(S), NEW m \in S
  PROVE  Append(s, m) \in Seq(S) /\ Added(s, Append(s, m), m)
<1> DEFINE t == Append(s, m)
           n == Len(s)
<1>1. /\ t \in Seq(S) /\ n \in Nat /\ Len(t) = n + 1
      /\ \A i \in 1 .. n : t[i] = s[i]
      /\ t[n + 1] = m
  OBVIOUS
<1> HIDE DEF t, n
<1>2. \A i \in 1 .. n + 1 : i \in 1 .. n \/ i = n + 1
  BY <1>1
<1>3. \A i \in 1 .. n : i \in 1 .. n + 1 /\ i < n + 1
  BY <1>1
<1>4. n + 1 \in 1 .. n + 1
  BY <1>1
<1>5. ASSUME NEW k, NEW c PROVE Has(t, k, c) <=> Has(s, k, c) \/ Is(m, k, c)
  <2>1. Has(t, k, c) <=> \E i \in 1 .. n + 1 : Is(t[i], k, c)
    BY <1>1 DEF Has
  <2>2. Has(s, k, c) <=> \E i \in 1 .. n : Is(s[i], k, c)
    BY DEF Has, n
  <2> QED
    BY <1>1, <1>2, <1>3, <1>4, <2>1, <2>2
<1>6. ASSUME NEW k, NEW c, Once(s, k, c), ~(Has(s, k, c) /\ Is(m, k, c)) PROVE Once(t, k, c)
  <2> SUFFICES ASSUME NEW i \in 1 .. n + 1, NEW j \in 1 .. n + 1, Is(t[i], k, c), Is(t[j], k, c)
               PROVE  i = j
    BY <1>1 DEF Once
  <2> QED
    BY <1>1, <1>2, <1>6 DEF Once, Has, n
<1>7. ASSUME NEW k, NEW l, NEW c, Before(s, k, l, c), Is(m, k, c) => ~Has(s, l, c) /\ ~Is(m, l, c)
      PROVE  Before(t, k, l, c)
  <2> SUFFICES ASSUME NEW i \in 1 .. n + 1, NEW j \in 1 .. n + 1, Is(t[i], k, c), Is(t[j], l, c)
               PROVE  i < j
    BY <1>1 DEF Before
  <2> QED
    BY <1>1, <1>2, <1>3, <1>7 DEF Before, Has, n
<1> QED
  BY <1>1, <1>5, <1>6, <1>7 DEF Added, t

(* A frame that is handled was the first of its direction, and the others   *)
(* stay as they are.                                                        *)
LEMMA TailQueue ==
  ASSUME NEW S, NEW s \in Seq(S), s # <<>>
  PROVE  Tail(s) \in Seq(S) /\ Head(s) \in S /\ Taken(s, Tail(s), Head(s))
<1> DEFINE t == Tail(s)
           m == Head(s)
           n == Len(s)
<1>1. /\ t \in Seq(S) /\ m \in S /\ n \in Nat \ {0} /\ Len(t) = n - 1
      /\ \A i \in 1 .. n - 1 : t[i] = s[i + 1]
      /\ m = s[1]
  BY HeadTailProperties, EmptySeq
<1> HIDE DEF t, m, n
<1>2. \A i \in 1 .. n : i = 1 \/ (i - 1 \in 1 .. n - 1 /\ t[i - 1] = s[i])
  BY <1>1
<1>3. \A i \in 1 .. n - 1 : i + 1 \in 1 .. n /\ i + 1 # 1
  BY <1>1
<1>4. 1 \in 1 .. n
  BY <1>1
<1>5. ASSUME NEW k, NEW c PROVE Has(s, k, c) <=> Is(m, k, c) \/ Has(t, k, c)
  <2>1. Has(t, k, c) <=> \E i \in 1 .. n - 1 : Is(t[i], k, c)
    BY <1>1 DEF Has
  <2>2. Has(s, k, c) <=> \E i \in 1 .. n : Is(s[i], k, c)
    BY DEF Has, n
  <2> QED
    BY <1>1, <1>2, <1>3, <1>4, <2>1, <2>2
<1>6. ASSUME NEW k, NEW c, Once(s, k, c)
      PROVE  Once(t, k, c) /\ (Is(m, k, c) => ~Has(t, k, c))
  <2>1. ASSUME NEW i \in 1 .. n - 1, NEW j \in 1 .. n - 1, Is(t[i], k, c), Is(t[j], k, c)
        PROVE  i = j
    <3>1. Is(s[i + 1], k, c) /\ Is(s[j + 1], k, c) /\ i + 1 \in 1 .. n /\ j + 1 \in 1 .. n
      BY <1>1, <1>3, <2>1
    <3>2. i + 1 = j + 1
      BY <1>6, <3>1 DEF Once, n
    <3> QED
      BY <3>2
  <2>2. ASSUME NEW i \in 1 .. n - 1, Is(t[i], k, c), Is(m, k, c) PROVE FALSE
    BY <1>1, <1>3, <1>4, <1>6, <2>2 DEF Once, n
  <2> QED
    BY <1>1, <2>1, <2>2 DEF Once, Has
<1>7. ASSUME NEW k, NEW l, NEW c, Before(s, k, l, c)
      PROVE  Before(t, k, l, c) /\ (Is(m, l, c) => ~Has(t, k, c))
  <2>1. ASSUME NEW i \in 1 .. n - 1, NEW j \in 1 .. n - 1, Is(t[i], k, c), Is(t[j], l, c)
        PROVE  i < j
    <3>1. Is(s[i + 1], k, c) /\ Is(s[j + 1], l, c) /\ i + 1 \in 1 .. n /\ j + 1 \in 1 .. n
      BY <1>1, <1>3, <2>1
    <3>2. i + 1 < j + 1
      BY <1>7, <3>1 DEF Before, n
    <3> QED
      BY <3>2
  <2>2. ASSUME NEW i \in 1 .. n - 1, Is(t[i], k, c), Is(m, l, c) PROVE FALSE
    <3>1. i + 1 < 1
      BY <1>1, <1>3, <1>4, <1>7, <2>2 DEF Before, n
    <3> QED
      BY <3>1
  <2> QED
    BY <1>1, <2>1, <2>2 DEF Before, Has
<1> QED
  BY <1>1, <1>5, <1>6, <1>7 DEF Taken, t, m

(* A connection on which nothing is under way holds no frame of any kind.   *)
LEMMA EmptyQueue ==
  ASSUME NEW k, NEW l, NEW c
  PROVE  ~Has(<<>>, k, c) /\ Once(<<>>, k, c) /\ Before(<<>>, k, l, c)
  BY DEF Has, Once, Before

(* Send with no request, with one, and with two.                            *)
LEMMA SendFrames ==
  ASSUME NEW a \in UpFrames, NEW b \in UpFrames, up \in Seq(UpFrames)
  PROVE  /\ up \o <<a>> = Append(up, a)
         /\ up \o <<>> = up
         /\ up \o (<<>> \o <<b>>) = Append(up, b)
         /\ up \o <<a, b>> = Append(Append(up, a), b)
         /\ up \o (<<a>> \o <<b>>) = Append(Append(up, a), b)
  OBVIOUS
-----------------------------------------------------------------------------
(***************************************************************************)
(* Types.                                                                  *)
(***************************************************************************)

(* The type invariant but for the queues, which Frames describes.           *)
Types ==
    /\ call \in [Calls -> {"idle", "sent", "waiting", "settled", "aborted", "dropped"}]
    /\ target \in [Executes -> Opens]
    /\ abandoned \subseteq Calls /\ cancelled \subseteq Calls
    /\ sessions \subseteq Opens /\ alive \subseteq Opens
    /\ retired \subseteq Opens /\ released \subseteq Opens
    /\ closed \in {"no", "refused", "cleanup", "gone"}
    /\ attached \in BOOLEAN
    /\ run \in [Calls -> {"none", "working", "emit", "end"}]
    /\ op \in [Calls -> {"none", "active", "done", "freed"}]
    /\ ctxDone \subseteq Calls
    /\ host \in [Opens -> {"none", "ready", "live", "ended"}]
    /\ reg \in [Opens -> {"none", "open", "closing", "closed", "freed"}]

(* The kinds of frame that each direction carries, and the calls they may   *)
(* be about.                                                                *)
LEMMA FrameKinds ==
  /\ \A m \in UpFrames :
        /\ m.kind \in {"start", "cancel", "close", "closeRetired", "releaseOperation",
                       "releaseSession"}
        /\ m.call \in Calls
        /\ m.kind \in {"close", "closeRetired", "releaseSession"} => m.call \in Opens
  /\ \A m \in EventFrames \cup ReplyFrames :
        /\ m.kind \in {"accepted", "refused", "closeFailed", "result", "sessionClosed"}
        /\ m.call \in Calls
        /\ m.kind = "result" => m \in EventFrames /\ m \in Results /\ Opened(m)
        /\ m.kind = "sessionClosed" => m.call \in Opens
  /\ \A m \in EventFrames : m.kind \in {"result", "sessionClosed"}
  /\ \A m \in ReplyFrames : m.kind \in {"accepted", "refused", "closeFailed"}
  BY DEF UpFrames, EventFrames, ReplyFrames, Results, Result, Opened, Calls

(* What the client and the bridge send is a frame of its direction.         *)
LEMMA FrameMakes ==
  /\ \A c \in Calls : /\ Request("start", c) \in UpFrames /\ Request("cancel", c) \in UpFrames
                      /\ Request("releaseOperation", c) \in UpFrames
                      /\ Request("accepted", c) \in ReplyFrames
                      /\ Request("refused", c) \in ReplyFrames
  /\ \A c \in Opens : /\ Request("close", c) \in UpFrames /\ Request("closeRetired", c) \in UpFrames
                      /\ Request("releaseSession", c) \in UpFrames
                      /\ Request("sessionClosed", c) \in EventFrames
                      /\ Request("closeFailed", c) \in ReplyFrames
  /\ \A c \in Calls, o \in {"session", "nothing", "error", "resource"} :
        (o = "session" => c \in Opens) => Result(c, o) \in EventFrames
  /\ \A k, c, j, d : Is(Request(k, c), j, d) <=> j = k /\ d = c
  /\ \A c, o, j, d : Is(Result(c, o), j, d) <=> j = "result" /\ d = c
<1>1. \A k, c, j, d : Is(Request(k, c), j, d) <=> j = k /\ d = c
  BY DEF Request, Is
<1>2. \A c, o, j, d : Is(Result(c, o), j, d) <=> j = "result" /\ d = c
  BY DEF Result, Is
<1>3. ASSUME NEW c \in Calls
      PROVE  /\ Request("start", c) \in UpFrames /\ Request("cancel", c) \in UpFrames
             /\ Request("releaseOperation", c) \in UpFrames
             /\ Request("accepted", c) \in ReplyFrames /\ Request("refused", c) \in ReplyFrames
  BY DEF UpFrames, ReplyFrames, Request
<1>4. ASSUME NEW c \in Opens
      PROVE  /\ Request("close", c) \in UpFrames /\ Request("closeRetired", c) \in UpFrames
             /\ Request("releaseSession", c) \in UpFrames
             /\ Request("sessionClosed", c) \in EventFrames
             /\ Request("closeFailed", c) \in ReplyFrames
  BY DEF UpFrames, EventFrames, ReplyFrames, Request, Calls
<1>5. ASSUME NEW c \in Calls, NEW o \in {"session", "nothing", "error", "resource"},
             o = "session" => c \in Opens
      PROVE  Result(c, o) \in EventFrames
  <2>1. Result(c, o) \in Results
    BY <1>5 DEF Results
  <2> QED
    BY <1>5, <2>1 DEF EventFrames, Opened, Result
<1> QED
  BY <1>1, <1>2, <1>3, <1>4, <1>5, Zenon

(* The type invariant, with the frames under way described as members of    *)
(* their sets.                                                              *)
LEMMA TypeParts ==
  /\ TypeOK => Types /\ Cardinality(early) <= MaxEarly
  /\ Types /\ Frames /\ Cardinality(early) <= MaxEarly => TypeOK
<1>1. TypeOK => Types /\ Cardinality(early) <= MaxEarly
  BY DEF TypeOK, Types
<1>2. ASSUME Types, Frames, Cardinality(early) <= MaxEarly PROVE TypeOK
  <2>1. ASSUME NEW S, NEW s \in Seq(S), NEW K, \A m \in S : m.kind \in K /\ m.call \in Calls
        PROVE  Queue(s, K)
    BY <2>1, LenProperties, ElementOfSeq DEF Queue
  <2>2. Queue(up, {"start", "cancel", "close", "closeRetired", "releaseOperation", "releaseSession"})
    BY <1>2, <2>1, FrameKinds DEF Frames
  <2>3. Queue(down, {"accepted", "refused", "failed", "closeFailed", "result", "sessionClosed"})
    BY <1>2, <2>1, FrameKinds DEF Frames
  <2>4. Queue(reply, {"accepted", "refused", "failed", "closeFailed"}) /\ Len(reply) <= 1
    BY <1>2, <2>1, FrameKinds DEF Frames
  <2>5. Queue(events, {"result", "sessionClosed"})
    BY <1>2, <2>1, FrameKinds DEF Frames
  <2>6. early \subseteq Results
    BY <1>2 DEF Frames
  <2> QED
    BY <1>2, <2>2, <2>3, <2>4, <2>5, <2>6 DEF TypeOK, Types
<1> QED
  BY <1>1, <1>2

(* What the client makes of the next frame: it gives the binding up, or      *)
(* takes the frame off, and sends what follows from it.                    *)
Emptied == down' = <<>> /\ early' = {}

Received(m) ==
    \/ Emptied /\ up' = up
    \/ /\ down' = Tail(down) /\ early' = early /\ m.kind # "result"
       /\ up' = up \/ up' = Append(up, Request("cancel", m.call))
    \/ /\ m.kind # "result"
       /\ \E e \in early : /\ Emptied \/ (down' = Tail(down) /\ early' = early \ {e})
                           /\ up' = Append(up, Request("releaseOperation", e.call))
    \/ /\ m.kind = "result"
       /\ Emptied \/ (down' = Tail(down) /\ early' \in {early, early \ {m}})
       /\ \/ up' = Append(up, Request("releaseOperation", m.call))
          \/ /\ m.call \in Opens
             /\ up' = Append(Append(up, Request("closeRetired", m.call)),
                             Request("releaseOperation", m.call))
          \/ \E k \in Calls : /\ call[k] = "idle" /\ call'[k] = "sent"
                              /\ up' = Append(Append(up, Request("start", k)),
                                              Request("releaseOperation", m.call))
    \/ /\ m.kind = "result" /\ down' = Tail(down) /\ early' = early \cup {m} /\ up' = up
       /\ Cardinality(early) < MaxEarly
    \/ /\ m.kind = "sessionClosed" /\ down' = Tail(down) /\ early' = early
       /\ up' = Append(up, Request("releaseSession", m.call))

LEMMA ReceiveEffect ==
  ASSUME IndInv, Receive, NEW m, m = Head(down)
  PROVE  /\ m \in EventFrames \cup ReplyFrames /\ down # <<>>
         /\ UNCHANGED <<reply, events, attached, engineVars>>
         /\ \A c \in Calls : call'[c] = "idle" => call[c] = "idle"
         /\ closed' # "refused"
         /\ Received(m)
<1> DEFINE Kept == \A c \in Calls : call'[c] = "idle" => call[c] = "idle"
<1>0. Frames /\ Types /\ closed = "no"
  BY TypeParts DEF IndInv, Receive
<1>1. down # <<>> /\ m \in EventFrames \cup ReplyFrames
  <2>1. down # <<>>
    BY DEF Receive
  <2> QED
    BY <1>0, <2>1, HeadTailProperties DEF Frames
<1>2. /\ m.kind \in {"accepted", "refused", "closeFailed", "result", "sessionClosed"}
      /\ m.call \in Calls
      /\ m.kind = "result" => m \in Results /\ Opened(m)
      /\ m.kind = "sessionClosed" => m.call \in Opens
  BY <1>1, FrameKinds
<1>3. UNCHANGED <<reply, events, attached, engineVars>> /\ (closed' = "no" => down' = Tail(down))
  BY DEF Receive
<1>4. ASSUME NEW why, OnClosed(why), why # "refused"
      PROVE  Kept /\ closed' # "refused" /\ Emptied
  BY <1>4 DEF OnClosed, Emptied
<1>5. ASSUME NEW d \in Calls, NEW v, call' = [call EXCEPT ![d] = v], v = "idle" => call[d] = "idle"
      PROVE  Kept
  BY <1>0, <1>5 DEF Types
<1>6. ASSUME NEW c \in Calls, NEW k \in {"cancel", "releaseOperation"}, Send(<<Request(k, c)>>)
      PROVE  up' = Append(up, Request(k, c))
  <2>1. Request(k, c) \in UpFrames
    BY FrameMakes
  <2> QED
    BY <1>0, <1>6, <2>1, SendFrames DEF Send, Frames
<1>7. ASSUME NEW e, e.call \in Calls, Settle(e)
      PROVE  /\ Kept /\ closed' # "refused"
             /\ Emptied \/ (down' = Tail(down) /\ early' = early \ {e})
             /\ up' = Append(up, Request("releaseOperation", e.call))
  <2>1. up' = Append(up, Request("releaseOperation", e.call))
    BY <1>6, <1>7 DEF Settle
  <2>2. CASE OnClosed("cleanup")
    BY <1>4, <2>1, <2>2
  <2>3. CASE call' = [call EXCEPT ![e.call] = "settled"] /\ early' = early \ {e} /\ closed' = closed
    BY <1>0, <1>3, <1>5, <1>7, <2>1, <2>3
  <2> QED
    BY <1>7, <2>2, <2>3 DEF Settle
<1>8. ASSUME ReceiveAccepted(m) PROVE Kept /\ closed' # "refused" /\ Received(m)
  <2>0. m.kind # "result"
    BY <1>8 DEF ReceiveAccepted
  <2>1. CASE m.call \in abandoned
    BY <1>0, <1>2, <1>3, <1>6, <1>8, <2>0, <2>1 DEF ReceiveAccepted, Received
  <2>2. ASSUME NEW e \in early, e.call = m.call, Settle(e)
        PROVE  Kept /\ closed' # "refused" /\ Received(m)
    BY <1>2, <1>7, <2>0, <2>2 DEF Received
  <2>3. CASE call' = [call EXCEPT ![m.call] = "waiting"] /\ early' = early /\ up' = up
             /\ closed' = closed
    BY <1>0, <1>2, <1>3, <1>5, <2>0, <2>3 DEF Received
  <2> QED
    BY <1>8, <2>1, <2>2, <2>3 DEF ReceiveAccepted, WaitOperation
<1>9. ASSUME ReceiveRefused(m) PROVE Kept /\ closed' # "refused" /\ Received(m)
  <2>0. m.kind # "result" /\ up' = up
    BY <1>9 DEF ReceiveRefused
  <2>1. CASE OnClosed("cleanup")
    BY <1>4, <2>0, <2>1 DEF Received
  <2>2. CASE /\ call' = [call EXCEPT ![m.call] = IF @ = "sent" THEN "settled" ELSE @]
             /\ early' = early /\ closed' = closed
    <3>1. call' = [call EXCEPT ![m.call] = IF call[m.call] = "sent" THEN "settled" ELSE call[m.call]]
      BY <1>0, <1>2, <2>2 DEF Types
    <3> QED
      BY <1>0, <1>2, <1>3, <1>5, <2>0, <2>2, <3>1 DEF Received
  <2> QED
    BY <1>9, <2>1, <2>2 DEF ReceiveRefused
<1>10. ASSUME ReceiveSessionClosed(m) PROVE Kept /\ closed' # "refused" /\ Received(m)
  <2>0. m.kind = "sessionClosed" /\ m.kind # "result" /\ closed' = closed /\ call' = call
        /\ early' = early
    BY <1>10 DEF ReceiveSessionClosed
  <2>1. Request("releaseSession", m.call) \in UpFrames
    BY <1>2, <2>0, FrameMakes
  <2>2. up' = up \/ up' = Append(up, Request("releaseSession", m.call))
    BY <1>0, <1>10, <2>1, SendFrames DEF ReceiveSessionClosed, Send, Frames
  <2> QED
    BY <1>0, <1>3, <2>0, <2>2 DEF Received
<1>11. ASSUME ReceiveFailed(m) PROVE Kept /\ closed' # "refused" /\ Received(m)
  <2>1. OnClosed("cleanup") /\ up' = up
    BY <1>2, <1>11 DEF ReceiveFailed
  <2> QED
    BY <1>4, <2>1 DEF Received
<1>12. ASSUME ReceiveResult(m) PROVE Kept /\ closed' # "refused" /\ Received(m)
  <2>0. m.kind = "result" /\ Request("releaseOperation", m.call) \in UpFrames /\ up \in Seq(UpFrames)
    BY <1>0, <1>2, <1>12, FrameMakes DEF ReceiveResult, Frames
  <2>1. CASE m.call \in Executes /\ RetireExecute(m)
    <3>1. CASE Send(<<Request("releaseOperation", m.call)>>) /\ OnClosed("cleanup")
      BY <1>2, <1>4, <1>6, <2>0, <3>1 DEF Received
    <3>2. CASE /\ Send(<<Request("releaseOperation", m.call)>>)
               /\ UNCHANGED <<call, early, closed>>
      BY <1>0, <1>2, <1>3, <1>6, <2>0, <3>2 DEF Received
    <3>3. ASSUME NEW k \in Cleanups, call[k] = "idle", call' = [call EXCEPT ![k] = "sent"],
                 Send(<<Request("start", k), Request("releaseOperation", m.call)>>),
                 UNCHANGED <<early, closed>>
          PROVE  Kept /\ closed' # "refused" /\ Received(m)
      <4>1. k \in Calls
        BY BridgeAssumption DEF Calls
      <4>2. Kept /\ call'[k] = "sent"
        BY <1>0, <1>5, <3>3, <4>1 DEF Types
      <4>3. up' = Append(Append(up, Request("start", k)), Request("releaseOperation", m.call))
        BY <2>0, <3>3, <4>1, FrameMakes, SendFrames DEF Send
      <4> QED
        BY <1>0, <1>3, <2>0, <3>3, <4>1, <4>2, <4>3 DEF Received
    <3> QED
      BY <2>1, <3>1, <3>2, <3>3 DEF RetireExecute
  <2>2. CASE m.call \in Opens /\ RetireOpen(m)
    <3>0. Request("closeRetired", m.call) \in UpFrames
      BY <2>2, FrameMakes
    <3>1. CASE OnClosed("gone") /\ up' = up
      BY <1>4, <3>1 DEF Received
    <3>2. CASE /\ Send((IF m.outcome = "session" THEN <<Request("closeRetired", m.call)>> ELSE <<>>)
                       \o <<Request("releaseOperation", m.call)>>)
               /\ UNCHANGED <<call, early, closed>>
      <4>1. \/ up' = Append(up, Request("releaseOperation", m.call))
            \/ up' = Append(Append(up, Request("closeRetired", m.call)),
                            Request("releaseOperation", m.call))
        BY <2>0, <3>0, <3>2, SendFrames DEF Send
      <4> QED
        BY <1>0, <1>3, <2>0, <2>2, <3>2, <4>1 DEF Received
    <3> QED
      BY <2>2, <3>1, <3>2 DEF RetireOpen
  <2>3. CASE Settle(m)
    BY <1>2, <1>7, <2>0, <2>3 DEF Received
  <2>4. CASE QueueEarly(m)
    <3>1. CASE OnClosed("gone") /\ up' = up
      BY <1>4, <3>1 DEF Received
    <3>2. CASE /\ Cardinality(early) < MaxEarly /\ early' = early \cup {m}
               /\ UNCHANGED <<call, closed, up>>
      BY <1>0, <1>3, <2>0, <3>2 DEF Received
    <3> QED
      BY <2>4, <3>1, <3>2 DEF QueueEarly
  <2> QED
    BY <1>12, <2>1, <2>2, <2>3, <2>4 DEF ReceiveResult
<1>13. ReceiveAccepted(m) \/ ReceiveRefused(m) \/ ReceiveFailed(m) \/ ReceiveResult(m)
       \/ ReceiveSessionClosed(m)
  BY DEF Receive
<1> QED
  BY <1>1, <1>3, <1>8, <1>9, <1>10, <1>11, <1>12, <1>13

(* The steps but for Receive that send something to the bridge.             *)
LEMMA ClientSends ==
  ASSUME IndInv, NEW c \in Calls
  PROVE  /\ StartCall(c) => up' = Append(up, Request("start", c))
         /\ AbandonOperation(c) => up' = Append(up, Request("cancel", c))
         /\ c \in Opens /\ CloseSession(c) => up' = Append(up, Request("close", c))
         /\ CleanupTimesOut(c) => up' = up \/ up' = Append(up, Request("cancel", c))
<1>0. up \in Seq(UpFrames) /\ Request("start", c) \in UpFrames /\ Request("cancel", c) \in UpFrames
  BY FrameMakes DEF IndInv, Frames
<1>1. StartCall(c) => up' = Append(up, Request("start", c))
  BY <1>0, SendFrames DEF StartCall, Send
<1>2. AbandonOperation(c) => up' = Append(up, Request("cancel", c))
  BY <1>0, SendFrames DEF AbandonOperation, Send
<1>3. c \in Opens /\ CloseSession(c) => up' = Append(up, Request("close", c))
  BY <1>0, FrameMakes, SendFrames DEF CloseSession, Send
<1>4. CleanupTimesOut(c) => up' = up \/ up' = Append(up, Request("cancel", c))
  BY <1>0, SendFrames DEF CleanupTimesOut, Send
<1> QED
  BY <1>1, <1>2, <1>3, <1>4

(* What the bridge answers, and that it refuses no release and no close of a *)
(* retired session: this is where the account of the handles is used.       *)
LEMMA HandleEffect ==
  ASSUME IndInv, HandleRequest, NEW m, m = Head(up)
  PROVE  /\ m \in UpFrames /\ up # <<>> /\ up' = Tail(up) /\ Taken(up, up', m) /\ attached
         /\ up' \in Seq(UpFrames)
         /\ UNCHANGED <<call, target, clientVars, closed, down, events, attached>>
         /\ \/ /\ m.kind = "start" /\ reply' = <<Request("accepted", m.call)>>
               /\ op' = [op EXCEPT ![m.call] = "active"] /\ run' = [run EXCEPT ![m.call] = "working"]
               /\ UNCHANGED <<ctxDone, host, reg>>
            \/ /\ m.kind = "start" /\ reply' = <<Request("refused", m.call)>>
               /\ UNCHANGED engineVars
            \/ /\ m.kind = "cancel" /\ reply' = <<>>
               /\ ctxDone' \in {ctxDone, ctxDone \cup {m.call}} /\ UNCHANGED <<op, run, host, reg>>
            \/ /\ m.kind \in {"close", "closeRetired"}
               /\ reply' \in {<<>>, <<Request("closeFailed", m.call)>>}
               /\ reg' = [reg EXCEPT ![m.call] = IF @ = "open" THEN "closing" ELSE @]
               /\ \E v \in {"ended", host[m.call]} : host' = [host EXCEPT ![m.call] = v]
               /\ UNCHANGED <<op, run, ctxDone>>
            \/ /\ m.kind = "releaseOperation" /\ reply' = <<>> /\ op[m.call] = "done"
               /\ op' = [op EXCEPT ![m.call] = "freed"] /\ UNCHANGED <<run, ctxDone, host, reg>>
            \/ /\ m.kind = "releaseSession" /\ reply' = <<>> /\ reg[m.call] = "closed"
               /\ reg' = [reg EXCEPT ![m.call] = "freed"] /\ UNCHANGED <<run, op, ctxDone, host>>
<1>0. Types /\ Frames /\ Accounted
  BY TypeParts DEF IndInv
<1>1. /\ up # <<>> /\ up' = Tail(up) /\ attached /\ reply = <<>>
      /\ UNCHANGED <<call, target, clientVars, closed, down, events, attached>>
  BY DEF HandleRequest
<1>2. m \in UpFrames /\ up' \in Seq(UpFrames) /\ Taken(up, up', m)
  BY <1>0, <1>1, TailQueue DEF Frames
<1>3. /\ m.call \in Calls
      /\ m.kind \in {"close", "closeRetired", "releaseSession"} => m.call \in Opens
  BY <1>2, FrameKinds
<1>4. \A k : m.kind = k => Has(up, k, m.call)
  BY <1>2 DEF Taken, Is
<1>5. CASE m.kind = "start" /\ StartOperation(m.call)
  BY <1>1, <1>2, <1>5 DEF StartOperation, engineVars
<1>6. CASE m.kind = "cancel" /\ Cancel(m.call)
  BY <1>1, <1>2, <1>6 DEF Cancel
<1>7. CASE m.kind \in {"close", "closeRetired"} /\ EngineCloseSession(m.call, m.kind = "closeRetired")
  <2>1. m.kind = "closeRetired" => reg[m.call] # "freed"
    BY <1>0, <1>1, <1>3, <1>4 DEF Accounted, ResultFirst
  <2>2. reply' \in {<<>>, <<Request("closeFailed", m.call)>>}
    BY <1>7, <2>1 DEF EngineCloseSession
  <2> QED
    BY <1>0, <1>1, <1>2, <1>3, <1>7, <2>2 DEF EngineCloseSession, Types
<1>8. CASE m.kind = "releaseOperation" /\ ReleaseOperation(m.call)
  <2>1. op[m.call] = "done"
    BY <1>0, <1>1, <1>3, <1>4, <1>8 DEF Accounted, OneResult
  <2> QED
    BY <1>0, <1>1, <1>2, <1>3, <1>8, <2>1 DEF ReleaseOperation, Types
<1>9. CASE m.kind = "releaseSession" /\ ReleaseSession(m.call)
  <2>1. reg[m.call] = "closed"
    BY <1>0, <1>1, <1>3, <1>4, <1>9 DEF Accounted, OneClosing
  <2> QED
    BY <1>0, <1>1, <1>2, <1>3, <1>9, <2>1 DEF ReleaseSession, Types
<1> QED
  BY <1>5, <1>6, <1>7, <1>8, <1>9 DEF HandleRequest

(* Everything on the queues is a frame of its kind, in particular no refusal *)
(* is on its way to the client.                                            *)
LEMMA FramesStep == IndInv /\ [Next]_vars => Frames'
<1> SUFFICES ASSUME IndInv, [Next]_vars PROVE Frames'
  OBVIOUS
<1>0. Types /\ Frames
  BY TypeParts DEF IndInv
<1>a. ASSUME up' = up \/ \E m \in UpFrames : up' = Append(up, m),
             UNCHANGED <<down, reply, events, early>>
      PROVE  Frames'
  BY <1>0, <1>a, AppendQueue DEF Frames
<1>b. ASSUME events' = events \/ \E m \in EventFrames : events' = Append(events, m),
             UNCHANGED <<down, reply, up, early>>
      PROVE  Frames'
  BY <1>0, <1>b, AppendQueue DEF Frames
<1>1. ASSUME NEW c \in Calls, StartCall(c) \/ AbandonRequest(c) \/ AbandonOperation(c) PROVE Frames'
  <2>1. up' = up \/ \E m \in UpFrames : up' = Append(up, m)
    BY <1>1, ClientSends, FrameMakes DEF AbandonRequest
  <2>2. UNCHANGED <<down, reply, events, early>>
    BY <1>1 DEF StartCall, AbandonRequest, AbandonOperation, clientVars
  <2> QED
    BY <1>a, <2>1, <2>2
<1>2. ASSUME NEW c \in Opens, CloseSession(c) PROVE Frames'
  <2>1. c \in Calls /\ Request("close", c) \in UpFrames
    BY FrameMakes DEF Calls
  <2>2. up' = Append(up, Request("close", c)) /\ UNCHANGED <<down, reply, events, early>>
    BY <1>2, <2>1, ClientSends DEF CloseSession
  <2> QED
    BY <1>a, <2>1, <2>2
<1>3. ASSUME NEW c \in Calls, FinishOperation(c) PROVE Frames'
  BY <1>0, <1>3 DEF FinishOperation, bridgeVars, clientVars, Frames
<1>4. ASSUME NEW c \in Calls, EmitResult(c) PROVE Frames'
  <2>1. UNCHANGED <<down, reply, up, early>>
    BY <1>4 DEF EmitResult, bridgeVars, clientVars
  <2>2. \A o \in Outcomes(c) : Result(c, o) \in EventFrames
    BY FrameMakes, BridgeAssumption DEF Outcomes
  <2>3. events' = events \/ \E o \in Outcomes(c) : events' = Append(events, Result(c, o))
    BY <1>4 DEF EmitResult, Emit
  <2> QED
    BY <1>b, <2>1, <2>2, <2>3
<1>5. ASSUME NEW c \in Opens, OpenStep(c) \/ SessionDies(c) PROVE Frames'
  BY <1>0, <1>5
  DEF OpenStep, HostOpens, RegisterSession, SessionDies, bridgeVars, clientVars, Frames
<1>6. ASSUME NEW c \in Opens, FinishSession(c) PROVE Frames'
  <2>1. UNCHANGED <<down, reply, up, early>>
    BY <1>6 DEF FinishSession, bridgeVars, clientVars
  <2>2. events' = events \/ events' = Append(events, Request("sessionClosed", c))
    BY <1>6 DEF FinishSession, Emit
  <2> QED
    BY <1>b, <2>1, <2>2, FrameMakes
<1>7. CASE Receive
  <2> DEFINE D == EventFrames \cup ReplyFrames
  <2>1. PICK m : m = Head(down)
    OBVIOUS
  <2>2. /\ m \in D /\ down # <<>> /\ Tail(down) \in Seq(D) /\ <<>> \in Seq(D)
        /\ m.call \in Calls
        /\ m.kind = "result" => m \in Results /\ Opened(m)
        /\ m.kind = "sessionClosed" => m.call \in Opens
    BY <1>0, <1>7, <2>1, ReceiveEffect, TailQueue, FrameKinds DEF Frames
  <2>r. Received(m)
    BY <1>7, <2>1, ReceiveEffect
  <2>3. ASSUME NEW a \in UpFrames PROVE Append(up, a) \in Seq(UpFrames)
    BY <1>0, AppendQueue DEF Frames
  <2>4. ASSUME NEW a \in UpFrames, NEW b \in UpFrames PROVE Append(Append(up, a), b) \in Seq(UpFrames)
    BY <2>3, AppendQueue
  <2>5. /\ \A e \in early : e.call \in Calls
        /\ \A e : IsFiniteSet(early \ {e})
    BY <1>0, FS_RemoveElement DEF Frames, Results, Result
  <2>6. IsFiniteSet(early \cup {m}) /\ IsFiniteSet({})
    BY <1>0, FS_AddElement, FS_EmptySet DEF Frames
  <2> HIDE DEF D
  <2>7. /\ up' \in Seq(UpFrames) /\ down' \in Seq(D) /\ IsFiniteSet(early')
        /\ early' \subseteq {x \in Results : Opened(x)}
        /\ UNCHANGED <<reply, events>>
    <3>1. UNCHANGED <<reply, events>>
      BY <1>7, <2>1, ReceiveEffect
    <3>2. down' \in Seq(D)
      BY <2>2, <2>r DEF Received, Emptied
    <3>3. early' \in {early, {}, early \cup {m}} \/ \E e : early' = early \ {e}
      BY <2>r DEF Received, Emptied
    <3>4. early' = early \cup {m} => early' \subseteq early \/ m.kind = "result"
      BY <2>r DEF Received, Emptied
    <3>5. \/ up' = up
          \/ \E a \in UpFrames : up' = Append(up, a)
          \/ \E a, b \in UpFrames : up' = Append(Append(up, a), b)
      <4>1. /\ Request("cancel", m.call) \in UpFrames
            /\ Request("releaseOperation", m.call) \in UpFrames
            /\ m.call \in Opens => Request("closeRetired", m.call) \in UpFrames
                                 /\ Request("releaseSession", m.call) \in UpFrames
            /\ \A e \in early : Request("releaseOperation", e.call) \in UpFrames
            /\ \A k \in Calls : Request("start", k) \in UpFrames
        BY <2>2, <2>5, FrameMakes
      <4> QED
        BY <2>2, <2>r, <4>1 DEF Received
    <3>6. up' \in Seq(UpFrames)
      BY <1>0, <2>3, <2>4, <3>5 DEF Frames
    <3>7. early' \subseteq {x \in Results : Opened(x)} /\ IsFiniteSet(early')
      BY <1>0, <2>2, <2>5, <2>6, <3>3, <3>4 DEF Frames
    <3> QED
      BY <3>1, <3>2, <3>6, <3>7
  <2> QED
    BY <1>0, <2>7 DEF Frames, D
<1>8. ASSUME \/ CloseClient \/ LoseSocket
             \/ \E c \in Cleanups : CleanupTimesOut(c)
      PROVE  Frames'
  <2>1. down' = <<>> /\ early' = {} /\ UNCHANGED <<reply, events>>
    BY <1>8 DEF CloseClient, LoseSocket, CleanupTimesOut, OnClosed
  <2>2. ASSUME NEW c \in Cleanups, CleanupTimesOut(c) PROVE up' \in Seq(UpFrames)
    <3>1. c \in Calls /\ Request("cancel", c) \in UpFrames
      BY BridgeAssumption, FrameMakes DEF Calls
    <3> QED
      BY <1>0, <2>2, <3>1, ClientSends, AppendQueue DEF Frames
  <2>3. up' \in Seq(UpFrames)
    BY <1>0, <1>8, <2>2 DEF CloseClient, LoseSocket, Frames
  <2> QED
    BY <1>0, <2>1, <2>3, FS_EmptySet DEF Frames
<1>9. CASE HandleRequest
  <2>1. PICK m : m = Head(up)
    OBVIOUS
  <2>2. m \in UpFrames /\ m.call \in Calls /\ up' \in Seq(UpFrames)
    BY <1>9, <2>1, HandleEffect, FrameKinds
  <2>3. /\ UNCHANGED <<down, events, early>>
        /\ \/ reply' \in {<<>>, <<Request("accepted", m.call)>>, <<Request("refused", m.call)>>}
           \/ m.call \in Opens /\ reply' = <<Request("closeFailed", m.call)>>
    BY <1>9, <2>1, <2>2, HandleEffect, FrameKinds DEF clientVars
  <2>4. reply' \in Seq(ReplyFrames) /\ Len(reply') <= 1
    <3>1. /\ Request("accepted", m.call) \in ReplyFrames /\ Request("refused", m.call) \in ReplyFrames
          /\ m.call \in Opens => Request("closeFailed", m.call) \in ReplyFrames
      BY <2>2, FrameMakes
    <3>2. \A x \in ReplyFrames : <<x>> \in Seq(ReplyFrames) /\ Len(<<x>>) <= 1
      OBVIOUS
    <3>3. <<>> \in Seq(ReplyFrames) /\ Len(<<>>) <= 1
      OBVIOUS
    <3>4. \E x \in ReplyFrames : reply' = <<x>> \/ reply' = <<>>
      BY <2>3, <3>1
    <3>5. PICK x \in ReplyFrames : reply' = <<x>> \/ reply' = <<>>
      BY <3>4
    <3>6. CASE reply' = <<x>>
      BY <3>2, <3>6
    <3> QED
      BY <3>3, <3>5, <3>6
  <2> QED
    BY <1>0, <2>2, <2>3, <2>4 DEF Frames
<1>10. CASE SendReply
  <2>1. /\ UNCHANGED <<up, events, early>> /\ reply' = <<>> /\ reply # <<>>
        /\ down' = down \/ down' = Append(down, Head(reply))
    BY <1>10 DEF SendReply, Deliver, clientVars
  <2>2. Head(reply) \in EventFrames \cup ReplyFrames
    BY <1>0, <2>1, HeadTailProperties DEF Frames
  <2>3. down' \in Seq(EventFrames \cup ReplyFrames)
    BY <1>0, <2>1, <2>2, AppendQueue DEF Frames
  <2>4. reply' \in Seq(ReplyFrames) /\ Len(reply') <= 1
    BY <2>1
  <2> QED
    BY <1>0, <2>1, <2>3, <2>4 DEF Frames
<1>11. CASE PumpEvent
  <2>1. /\ UNCHANGED <<up, reply, early>> /\ events' = Tail(events) /\ events # <<>>
        /\ down' = down \/ down' = Append(down, Head(events))
    BY <1>11 DEF PumpEvent, Deliver, clientVars
  <2>2. Head(events) \in EventFrames \cup ReplyFrames /\ Tail(events) \in Seq(EventFrames)
    BY <1>0, <2>1, HeadTailProperties DEF Frames
  <2>3. down' \in Seq(EventFrames \cup ReplyFrames)
    BY <1>0, <2>1, <2>2, AppendQueue DEF Frames
  <2> QED
    BY <1>0, <2>1, <2>2, <2>3 DEF Frames
<1>12. CASE DetachRenderer
  <2>1. UNCHANGED <<up, reply, early, down>> /\ events' = <<>>
    BY <1>12 DEF DetachRenderer, clientVars
  <2> QED
    BY <1>0, <2>1, EmptySeq DEF Frames
<1>13. CASE UNCHANGED vars
  BY <1>0, <1>13 DEF vars, clientVars, Frames
<1> QED
  BY <1>1, <1>2, <1>3, <1>4, <1>5, <1>6, <1>7, <1>8, <1>9, <1>10, <1>11, <1>12, <1>13
  DEF Next, EngineStep
(* Every handler of the client, of the bridge and of the engine keeps the   *)
(* types of its maps.                                                       *)
LEMMA TypesStep == IndInv /\ [Next]_vars => Types'
<1> SUFFICES ASSUME IndInv, [Next]_vars PROVE Types'
  OBVIOUS
<1>0. Types /\ Frames
  BY TypeParts DEF IndInv
<1>o. Opens \subseteq Calls /\ Executes \subseteq Calls
  BY DEF Calls
<1>1. ASSUME NEW c \in Calls, StartCall(c) \/ AbandonRequest(c) \/ AbandonOperation(c) PROVE Types'
  BY <1>0, <1>1 DEF StartCall, AbandonRequest, AbandonOperation, clientVars, engineVars, Types
<1>2. ASSUME NEW c \in Opens, CloseSession(c) PROVE Types'
  BY <1>0, <1>2 DEF CloseSession, engineVars, Types
<1>3. ASSUME NEW c \in Calls, FinishOperation(c) \/ EmitResult(c) PROVE Types'
  BY <1>0, <1>3 DEF FinishOperation, EmitResult, bridgeVars, clientVars, Types
<1>4. ASSUME NEW c \in Opens, OpenStep(c) \/ SessionDies(c) \/ FinishSession(c) PROVE Types'
  BY <1>0, <1>4, <1>o
  DEF OpenStep, HostOpens, RegisterSession, SessionDies, FinishSession, bridgeVars, clientVars, Types
<1>5. ASSUME NEW why \in {"refused", "cleanup", "gone"}, OnClosed(why),
             UNCHANGED <<attached, engineVars>>
      PROVE  Types'
  BY <1>0, <1>5 DEF OnClosed, engineVars, Types
<1>6. CASE Receive
  <2>1. PICK m : m = Head(down)
    OBVIOUS
  <2>2. /\ m.call \in Calls /\ Opened(m)
        /\ m.kind = "sessionClosed" => m.call \in Opens
    BY <1>6, <2>1, ReceiveEffect, FrameKinds DEF Opened
  <2>3. UNCHANGED <<attached, engineVars>>
    BY <1>6 DEF Receive
  <2>4. ASSUME NEW e, e.call \in Calls, e.outcome = "session" => e.call \in Opens, Settle(e)
        PROVE  Types'
    <3>1. CASE OnClosed("cleanup")
      BY <1>5, <2>3, <3>1
    <3>2. CASE /\ call' = [call EXCEPT ![e.call] = "settled"]
               /\ \/ /\ e.outcome = "session"
                     /\ sessions' = sessions \cup {e.call} /\ alive' = alive \cup {e.call}
                  \/ UNCHANGED <<sessions, alive>>
                  \/ MarkStale(e.call) /\ UNCHANGED sessions
               /\ UNCHANGED <<target, abandoned, cancelled, retired, released, closed>>
      BY <1>0, <2>3, <2>4, <3>2 DEF MarkStale, engineVars, Types
    <3> QED
      BY <2>4, <3>1, <3>2 DEF Settle
  <2>5. ASSUME NEW e \in early PROVE e.call \in Calls /\ (e.outcome = "session" => e.call \in Opens)
    BY <1>0 DEF Frames, Results, Result, Opened
  <2>6. CASE ReceiveAccepted(m)
    <3>1. ASSUME NEW e \in early, Settle(e) PROVE Types'
      BY <2>4, <2>5, <3>1
    <3>2. CASE \A e \in early : ~Settle(e)
      BY <1>0, <2>2, <2>3, <2>6, <3>2 DEF ReceiveAccepted, WaitOperation, engineVars, Types
    <3> QED
      BY <3>1, <3>2
  <2>7. CASE ReceiveRefused(m)
    <3>1. CASE OnClosed("cleanup")
      BY <1>5, <2>3, <3>1
    <3>2. CASE ~OnClosed("cleanup")
      BY <1>0, <2>2, <2>3, <2>7, <3>2 DEF ReceiveRefused, MarkStale, engineVars, Types
    <3> QED
      BY <3>1, <3>2
  <2>8. CASE ReceiveSessionClosed(m)
    BY <1>0, <2>2, <2>3, <2>8 DEF ReceiveSessionClosed, engineVars, Types
  <2>9. CASE ReceiveFailed(m)
    BY <1>5, <2>3, <2>9 DEF ReceiveFailed
  <2>10. CASE ReceiveResult(m)
    <3>0. m.kind = "result"
      BY <2>10 DEF ReceiveResult
    <3>1. CASE OnClosed("cleanup") \/ OnClosed("gone")
      BY <1>5, <2>3, <3>1
    <3>2. CASE m.call \in Executes /\ RetireExecute(m)
      <4>1. CASE cancelled' = cancelled \ {m.call}
                 /\ UNCHANGED <<call, target, abandoned, early, sessions, alive, retired, released,
                                closed>>
        BY <1>0, <2>3, <4>1 DEF engineVars, Types
      <4>2. ASSUME NEW k \in Cleanups, call' = [call EXCEPT ![k] = "sent"],
                   target' = [target EXCEPT ![k] = target[m.call]],
                   cancelled' = cancelled \ {m.call},
                   UNCHANGED <<abandoned, early, sessions, alive, retired, released, closed>>
            PROVE  Types'
        <5>1. k \in Executes /\ k \in Calls /\ target[m.call] \in Opens
          BY <1>0, <3>2, BridgeAssumption DEF Calls, Types
        <5> QED
          BY <1>0, <2>3, <4>2, <5>1 DEF engineVars, Types
      <4> QED
        BY <3>1, <3>2, <4>1, <4>2 DEF RetireExecute
    <3>3. CASE m.call \in Opens /\ RetireOpen(m)
      <4>1. CASE ~OnClosed("gone")
        BY <1>0, <2>3, <3>3, <4>1 DEF RetireOpen, engineVars, Types
      <4> QED
        BY <3>1, <4>1
    <3>4. CASE Settle(m)
      BY <2>2, <2>4, <3>0, <3>4 DEF Opened
    <3>5. CASE QueueEarly(m)
      <4>1. CASE UNCHANGED <<call, target, abandoned, cancelled, sessions, alive, retired, released,
                             closed, up>>
        BY <1>0, <2>3, <4>1 DEF engineVars, Types
      <4> QED
        BY <3>1, <3>5, <4>1 DEF QueueEarly
    <3> QED
      BY <2>10, <3>2, <3>3, <3>4, <3>5 DEF ReceiveResult
  <2> QED
    BY <1>6, <2>1, <2>6, <2>7, <2>8, <2>9, <2>10 DEF Receive
<1>7. ASSUME \/ CloseClient \/ LoseSocket
             \/ \E c \in Cleanups : CleanupTimesOut(c)
      PROVE  Types'
  BY <1>5, <1>7 DEF CloseClient, LoseSocket, CleanupTimesOut
<1>8. CASE HandleRequest
  <2>1. PICK m : m = Head(up)
    OBVIOUS
  <2>2. m.call \in Calls /\ (m.kind \in {"close", "closeRetired", "releaseSession"} => m.call \in Opens)
    BY <1>8, <2>1, HandleEffect, FrameKinds
  <2>3. UNCHANGED <<call, target, clientVars, closed, attached>>
    BY <1>8 DEF HandleRequest
  <2>4. /\ op' \in [Calls -> {"none", "active", "done", "freed"}]
        /\ run' \in [Calls -> {"none", "working", "emit", "end"}] /\ ctxDone' \subseteq Calls
        /\ host' \in [Opens -> {"none", "ready", "live", "ended"}]
        /\ reg' \in [Opens -> {"none", "open", "closing", "closed", "freed"}]
    <3>1. /\ op' = op \/ \E v \in {"active", "freed"} : op' = [op EXCEPT ![m.call] = v]
          /\ run' = run \/ run' = [run EXCEPT ![m.call] = "working"]
          /\ ctxDone' \subseteq ctxDone \cup {m.call}
      BY <1>8, <2>1, HandleEffect DEF engineVars
    <3>2. \/ host' = host
          \/ m.call \in Opens /\ \E v \in {"ended", host[m.call]} : host' = [host EXCEPT ![m.call] = v]
      BY <1>8, <2>1, <2>2, HandleEffect DEF engineVars
    <3>3. \/ reg' = reg
          \/ /\ m.call \in Opens
             /\ \E v \in {"closing", "freed", reg[m.call]} : reg' = [reg EXCEPT ![m.call] = v]
      <4>1. CASE m.kind \in {"close", "closeRetired"}
        BY <1>0, <1>8, <2>1, <2>2, <4>1, HandleEffect DEF Types
      <4>2. CASE m.kind \notin {"close", "closeRetired"}
        BY <1>8, <2>1, <2>2, <4>2, HandleEffect DEF engineVars
      <4> QED
        BY <4>1, <4>2
    <3> QED
      BY <1>0, <2>2, <3>1, <3>2, <3>3 DEF Types
  <2> QED
    BY <1>0, <2>3, <2>4 DEF clientVars, Types
<1>9. CASE SendReply \/ PumpEvent \/ UNCHANGED vars
  BY <1>0, <1>9 DEF SendReply, PumpEvent, vars, clientVars, engineVars, Types
<1>10. CASE DetachRenderer
  <2>1. /\ attached' = FALSE /\ ctxDone' = Calls /\ UNCHANGED <<call, target, clientVars, closed, run>>
    BY <1>10 DEF DetachRenderer
  <2>2. /\ op' \in [Calls -> {"none", "active", "done", "freed"}]
        /\ host' \in [Opens -> {"none", "ready", "live", "ended"}]
        /\ reg' \in [Opens -> {"none", "open", "closing", "closed", "freed"}]
    BY <1>0, <1>10 DEF DetachRenderer, Types
  <2> QED
    BY <1>0, <2>1, <2>2 DEF clientVars, Types
<1> QED
  BY <1>1, <1>2, <1>3, <1>4, <1>6, <1>7, <1>8, <1>9, <1>10 DEF Next, EngineStep

(* The events parked for calls that are not yet accepted.                   *)
LEMMA EarlyStep == IndInv /\ [Next]_vars => Cardinality(early)' <= MaxEarly
<1> SUFFICES ASSUME IndInv, [Next]_vars PROVE Cardinality(early') <= MaxEarly
  OBVIOUS
<1>0. Cardinality(early) <= MaxEarly /\ IsFiniteSet(early) /\ MaxEarly \in Nat
  BY TypeParts, BridgeAssumption DEF IndInv, Frames
<1>1. Cardinality(early) \in Nat /\ Cardinality({}) = 0
  BY <1>0, FS_CardinalityType, FS_EmptySet
<1>2. CASE Receive
  <2>1. PICK m : m = Head(down)
    OBVIOUS
  <2>2. \/ early' \in {early, {}}
        \/ \E e : early' = early \ {e}
        \/ early' = early \cup {m} /\ Cardinality(early) < MaxEarly
    <3>1. Received(m)
      BY <1>2, <2>1, ReceiveEffect
    <3> QED
      BY <3>1 DEF Received, Emptied
  <2>3. ASSUME NEW e PROVE Cardinality(early \ {e}) <= Cardinality(early)
    BY <1>0, <1>1, FS_RemoveElement
  <2>4. Cardinality(early \cup {m}) <= Cardinality(early) + 1
    <3>1. Cardinality(early \cup {m}) = IF m \in early THEN Cardinality(early)
                                       ELSE Cardinality(early) + 1
      BY <1>0, FS_AddElement
    <3> QED
      BY <1>1, <3>1
  <2>5. ASSUME NEW e PROVE Cardinality(early \ {e}) \in Nat
    BY <1>0, FS_RemoveElement, FS_CardinalityType
  <2>6. Cardinality(early \cup {m}) \in Nat
    BY <1>0, FS_AddElement, FS_CardinalityType
  <2>7. CASE early' \in {early, {}}
    BY <1>0, <1>1, <2>7
  <2>8. ASSUME NEW e, early' = early \ {e} PROVE Cardinality(early') <= MaxEarly
    BY <1>0, <1>1, <2>3, <2>5, <2>8
  <2>9. CASE early' = early \cup {m} /\ Cardinality(early) < MaxEarly
    BY <1>0, <1>1, <2>4, <2>6, <2>9
  <2> QED
    BY <2>2, <2>7, <2>8, <2>9
<1>3. CASE ~Receive
  <2>1. early' \in {early, {}}
    BY <1>3
    DEF Next, EngineStep, OpenStep, StartCall, AbandonRequest, AbandonOperation, FinishOperation,
        EmitResult, HostOpens, RegisterSession, SessionDies, FinishSession, CloseSession,
        CleanupTimesOut, CloseClient, LoseSocket, OnClosed, HandleRequest, SendReply, PumpEvent,
        DetachRenderer, vars, clientVars, bridgeVars
  <2> QED
    BY <1>0, <1>1, <2>1
<1> QED
  BY <1>2, <1>3
-----------------------------------------------------------------------------
(***************************************************************************)
(* The account of the handles, one part at a time.                         *)
(***************************************************************************)

(* The account of one call.                                                 *)
Account(c) ==
    /\ Started(c) /\ OneResult(c)
    /\ c \in Opens => OneClosing(c) /\ ResultFirst(c)

(* The account of all calls is the account of each of them, while a         *)
(* renderer is attached.                                                    *)
LEMMA AccountedFrom ==
  ASSUME attached', \A c \in Calls : Account(c)'
  PROVE  Accounted'
  BY DEF Accounted, Account, Calls

(* A step that sends nothing but what the account does not speak of, and     *)
(* leaves the engine's handles of the call alone.                           *)
LEMMA AccountKept ==
  ASSUME NEW c \in Calls, Account(c),
         call'[c] = "idle" => call[c] = "idle",
         op'[c] = op[c], run'[c] = run[c], c \in Opens => reg'[c] = reg[c],
         early' = early, events' = events,
         up' = up \/ \E m : Added(up, up', m) /\ m.kind \in {"cancel", "close"},
         \/ down' = down
         \/ \E m : Added(down, down', m) /\ m.kind \in {"accepted", "refused", "closeFailed"}
  PROVE  Account(c)'
<1>1. \A k \in {"start", "releaseOperation", "closeRetired", "releaseSession"} :
         /\ Has(up', k, c) <=> Has(up, k, c)
         /\ Once(up, k, c) => Once(up', k, c)
         /\ \A l : Before(up, k, l, c) => Before(up', k, l, c)
  BY DEF Added, Is
<1>2. \A k \in {"result", "sessionClosed"} :
         /\ Has(down', k, c) <=> Has(down, k, c)
         /\ Once(down, k, c) => Once(down', k, c)
         /\ \A l : Before(down, k, l, c) => Before(down', k, l, c)
  BY DEF Added, Taken, Is
<1>3. Started(c)'
  BY <1>1 DEF Account, Started
<1>4. OneResult(c)'
  BY <1>1, <1>2 DEF Account, OneResult, Parked
<1>5. c \in Opens => OneClosing(c)'
  BY <1>1, <1>2 DEF Account, OneClosing
<1>6. c \in Opens => ResultFirst(c)'
  BY <1>1, <1>2 DEF Account, ResultFirst
<1> QED
  BY <1>3, <1>4, <1>5, <1>6 DEF Account

(* openSession and execute send the first request of their call.            *)
LEMMA StartCallAccount ==
  ASSUME IndInv, attached, NEW d \in Calls, StartCall(d), NEW c \in Calls, Account(c)
  PROVE  Account(c)'
<1>0. Frames /\ Types
  BY TypeParts DEF IndInv
<1>1. /\ call[d] = "idle" /\ call' = [call EXCEPT ![d] = "sent"]
      /\ UNCHANGED <<down, early, events, run, op, reg>>
  BY DEF StartCall, clientVars, engineVars
<1>2. Added(up, up', Request("start", d))
  <2>1. up' = Append(up, Request("start", d)) /\ Request("start", d) \in UpFrames
    BY ClientSends, FrameMakes
  <2> QED
    BY <1>0, <2>1, AppendQueue DEF Frames
<1>3. \A k \in {"releaseOperation", "closeRetired", "releaseSession"} :
         /\ Has(up', k, c) <=> Has(up, k, c)
         /\ Once(up, k, c) => Once(up', k, c)
         /\ \A l : Before(up, k, l, c) => Before(up', k, l, c)
  BY <1>2, FrameMakes DEF Added
<1>4. Started(c)'
  <2>1. CASE c = d
    <3>1. ~Has(up, "start", c) /\ op[c] = "none" /\ call'[c] # "idle"
      BY <1>0, <1>1, <2>1 DEF Account, Started, Types
    <3> QED
      BY <1>1, <1>2, <2>1, <3>1 DEF Account, Started, Added
  <2>2. CASE c # d
    <3>1. call'[c] = call[c] /\ (Has(up', "start", c) <=> Has(up, "start", c))
          /\ (Once(up, "start", c) => Once(up', "start", c))
      BY <1>0, <1>1, <1>2, <2>2, FrameMakes DEF Added, Types
    <3> QED
      BY <1>1, <3>1 DEF Account, Started
  <2> QED
    BY <2>1, <2>2
<1>5. OneResult(c)'
  BY <1>1, <1>3 DEF Account, OneResult, Parked
<1>6. c \in Opens => OneClosing(c)'
  BY <1>1, <1>3 DEF Account, OneClosing
<1>7. c \in Opens => ResultFirst(c)'
  BY <1>1, <1>3 DEF Account, ResultFirst
<1> QED
  BY <1>4, <1>5, <1>6, <1>7 DEF Account

(* The bridge's pump moves an event to the socket, or drops it once the      *)
(* client has closed.                                                      *)
LEMMA PumpAccount ==
  ASSUME IndInv, PumpEvent, NEW c \in Calls, Account(c)
  PROVE  Account(c)'
<1> DEFINE m == Head(events)
<1>0. Frames
  BY DEF IndInv
<1>1. UNCHANGED <<call, early, up, run, op, reg>> /\ events' = Tail(events) /\ events # <<>>
      /\ (down' = down \/ down' = Append(down, m))
  BY DEF PumpEvent, Deliver, clientVars, engineVars
<1>2. Taken(events, events', m) /\ m \in EventFrames
  BY <1>0, <1>1, TailQueue DEF Frames
<1>3. down' = down \/ Added(down, down', m)
  BY <1>0, <1>1, <1>2, AppendQueue DEF Frames
<1> HIDE DEF m
<1>4. Started(c)'
  BY <1>1 DEF Account, Started
<1>5. OneResult(c)'
  BY <1>1, <1>2, <1>3 DEF Account, OneResult, Parked, Taken, Added
<1>6. c \in Opens => OneClosing(c)'
  BY <1>1, <1>2, <1>3 DEF Account, OneClosing, Taken, Added
<1>7. c \in Opens => ResultFirst(c)'
  <2>1. ~(Is(m, "result", c) /\ Is(m, "sessionClosed", c))
    BY DEF Is
  <2>2. ASSUME c \in Opens PROVE ResultFirst(c)'
    BY <1>1, <1>2, <1>3, <2>1, <2>2 DEF Account, ResultFirst, OneClosing, Taken, Added
  <2> QED
    BY <2>2
<1> QED
  BY <1>4, <1>5, <1>6, <1>7 DEF Account
(* The client closes, or gives up: what it held and what was on its way to   *)
(* it is gone.                                                             *)
LEMMA ClosedAccount ==
  ASSUME IndInv, NEW c \in Calls, Account(c),
         call'[c] = "idle" => call[c] = "idle",
         down' = <<>>, early' = {}, UNCHANGED <<events, run, op, reg>>,
         up' = up \/ \E m : Added(up, up', m) /\ m.kind = "cancel"
  PROVE  Account(c)'
<1>0. \A k \in {"start", "releaseOperation", "closeRetired", "releaseSession"} :
         /\ Has(up', k, c) <=> Has(up, k, c)
         /\ Once(up, k, c) => Once(up', k, c)
         /\ \A l : Before(up, k, l, c) => Before(up', k, l, c)
  BY DEF Added, Is
<1>1. \A k, l : ~Has(down', k, c) /\ Once(down', k, c) /\ Before(down', k, l, c)
  BY EmptyQueue
<1>2. ~Parked(c)'
  BY DEF Parked
<1>3. Started(c)'
  BY <1>0 DEF Account, Started
<1>4. OneResult(c)'
  BY <1>0, <1>1, <1>2 DEF Account, OneResult, Parked
<1>5. c \in Opens => OneClosing(c)'
  BY <1>0, <1>1 DEF Account, OneClosing
<1>6. c \in Opens => ResultFirst(c)'
  BY <1>0, <1>1 DEF Account, ResultFirst
<1> QED
  BY <1>3, <1>4, <1>5, <1>6 DEF Account

(* The engine's goroutines work on operations that have no result yet.       *)
LEMMA EngineAccount ==
  ASSUME IndInv, attached, NEW d \in Calls,
         (d \in Opens /\ RegisterSession(d)) \/ FinishOperation(d),
         NEW c \in Calls, Account(c)
  PROVE  Account(c)'
<1>0. Types
  BY TypeParts DEF IndInv
<1>1. /\ UNCHANGED <<call, up, down, events, early>> /\ run[d] = "working"
      /\ op' = [op EXCEPT ![d] = IF op[d] = "active" THEN "done" ELSE op[d]]
      /\ run' = [run EXCEPT ![d] = "emit"]
      /\ reg' = reg \/ (d \in Opens /\ reg' = [reg EXCEPT ![d] = "open"])
  BY <1>0 DEF RegisterSession, FinishOperation, bridgeVars, clientVars, Types
<1>2. /\ c # d => op'[c] = op[c] /\ run'[c] = run[c]
      /\ run'[d] = "emit" /\ (op[d] # "none" => op'[d] # "none")
      /\ c \in Opens /\ c # d => reg'[c] = reg[c]
      /\ c \in Opens /\ c = d => reg'[c] = reg[c] \/ reg'[c] = "open"
  BY <1>0, <1>1 DEF Types
<1>3. CASE c # d
  BY <1>1, <1>2, <1>3, AccountKept
<1>4. CASE c = d
  <2>1. Started(c)'
    BY <1>1, <1>2, <1>4 DEF Account, Started
  <2>2. OneResult(c)'
    BY <1>1, <1>2, <1>4 DEF Account, OneResult, Parked
  <2>3. c \in Opens => OneClosing(c)'
    BY <1>1, <1>2, <1>4 DEF Account, OneClosing
  <2>4. c \in Opens => ResultFirst(c)'
    BY <1>1, <1>2, <1>4 DEF Account, ResultFirst
  <2> QED
    BY <2>1, <2>2, <2>3, <2>4 DEF Account
<1> QED
  BY <1>3, <1>4

(* The one result of an operation, before anything its session may emit.     *)
LEMMA EmitAccount ==
  ASSUME IndInv, attached, NEW d \in Calls, EmitResult(d), NEW c \in Calls, Account(c)
  PROVE  Account(c)'
<1>0. Types /\ Frames
  BY TypeParts DEF IndInv
<1>p. PICK o \in Outcomes(d) : \/ op[d] = "done" /\ events' = Append(events, Result(d, o))
                               \/ events' = events
  <2>1. "nothing" \in Outcomes(d) \/ "session" \in Outcomes(d)
    BY DEF Outcomes
  <2> QED
    BY <2>1 DEF EmitResult, Emit
<1> DEFINE m == Result(d, o)
<1>1. /\ UNCHANGED <<call, up, down, early, op, reg>> /\ run[d] = "emit"
      /\ run' = [run EXCEPT ![d] = "end"]
      /\ \/ op[d] = "done" /\ events' = Append(events, m)
         \/ events' = events
  BY <1>p DEF EmitResult, bridgeVars, clientVars
<1>2. m \in EventFrames
  BY FrameMakes, BridgeAssumption DEF Outcomes
<1>3. \/ events' = events
      \/ op[d] = "done" /\ Added(events, events', m)
  BY <1>0, <1>1, <1>2, AppendQueue DEF Frames
<1>4. (c # d => run'[c] = run[c]) /\ run'[d] = "end"
  BY <1>0, <1>1 DEF Types
<1>5. \A k : Is(m, k, c) <=> k = "result" /\ c = d
  BY FrameMakes
<1> HIDE DEF m
<1>6. Started(c)'
  BY <1>1, <1>4 DEF Account, Started
<1>7. OneResult(c)'
  BY <1>1, <1>3, <1>4, <1>5 DEF Account, OneResult, Parked, Added
<1>8. ASSUME c \in Opens PROVE OneClosing(c)'
  BY <1>1, <1>3, <1>4, <1>5, <1>8 DEF Account, OneClosing, Added
<1>9. ASSUME c \in Opens PROVE ResultFirst(c)'
  BY <1>1, <1>3, <1>4, <1>5, <1>9 DEF Account, ResultFirst, OneClosing, Added
<1> QED
  BY <1>6, <1>7, <1>8, <1>9 DEF Account

(* The one end of a session, after the result that opened it.               *)
LEMMA FinishAccount ==
  ASSUME IndInv, attached, NEW d \in Opens, FinishSession(d), NEW c \in Calls, Account(c)
  PROVE  Account(c)'
<1> DEFINE m == Request("sessionClosed", d)
<1>0. Types /\ Frames
  BY TypeParts DEF IndInv
<1>1. /\ UNCHANGED <<call, up, down, early, op, run>> /\ run[d] = "end"
      /\ reg[d] \in {"open", "closing"} /\ reg' = [reg EXCEPT ![d] = "closed"]
      /\ events' = Append(events, m)
  BY DEF FinishSession, Emit, bridgeVars, clientVars
<1>2. m \in EventFrames
  BY FrameMakes
<1>3. Added(events, events', m)
  BY <1>0, <1>1, <1>2, AppendQueue DEF Frames
<1>4. (c \in Opens /\ c # d => reg'[c] = reg[c]) /\ reg'[d] = "closed"
  BY <1>0, <1>1 DEF Types
<1>5. \A k : Is(m, k, c) <=> k = "sessionClosed" /\ c = d
  BY FrameMakes
<1> HIDE DEF m
<1>6. Started(c)'
  BY <1>1 DEF Account, Started
<1>7. OneResult(c)'
  BY <1>1, <1>3, <1>5 DEF Account, OneResult, Parked, Added
<1>8. ASSUME c \in Opens PROVE OneClosing(c)'
  BY <1>1, <1>3, <1>4, <1>5, <1>8 DEF Account, OneClosing, Added
<1>9. ASSUME c \in Opens PROVE ResultFirst(c)'
  BY <1>1, <1>3, <1>4, <1>5, <1>9 DEF Account, ResultFirst, OneClosing, Added
<1> QED
  BY <1>6, <1>7, <1>8, <1>9 DEF Account
(* The bridge takes a request: an operation starts once, and a handle is     *)
(* freed only by the one request to release it.                            *)
LEMMA HandleAccount ==
  ASSUME IndInv, HandleRequest, NEW c \in Calls, Account(c)
  PROVE  Account(c)'
<1> DEFINE m == Head(up)
<1>0. Types
  BY TypeParts DEF IndInv
<1>1. /\ m \in UpFrames /\ Taken(up, up', m)
      /\ UNCHANGED <<call, down, events, early>>
  BY HandleEffect DEF clientVars
<1>2. /\ m.kind \in {"start", "cancel", "close", "closeRetired", "releaseOperation",
                     "releaseSession"}
      /\ m.call \in Calls
      /\ m.kind \in {"close", "closeRetired", "releaseSession"} => m.call \in Opens
  BY <1>1, FrameKinds
<1>3. \A k : Is(m, k, c) <=> k = m.kind /\ c = m.call
  BY DEF Is
<1>4. \/ op' = op /\ run' = run
      \/ m.kind = "start" /\ op' = [op EXCEPT ![m.call] = "active"]
         /\ run' = [run EXCEPT ![m.call] = "working"]
      \/ m.kind = "releaseOperation" /\ op' = [op EXCEPT ![m.call] = "freed"] /\ run' = run
  BY HandleEffect DEF engineVars
<1>5. \/ reg' = reg
      \/ /\ m.kind \in {"close", "closeRetired"}
         /\ reg' = [reg EXCEPT ![m.call] = IF @ = "open" THEN "closing" ELSE @]
      \/ m.kind = "releaseSession" /\ reg' = [reg EXCEPT ![m.call] = "freed"]
  BY HandleEffect DEF engineVars
<1> HIDE DEF m
<1>6. \/ op'[c] = op[c] /\ run'[c] = run[c]
      \/ c = m.call /\ m.kind = "start" /\ op'[c] = "active" /\ run'[c] = "working"
      \/ c = m.call /\ m.kind = "releaseOperation" /\ op'[c] = "freed" /\ run'[c] = run[c]
  BY <1>0, <1>4 DEF Types
<1>7. ASSUME c \in Opens
      PROVE  \/ reg'[c] = reg[c]
             \/ reg[c] = "open" /\ reg'[c] = "closing"
             \/ c = m.call /\ m.kind = "releaseSession" /\ reg'[c] = "freed"
  BY <1>0, <1>2, <1>5, <1>7 DEF Types
<1>8. Started(c)'
  BY <1>1, <1>3, <1>6 DEF Account, Started, OneResult, Taken
<1>9. OneResult(c)'
  BY <1>1, <1>3, <1>6 DEF Account, OneResult, Started, Parked, Taken
<1>10. ASSUME c \in Opens PROVE OneClosing(c)'
  <2>1. c = m.call /\ m.kind = "start" => run[c] # "end"
    BY <1>1, <1>3 DEF Account, Started, Taken
  <2>2. run'[c] # "end" => run[c] # "end"
    BY <1>6, <2>1
  <2>3. c = m.call /\ m.kind = "releaseSession" => run[c] = "end" /\ run'[c] = "end"
    BY <1>1, <1>3, <1>6, <1>10 DEF Account, OneClosing, Taken
  <2>4. Once(up', "releaseSession", c) /\ (Has(up', "releaseSession", c) => Has(up, "releaseSession", c))
        /\ (c = m.call /\ m.kind = "releaseSession" =>
              Has(up, "releaseSession", c) /\ ~Has(up', "releaseSession", c))
    BY <1>1, <1>3, <1>10 DEF Account, OneClosing, Taken
  <2>5. run[c] = "end" => run'[c] = "end"
    BY <1>6, <2>1
  <2> QED
    BY <1>1, <1>7, <1>10, <2>2, <2>3, <2>4, <2>5 DEF Account, OneClosing
<1>11. ASSUME c \in Opens PROVE ResultFirst(c)'
  BY <1>1, <1>3, <1>7, <1>11 DEF Account, ResultFirst, Taken
<1> QED
  BY <1>8, <1>9, <1>10, <1>11 DEF Account

(* The client takes a frame: a result leads to one release of its operation, *)
(* the end of a session to one release of the session, in this order.       *)
LEMMA ReceiveAccount ==
  ASSUME IndInv, attached, Receive, NEW c \in Calls, Account(c)
  PROVE  Account(c)'
<1> DEFINE m == Head(down)
<1>0. Types /\ Frames
  BY TypeParts DEF IndInv
<1>1. /\ m \in EventFrames \cup ReplyFrames /\ down # <<>>
      /\ UNCHANGED <<events, run, op, reg>> /\ (call'[c] = "idle" => call[c] = "idle")
  BY ReceiveEffect DEF engineVars
<1>2. /\ m.kind \in {"accepted", "refused", "closeFailed", "result", "sessionClosed"}
      /\ m.call \in Calls /\ (m.kind = "sessionClosed" => m.call \in Opens)
  BY <1>1, FrameKinds
<1>3. Taken(down, Tail(down), m)
  BY <1>0, <1>1, TailQueue DEF Frames
<1>4. \A k : Is(m, k, c) <=> k = m.kind /\ c = m.call
  BY DEF Is
<1>5. ASSUME NEW k, NEW d, Request(k, d) \in UpFrames
      PROVE  Added(up, Append(up, Request(k, d)), Request(k, d))
             /\ Append(up, Request(k, d)) \in Seq(UpFrames)
  BY <1>0, <1>5, AppendQueue DEF Frames
<1>6. Received(m)
  BY ReceiveEffect
<1> HIDE DEF m
\* The frame was the first on the socket; it is taken off, or all are.
<1>h. Has(down, m.kind, m.call)
  BY <1>3 DEF Taken, Is
<1>d. ASSUME down' = Tail(down) \/ down' = <<>>
      PROVE  /\ \A k : Has(down', k, c) => Has(down, k, c)
             /\ \A k : Once(down, k, c) =>
                         Once(down', k, c) /\ (k = m.kind /\ c = m.call => ~Has(down', k, c))
             /\ \A k, l : Before(down, k, l, c) =>
                         Before(down', k, l, c) /\ (l = m.kind /\ c = m.call => ~Has(down', k, c))
  <2>1. CASE down' = Tail(down)
    BY <1>3, <1>4, <2>1 DEF Taken
  <2>2. CASE down' = <<>>
    BY <2>2, EmptyQueue
  <2> QED
    BY <1>d, <2>1, <2>2
\* One request is sent.
<1>u. ASSUME NEW k, NEW d, Request(k, d) \in UpFrames, up' = Append(up, Request(k, d))
      PROVE  /\ \A j : Has(up', j, c) <=> Has(up, j, c) \/ (j = k /\ c = d)
             /\ \A j : Once(up, j, c) /\ ~(Has(up, j, c) /\ j = k /\ c = d) => Once(up', j, c)
             /\ \A j, l : Before(up, j, l, c) /\ (j = k /\ c = d => ~Has(up, l, c) /\ l # k)
                             => Before(up', j, l, c)
  BY <1>5, <1>u, FrameMakes DEF Added
\* Two requests are sent, for one call or for two.
<1>v. ASSUME NEW k, NEW d, Request(k, d) \in UpFrames, NEW f \in Calls,
             up' = Append(Append(up, Request(k, d)), Request("releaseOperation", f)),
             k \in {"start", "closeRetired"}
      PROVE  /\ \A j : Has(up', j, c) <=> Has(up, j, c) \/ (j = k /\ c = d)
                                          \/ (j = "releaseOperation" /\ c = f)
             /\ \A j : /\ Once(up, j, c) /\ ~(Has(up, j, c) /\ j = k /\ c = d)
                       /\ ~(Has(up, j, c) /\ j = "releaseOperation" /\ c = f)
                       => Once(up', j, c)
             /\ /\ Before(up, "closeRetired", "releaseSession", c)
                /\ k = "closeRetired" /\ c = d => ~Has(up, "releaseSession", c)
                => Before(up', "closeRetired", "releaseSession", c)
  <2> DEFINE s == Append(up, Request(k, d))
  <2>1. Added(up, s, Request(k, d)) /\ s \in Seq(UpFrames)
    BY <1>5, <1>v
  <2> HIDE DEF s
  <2>2. Added(s, up', Request("releaseOperation", f))
    BY <1>v, <2>1, AppendQueue, FrameMakes DEF s
  <2>3. /\ \A j : Is(Request(k, d), j, c) <=> j = k /\ c = d
        /\ \A j : Is(Request("releaseOperation", f), j, c) <=> j = "releaseOperation" /\ c = f
    BY FrameMakes
  <2> QED
    BY <1>v, <2>1, <2>2, <2>3 DEF Added
<1>7. CASE Emptied /\ up' = up
  BY <1>1, <1>7, ClosedAccount DEF Emptied
<1>8. CASE /\ down' = Tail(down) /\ m.kind # "result" /\ early' = early
           /\ up' = up \/ up' = Append(up, Request("cancel", m.call))
  <2>1. \A k \in {"start", "releaseOperation", "closeRetired", "releaseSession"} :
           /\ Has(up', k, c) <=> Has(up, k, c)
           /\ Once(up, k, c) => Once(up', k, c)
           /\ \A l : Before(up, k, l, c) => Before(up', k, l, c)
    BY <1>2, <1>8, <1>u, FrameMakes
  <2>2. Started(c)'
    BY <1>1, <2>1 DEF Account, Started
  <2>3. OneResult(c)'
    BY <1>1, <1>8, <1>d, <2>1 DEF Account, OneResult, Parked
  <2>4. ASSUME c \in Opens PROVE OneClosing(c)'
    BY <1>1, <1>8, <1>d, <2>1, <2>4 DEF Account, OneClosing
  <2>5. ASSUME c \in Opens PROVE ResultFirst(c)'
    BY <1>1, <1>8, <1>d, <2>1, <2>5 DEF Account, ResultFirst
  <2> QED
    BY <2>2, <2>3, <2>4, <2>5 DEF Account
<1>9. ASSUME NEW e \in early, m.kind # "result",
             Emptied \/ (down' = Tail(down) /\ early' = early \ {e}),
             up' = Append(up, Request("releaseOperation", e.call))
      PROVE  Account(c)'
  <2>0. e.call \in Calls /\ (down' = Tail(down) \/ down' = <<>>)
    BY <1>0, <1>9 DEF Frames, Results, Result, Emptied
  <2>1. /\ \A j : Has(up', j, c) <=> Has(up, j, c) \/ (j = "releaseOperation" /\ c = e.call)
        /\ \A j : Once(up, j, c) /\ ~(Has(up, j, c) /\ j = "releaseOperation" /\ c = e.call)
                    => Once(up', j, c)
        /\ Before(up, "closeRetired", "releaseSession", c)
              => Before(up', "closeRetired", "releaseSession", c)
    BY <1>9, <1>u, <2>0, FrameMakes
  <2>2. early' \subseteq early /\ (Parked(c)' => Parked(c) /\ (OneResult(c) => c # e.call))
    BY <1>9 DEF Parked, OneResult, Emptied
  <2>3. e.call = c => Parked(c)
    BY <1>9 DEF Parked
  <2>4. Started(c)'
    BY <1>1, <2>1 DEF Account, Started
  <2>5. OneResult(c)'
    BY <1>1, <1>d, <2>0, <2>1, <2>2, <2>3 DEF Account, OneResult
  <2>6. ASSUME c \in Opens PROVE OneClosing(c)'
    BY <1>1, <1>d, <2>0, <2>1, <2>6 DEF Account, OneClosing
  <2>7. ASSUME c \in Opens PROVE ResultFirst(c)'
    BY <1>1, <1>d, <2>0, <2>1, <2>7 DEF Account, ResultFirst
  <2> QED
    BY <2>4, <2>5, <2>6, <2>7 DEF Account
<1>10. ASSUME m.kind = "result",
              Emptied \/ (down' = Tail(down) /\ early' \in {early, early \ {m}}),
              \/ up' = Append(up, Request("releaseOperation", m.call))
              \/ /\ m.call \in Opens
                 /\ up' = Append(Append(up, Request("closeRetired", m.call)),
                                 Request("releaseOperation", m.call))
              \/ \E k \in Calls : /\ call[k] = "idle" /\ call'[k] = "sent"
                                  /\ up' = Append(Append(up, Request("start", k)),
                                                  Request("releaseOperation", m.call))
       PROVE  Account(c)'
  <2>0. /\ c = m.call => Has(down, "result", c)
        /\ down' = Tail(down) \/ down' = <<>>
        /\ early' \subseteq early /\ (Parked(c)' => Parked(c))
    BY <1>10, <1>h DEF Emptied, Parked
  <2>1. /\ Has(up', "start", c) => Has(up, "start", c)
                                   \/ (call[c] = "idle" /\ call'[c] = "sent")
        /\ call[c] # "idle" => (Has(up', "start", c) <=> Has(up, "start", c))
        /\ Once(up, "start", c) /\ (call[c] = "idle" => ~Has(up, "start", c))
              => Once(up', "start", c)
        /\ call'[c] = "idle" => (Has(up', "start", c) <=> Has(up, "start", c))
        /\ Has(up', "releaseSession", c) <=> Has(up, "releaseSession", c)
        /\ Has(up', "releaseOperation", c) <=> Has(up, "releaseOperation", c) \/ c = m.call
        /\ Has(up', "closeRetired", c) => Has(up, "closeRetired", c) \/ c = m.call
        /\ Once(up, "releaseSession", c) => Once(up', "releaseSession", c)
        /\ Once(up, "releaseOperation", c) /\ ~(Has(up, "releaseOperation", c) /\ c = m.call)
              => Once(up', "releaseOperation", c)
        /\ Before(up, "closeRetired", "releaseSession", c)
           /\ (c = m.call => ~Has(up, "releaseSession", c))
              => Before(up', "closeRetired", "releaseSession", c)
    <3>1. CASE up' = Append(up, Request("releaseOperation", m.call))
      BY <1>2, <1>u, <3>1, FrameMakes
    <3>2. CASE /\ m.call \in Opens
               /\ up' = Append(Append(up, Request("closeRetired", m.call)),
                               Request("releaseOperation", m.call))
      BY <1>2, <1>v, <3>2, FrameMakes
    <3>3. ASSUME NEW k \in Calls, call[k] = "idle", call'[k] = "sent",
                 up' = Append(Append(up, Request("start", k)), Request("releaseOperation", m.call))
          PROVE  <2>1!:
      <4>1. Request("start", k) \in UpFrames
        BY FrameMakes
      <4>2. /\ \A j : Has(up', j, c) <=> Has(up, j, c) \/ (j = "start" /\ c = k)
                                         \/ (j = "releaseOperation" /\ c = m.call)
            /\ \A j : /\ Once(up, j, c) /\ ~(Has(up, j, c) /\ j = "start" /\ c = k)
                      /\ ~(Has(up, j, c) /\ j = "releaseOperation" /\ c = m.call)
                      => Once(up', j, c)
            /\ Before(up, "closeRetired", "releaseSession", c)
                  => Before(up', "closeRetired", "releaseSession", c)
        BY <1>2, <1>v, <3>3, <4>1
      <4> QED
        BY <3>3, <4>2
    <3> QED
      BY <1>10, <3>1, <3>2, <3>3
  <2>2. Started(c)'
    BY <1>1, <2>1 DEF Account, Started
  <2>3. OneResult(c)'
    BY <1>1, <1>10, <1>d, <2>0, <2>1 DEF Account, OneResult
  <2>4. ASSUME c \in Opens PROVE OneClosing(c)'
    BY <1>1, <1>d, <2>0, <2>1, <2>4 DEF Account, OneClosing
  <2>5. ASSUME c \in Opens PROVE ResultFirst(c)'
    BY <1>1, <1>d, <2>0, <2>1, <2>5 DEF Account, ResultFirst
  <2> QED
    BY <2>2, <2>3, <2>4, <2>5 DEF Account
<1>11. CASE down' = Tail(down) /\ m.kind = "result" /\ early' = early \cup {m} /\ up' = up
  <2>0. c = m.call => Has(down, "result", c)
    BY <1>11, <1>h
  <2>1. Parked(c)' <=> Parked(c) \/ c = m.call
    BY <1>11 DEF Parked
  <2>2. Started(c)'
    BY <1>1, <1>11 DEF Account, Started
  <2>3. OneResult(c)'
    <3>1. \A e, f \in early' : e.call = c /\ f.call = c => e = f
      BY <1>11, <2>0 DEF Account, OneResult, Parked
    <3> QED
      BY <1>1, <1>11, <1>d, <2>0, <2>1, <3>1 DEF Account, OneResult
  <2>4. ASSUME c \in Opens PROVE OneClosing(c)'
    BY <1>1, <1>11, <1>d, <2>4 DEF Account, OneClosing
  <2>5. ASSUME c \in Opens PROVE ResultFirst(c)'
    BY <1>1, <1>11, <1>d, <2>5 DEF Account, ResultFirst
  <2> QED
    BY <2>2, <2>3, <2>4, <2>5 DEF Account
<1>12. CASE /\ down' = Tail(down) /\ m.kind = "sessionClosed" /\ early' = early
            /\ up' = Append(up, Request("releaseSession", m.call))
  <2>0. c = m.call => Has(down, "sessionClosed", c)
    BY <1>12, <1>h
  <2>1. /\ \A j : Has(up', j, c) <=> Has(up, j, c) \/ (j = "releaseSession" /\ c = m.call)
        /\ \A j : Once(up, j, c) /\ ~(Has(up, j, c) /\ j = "releaseSession" /\ c = m.call)
                    => Once(up', j, c)
        /\ Before(up, "closeRetired", "releaseSession", c)
              => Before(up', "closeRetired", "releaseSession", c)
    BY <1>2, <1>12, <1>u, FrameMakes
  <2>2. Started(c)'
    BY <1>1, <2>1 DEF Account, Started
  <2>3. OneResult(c)'
    BY <1>1, <1>12, <1>d, <2>1 DEF Account, OneResult, Parked
  <2>4. ASSUME c \in Opens PROVE OneClosing(c)'
    BY <1>1, <1>12, <1>d, <2>0, <2>1, <2>4 DEF Account, OneClosing
  <2>5. ASSUME c \in Opens PROVE ResultFirst(c)'
    BY <1>1, <1>12, <1>d, <2>0, <2>1, <2>5 DEF Account, ResultFirst
  <2> QED
    BY <2>2, <2>3, <2>4, <2>5 DEF Account
<1> QED
  BY <1>6, <1>7, <1>8, <1>9, <1>10, <1>11, <1>12 DEF Received

(* A renderer is detached once and for all, and then handles no request.     *)
LEMMA AttachedStep ==
  ASSUME [Next]_vars
  PROVE  /\ (attached' <=> attached) \/ (DetachRenderer /\ attached /\ ~attached')
         /\ HandleRequest => attached
<1>1. ASSUME NEW c \in Calls, StartCall(c) \/ AbandonRequest(c) \/ AbandonOperation(c)
                               \/ EngineStep(c)
      PROVE  attached' <=> attached
  BY <1>1 DEF StartCall, AbandonRequest, AbandonOperation, EngineStep, FinishOperation, EmitResult,
              bridgeVars
<1>2. ASSUME NEW c \in Opens, OpenStep(c) \/ SessionDies(c) \/ FinishSession(c) \/ CloseSession(c)
      PROVE  attached' <=> attached
  BY <1>2 DEF OpenStep, HostOpens, RegisterSession, SessionDies, FinishSession, CloseSession,
              bridgeVars
<1>3. ASSUME Receive \/ CloseClient \/ LoseSocket \/ HandleRequest \/ SendReply \/ PumpEvent
             \/ UNCHANGED vars
      PROVE  attached' <=> attached
  BY <1>3 DEF Receive, CloseClient, LoseSocket, HandleRequest, SendReply, PumpEvent, vars
<1>7. ASSUME NEW c \in Cleanups, CleanupTimesOut(c)
      PROVE  attached' <=> attached
  BY <1>7 DEF CleanupTimesOut
<1>4. DetachRenderer => attached /\ ~attached'
  BY DEF DetachRenderer
<1>5. HandleRequest => attached
  BY DEF HandleRequest
<1>6. (attached' <=> attached) \/ (DetachRenderer /\ attached /\ ~attached')
  BY <1>1, <1>2, <1>3, <1>4, <1>7, Zenon DEF Next
<1> QED
  BY <1>5, <1>6, Zenon

(* Every handler keeps the account: an engine handle is owned by a call     *)
(* that is pending, or a frame that will release it is under way.           *)
LEMMA AccountedStep == IndInv /\ [Next]_vars => Accounted'
<1> SUFFICES ASSUME IndInv, [Next]_vars PROVE Accounted'
  OBVIOUS
<1>0. Types /\ Frames /\ Accounted /\ (attached => \A c \in Calls : Account(c))
  BY TypeParts DEF IndInv, Accounted, Account, Calls
<1>1. CASE ~attached
  <2>1. ~attached' /\ ~HandleRequest /\ ~DetachRenderer
    BY <1>1, AttachedStep, Zenon DEF DetachRenderer
  <2>2. op' = op \/ \E d \in Calls : op' = [op EXCEPT ![d] = IF @ = "active" THEN "done" ELSE @]
    BY <2>1
    DEF Next, EngineStep, OpenStep, StartCall, AbandonRequest, AbandonOperation, FinishOperation,
        EmitResult, HostOpens, RegisterSession, SessionDies, FinishSession, CloseSession, Receive,
        CleanupTimesOut, CloseClient, LoseSocket, SendReply, PumpEvent, vars, engineVars, Calls
  <2> QED
    BY <1>0, <1>1, <2>1, <2>2 DEF Accounted, Types
<1>2. CASE attached /\ DetachRenderer
  BY <1>2 DEF DetachRenderer, Accounted
<1>3. CASE attached /\ ~DetachRenderer
  <2>1. attached'
    BY <1>3, AttachedStep, Zenon
  <2> SUFFICES ASSUME NEW c \in Calls PROVE Account(c)'
    BY <2>1, AccountedFrom
  <2>2. Account(c)
    BY <1>0, <1>3
  <2>3. ASSUME NEW d \in Calls, StartCall(d) PROVE Account(c)'
    BY <1>3, <2>2, <2>3, StartCallAccount
  <2>4. ASSUME NEW d \in Calls, AbandonRequest(d) PROVE Account(c)'
    <3>1. /\ call' = [call EXCEPT ![d] = "dropped"]
          /\ UNCHANGED <<up, down, early, events, run, op, reg>>
      BY <2>4 DEF AbandonRequest, engineVars
    <3>2. call'[c] = "idle" => call[c] = "idle"
      BY <1>0, <3>1 DEF Types
    <3> QED
      BY <2>2, <3>1, <3>2, AccountKept
  <2>5. ASSUME NEW d \in Calls, AbandonOperation(d) PROVE Account(c)'
    <3>1. /\ call' = [call EXCEPT ![d] = "aborted"]
          /\ UNCHANGED <<down, early, events, run, op, reg>>
      BY <2>5 DEF AbandonOperation, engineVars
    <3>2. call'[c] = "idle" => call[c] = "idle"
      BY <1>0, <3>1 DEF Types
    <3>3. up' = Append(up, Request("cancel", d)) /\ Request("cancel", d) \in UpFrames
      BY <2>5, ClientSends, FrameMakes
    <3>4. Added(up, up', Request("cancel", d)) /\ Request("cancel", d).kind = "cancel"
      BY <1>0, <3>3, AppendQueue DEF Frames, Request
    <3> QED
      BY <2>2, <3>1, <3>2, <3>4, AccountKept
  <2>6. ASSUME NEW d \in Opens, CloseSession(d) PROVE Account(c)'
    <3>1. UNCHANGED <<call, down, early, events, run, op, reg>>
      BY <2>6 DEF CloseSession, engineVars
    <3>2. up' = Append(up, Request("close", d)) /\ Request("close", d) \in UpFrames
      BY <2>6, ClientSends, FrameMakes DEF Calls
    <3>3. Added(up, up', Request("close", d)) /\ Request("close", d).kind = "close"
      BY <1>0, <3>2, AppendQueue DEF Frames, Request
    <3> QED
      BY <2>2, <3>1, <3>3, AccountKept
  <2>7. ASSUME NEW d \in Calls, FinishOperation(d) PROVE Account(c)'
    BY <1>3, <2>2, <2>7, EngineAccount
  <2>8. ASSUME NEW d \in Calls, EmitResult(d) PROVE Account(c)'
    BY <1>3, <2>2, <2>8, EmitAccount
  <2>9. ASSUME NEW d \in Opens, RegisterSession(d) PROVE Account(c)'
    BY <1>3, <2>2, <2>9, EngineAccount DEF Calls
  <2>10. ASSUME NEW d \in Opens, FinishSession(d) PROVE Account(c)'
    BY <1>3, <2>2, <2>10, FinishAccount
  <2>11. ASSUME \/ \E d \in Opens : HostOpens(d) \/ SessionDies(d)
                \/ UNCHANGED vars
         PROVE  Account(c)'
    <3>1. UNCHANGED <<call, up, down, early, events, run, op, reg>>
      BY <2>11 DEF HostOpens, SessionDies, vars, bridgeVars, clientVars, engineVars
    <3> QED
      BY <2>2, <3>1, AccountKept
  <2>12. CASE Receive
    BY <1>3, <2>2, <2>12, ReceiveAccount
  <2>13. ASSUME \/ CloseClient \/ LoseSocket
                \/ \E k \in Cleanups : CleanupTimesOut(k)
         PROVE  Account(c)'
    <3>1. /\ down' = <<>> /\ early' = {} /\ UNCHANGED <<events, run, op, reg>>
          /\ call'[c] = "idle" => call[c] = "idle"
      BY <2>13 DEF CloseClient, LoseSocket, CleanupTimesOut, OnClosed, engineVars
    <3>2. ASSUME NEW k \in Cleanups, CleanupTimesOut(k)
          PROVE  up' = up \/ \E m : Added(up, up', m) /\ m.kind = "cancel"
      <4>1. k \in Calls /\ Request("cancel", k) \in UpFrames /\ Request("cancel", k).kind = "cancel"
        BY BridgeAssumption, FrameMakes DEF Calls, Request
      <4> QED
        BY <1>0, <3>2, <4>1, ClientSends, AppendQueue DEF Frames
    <3>3. up' = up \/ \E m : Added(up, up', m) /\ m.kind = "cancel"
      BY <2>13, <3>2 DEF CloseClient, LoseSocket
    <3> QED
      BY <2>2, <3>1, <3>3, ClosedAccount
  <2>14. CASE HandleRequest
    BY <2>2, <2>14, HandleAccount
  <2>15. CASE SendReply
    <3>1. /\ UNCHANGED <<call, up, early, events, run, op, reg>> /\ reply # <<>>
          /\ down' = down \/ down' = Append(down, Head(reply))
      BY <2>15 DEF SendReply, Deliver, clientVars, engineVars
    <3>2. Head(reply) \in ReplyFrames /\ Head(reply).kind \in {"accepted", "refused", "closeFailed"}
      BY <1>0, <3>1, HeadTailProperties, FrameKinds DEF Frames
    <3>3. Head(reply) \in EventFrames \cup ReplyFrames /\ down \in Seq(EventFrames \cup ReplyFrames)
      BY <1>0, <3>2 DEF Frames
    <3>4. down' = down \/ Added(down, down', Head(reply))
      BY <3>1, <3>3, AppendQueue
    <3> QED
      BY <2>2, <3>1, <3>2, <3>4, AccountKept
  <2>16. CASE PumpEvent
    BY <2>2, <2>16, PumpAccount
  <2> QED
    BY <1>3, <2>3, <2>4, <2>5, <2>6, <2>7, <2>8, <2>9, <2>10, <2>11, <2>12, <2>13, <2>14, <2>15,
       <2>16
    DEF Next, EngineStep, OpenStep
<1> QED
  BY <1>1, <1>2, <1>3

(* An open under way finds its operation revoked.                           *)
LEMMA OutliveStep == IndInv /\ [Next]_vars => NoSessionOutlivesRenderer'
<1> SUFFICES ASSUME IndInv, [Next]_vars, ~attached', NEW c \in Opens PROVE host'[c] # "live"
  BY DEF NoSessionOutlivesRenderer
<1>0. Types /\ Accounted /\ NoSessionOutlivesRenderer
  BY TypeParts DEF IndInv
<1>1. CASE DetachRenderer
  BY <1>0, <1>1 DEF DetachRenderer, Types
<1>2. CASE ~DetachRenderer
  <2>1. ~attached /\ ~HandleRequest
    BY <1>2, AttachedStep, Zenon
  <2>2. host[c] # "live" /\ \A d \in Calls : op[d] # "active"
    BY <1>0, <2>1 DEF NoSessionOutlivesRenderer, Accounted
  <2>3. ASSUME NEW d \in Opens, HostOpens(d) \/ RegisterSession(d) \/ SessionDies(d)
        PROVE  host'[c] # "live"
    BY <1>0, <2>2, <2>3 DEF HostOpens, RegisterSession, SessionDies, Types, Calls
  <2>4. ASSUME NEW d \in Calls, FinishOperation(d) PROVE host'[c] # "live"
    BY <2>2, <2>4 DEF FinishOperation
  <2>5. \/ host' = host
        \/ \E d \in Opens : HostOpens(d) \/ RegisterSession(d) \/ SessionDies(d)
        \/ \E d \in Calls : FinishOperation(d)
    BY <1>2, <2>1
    DEF Next, EngineStep, OpenStep, StartCall, AbandonRequest, AbandonOperation,
        EmitResult, FinishSession, CloseSession, Receive,
        CleanupTimesOut, CloseClient, LoseSocket, SendReply, PumpEvent, vars, engineVars
  <2> QED
    BY <2>2, <2>3, <2>4, <2>5
<1> QED
  BY <1>1, <1>2

(* The client closes for a refused request only on receiving the refusal.    *)
LEMMA RefusedStep == IndInv /\ [Next]_vars => NoRequestRefused'
<1> SUFFICES ASSUME IndInv, [Next]_vars PROVE closed' # "refused"
  BY DEF NoRequestRefused
<1>0. closed # "refused"
  BY DEF IndInv, NoRequestRefused
<1>1. CASE Receive
  BY <1>1, ReceiveEffect
<1>2. ASSUME \/ CloseClient \/ LoseSocket
             \/ \E c \in Cleanups : CleanupTimesOut(c)
      PROVE  closed' # "refused"
  BY <1>2 DEF CloseClient, LoseSocket, CleanupTimesOut, OnClosed
<1>3. CASE /\ ~Receive /\ ~CloseClient /\ ~LoseSocket
           /\ \A c \in Cleanups : ~CleanupTimesOut(c)
  BY <1>0, <1>3
  DEF Next, EngineStep, OpenStep, StartCall, AbandonRequest, AbandonOperation, FinishOperation,
      EmitResult, HostOpens, RegisterSession, SessionDies, FinishSession, CloseSession,
      HandleRequest, SendReply, PumpEvent, DetachRenderer, vars, bridgeVars
<1> QED
  BY <1>1, <1>2, <1>3

(* A bridge before its first renderer, and a client without calls, satisfy  *)
(* the inductive invariant.                                                 *)
LEMMA IndInvInit == Init => IndInv
<1> SUFFICES ASSUME Init PROVE IndInv
  OBVIOUS
<1>1. Types
  <2>1. target \in [Executes -> Opens]
    <3>1. CASE Opens = {}
      BY <3>1, BridgeAssumption DEF Init
    <3>2. CASE Opens # {}
      <4>1. (CHOOSE o \in Opens : TRUE) \in Opens
        BY <3>2, Zenon
      <4> QED
        BY <4>1 DEF Init
    <3> QED
      BY <3>1, <3>2
  <2> QED
    BY <2>1 DEF Init, Types
<1>2. Frames
  BY EmptySeq, FS_EmptySet DEF Init, Frames
<1>3. Cardinality(early) <= MaxEarly
  BY FS_EmptySet, BridgeAssumption DEF Init
<1>4. ASSUME NEW c \in Calls PROVE Started(c) /\ OneResult(c)
  BY EmptyQueue DEF Init, Started, OneResult, Parked
<1>5. ASSUME NEW c \in Opens PROVE OneClosing(c) /\ ResultFirst(c)
  BY EmptyQueue DEF Init, OneClosing, ResultFirst
<1>6. Accounted
  BY <1>4, <1>5 DEF Init, Accounted
<1>7. TypeOK
  BY <1>1, <1>2, <1>3, TypeParts
<1>8. NoRequestRefused /\ NoSessionOutlivesRenderer
  BY DEF Init, NoRequestRefused, NoSessionOutlivesRenderer
<1> QED
  BY <1>2, <1>6, <1>7, <1>8 DEF IndInv

(* Every handler of the client, of the bridge and of the engine preserves   *)
(* the inductive invariant.                                                 *)
LEMMA IndInvStep == IndInv /\ [Next]_vars => IndInv'
<1> SUFFICES ASSUME IndInv, [Next]_vars PROVE IndInv'
  OBVIOUS
<1>1. Types' /\ Frames' /\ (Cardinality(early) <= MaxEarly)'
  BY TypesStep, FramesStep, EarlyStep
<1>2. TypeOK'
  BY <1>1, TypeParts, PTL
<1> QED
  BY <1>1, <1>2, AccountedStep, OutliveStep, RefusedStep DEF IndInv

(* The whole account, for every behaviour.                                  *)
THEOREM Invariance == Spec => []IndInv
  BY IndInvInit, IndInvStep, PTL DEF Spec

(* Every variable keeps its type, and the parked events their capacity.     *)
THEOREM TypeCorrect == Spec => []TypeOK
<1>1. IndInv => TypeOK
  BY DEF IndInv
<1> QED
  BY <1>1, Invariance, PTL

(* The client never asks for a release, or for the close of a session it has *)
(* retired, too early, twice or of a handle that is gone: the engine never  *)
(* refuses one, which would close the whole binding.                        *)
THEOREM RequestsAccepted == Spec => []NoRequestRefused
<1>1. IndInv => NoRequestRefused
  BY DEF IndInv
<1> QED
  BY <1>1, Invariance, PTL

(* No session of the host survives the renderer it was opened for.           *)
THEOREM SessionsEndWithRenderer == Spec => []NoSessionOutlivesRenderer
<1>1. IndInv => NoSessionOutlivesRenderer
  BY DEF IndInv
<1> QED
  BY <1>1, Invariance, PTL
==============================================================================
